--------------------------- MODULE StdoutRedirect ---------------------------
(***************************************************************************)
(* pkg/mcp/stdout.go under RunStdio: the process-global os.Stdout is a     *)
(* pipe while the session runs, a goroutine copies the pipe to the sink    *)
(* (stderr), and Close puts the real stdout back and waits for the copy.   *)
(*                                                                         *)
(* Writers are goroutines that call fmt.Println or let a library write.    *)
(* Each resolves os.Stdout once and then writes one line of LineLength     *)
(* cells, a cell being what the kernel takes into the pipe at once.  The   *)
(* write lock, the parking of a writer before a full pipe and its eviction *)
(* by a Close are those of Go's os.File.                                   *)
(***************************************************************************)
EXTENDS Integers, Sequences

CONSTANTS Writer,        \* the goroutines with one stray line each
          LineLength,    \* cells in a line
          PipeCapacity,  \* cells the pipe holds
          ReadSize,      \* cells one read of io.Copy takes at most
          MaxFrames      \* bound: protocol frames of the session

ASSUME RedirectAssumption ==
  /\ LineLength \in Nat \ {0}
  /\ PipeCapacity \in Nat \ {0}
  /\ ReadSize \in Nat \ {0}
  /\ MaxFrames \in Nat

Cell == Writer \X (1..LineLength)

VARIABLES
  main,      \* where RunStdio stands
  stdout,    \* what os.Stdout refers to
  real,      \* what the real stdout received: "frame" or "stray"
  pipe,      \* cells in the pipe
  writeEnd,  \* the pipe's write end: "open", "closing" or "closed"
  readOpen,  \* the pipe's read end is open
  drain,     \* where the drain goroutine stands
  held,      \* the buffer of io.Copy between its read and its write
  sink,      \* what the sink received
  sinkOK,    \* no write to the sink has failed
  pc, dest,  \* per writer: where it stands, the file it resolved
  sent,      \* per writer: cells of its line taken by the pipe
  accepted   \* history: the cells taken by the pipe, in order

mainVars   == <<main, stdout, writeEnd>>
drainVars  == <<drain, held, sink, sinkOK, readOpen>>
writerVars == <<pc, dest, sent, accepted>>
vars == <<mainVars, drainVars, writerVars, real, pipe>>

Init ==
  /\ main = "start"
  /\ stdout = "real"
  /\ real = <<>>
  /\ pipe = <<>>
  /\ writeEnd = "open"
  /\ readOpen = TRUE
  /\ drain = "absent"
  /\ held = <<>>
  /\ sink = <<>>
  /\ sinkOK = TRUE
  /\ pc = [w \in Writer |-> "idle"]
  /\ dest = [w \in Writer |-> "real"]
  /\ sent = [w \in Writer |-> 0]
  /\ accepted = <<>>

-----------------------------------------------------------------------------
(* RunStdio *)

\* Mutant: the handle is built and os.Stdout never swapped.
InstallWithoutSwap ==
  /\ main = "start"
  /\ main' = "serving"
  /\ drain' = "copying"
  /\ UNCHANGED <<stdout, writeEnd, held, sink, sinkOK, readOpen, writerVars,
                 real, pipe>>

\* installStdoutRedirect: swap os.Stdout for the write end, start the drain.
Install ==
  /\ main = "start"
  /\ main' = "serving"
  /\ stdout' = "pipe"
  /\ drain' = "copying"
  /\ UNCHANGED <<writeEnd, held, sink, sinkOK, readOpen, writerVars, real, pipe>>

\* os.Pipe fails: RunStdio returns the error and serves nothing.
InstallFails ==
  /\ main = "start"
  /\ main' = "failed"
  /\ UNCHANGED <<stdout, writeEnd, drainVars, writerVars, real, pipe>>

\* The transport, which was handed the pinned file, writes one frame.
Frame ==
  /\ main = "serving"
  /\ Len(real) < MaxFrames
  /\ real' = Append(real, "frame")
  /\ UNCHANGED <<mainVars, drainVars, writerVars, pipe>>

\* Mutant: the handle forgot the real file.
RestoreNil ==
  /\ main = "serving"
  /\ main' = "restored"
  /\ stdout' = "nil"
  /\ UNCHANGED <<writeEnd, drainVars, writerVars, real, pipe>>

\* s.Run has returned; the deferred Close assigns os.Stdout.
Restore ==
  /\ main = "serving"
  /\ main' = "restored"
  /\ stdout' = "real"
  /\ UNCHANGED <<writeEnd, drainVars, writerVars, real, pipe>>

\* writeEnd.Close bars new writes and evicts the parked writer ...
CloseWriteEnd ==
  /\ main = "restored"
  /\ main' = "closing"
  /\ writeEnd' = "closing"
  /\ UNCHANGED <<stdout, drainVars, writerVars, real, pipe>>

Writing(w) == pc[w] \in {"writing", "parked"}

\* Mutant: the read end is closed along with the write end.
CloseBothEnds ==
  /\ main = "closing"
  /\ \A w \in Writer : ~Writing(w)
  /\ main' = "waiting"
  /\ writeEnd' = "closed"
  /\ readOpen' = FALSE
  /\ pipe' = <<>>
  /\ UNCHANGED <<stdout, drain, held, sink, sinkOK, writerVars, real>>

\* Mutant: Close returns without closing the write end.
WriteEndLeftOpen ==
  /\ main = "closing"
  /\ main' = "waiting"
  /\ UNCHANGED <<stdout, writeEnd, drainVars, writerVars, real, pipe>>

\* ... and returns when the writer that holds the file has let go of it.
WriteEndClosed ==
  /\ main = "closing"
  /\ \A w \in Writer : ~Writing(w)
  /\ main' = "waiting"
  /\ writeEnd' = "closed"
  /\ UNCHANGED <<stdout, drainVars, writerVars, real, pipe>>

\* Mutant: Close does not wait for the drain.
ReturnAtOnce ==
  /\ main = "waiting"
  /\ main' = "returned"
  /\ UNCHANGED <<stdout, writeEnd, drainVars, writerVars, real, pipe>>

\* <-r.done
Return ==
  /\ main = "waiting"
  /\ drain = "done"
  /\ main' = "returned"
  /\ UNCHANGED <<stdout, writeEnd, drainVars, writerVars, real, pipe>>

-----------------------------------------------------------------------------
(* The drain goroutine: io.Copy(sink, readEnd) *)

Least(a, b) == IF a < b THEN a ELSE b

ReadPipe ==
  /\ drain = "copying"
  /\ pipe # <<>>
  /\ LET n == Least(ReadSize, Len(pipe))
     IN  /\ held' = SubSeq(pipe, 1, n)
         /\ pipe' = SubSeq(pipe, n + 1, Len(pipe))
  /\ drain' = "holding"
  /\ UNCHANGED <<mainVars, sink, sinkOK, readOpen, writerVars, real>>

WriteSink ==
  /\ drain = "holding"
  /\ sink' = sink \o held
  /\ held' = <<>>
  /\ drain' = "copying"
  /\ UNCHANGED <<mainVars, sinkOK, readOpen, writerVars, real, pipe>>

\* Mutant: a failed write is passed over and the copying goes on.
SinkSkips ==
  /\ drain = "holding"
  /\ \E k \in 0..(Len(held) - 1) : sink' = sink \o SubSeq(held, 1, k)
  /\ held' = <<>>
  /\ sinkOK' = FALSE
  /\ drain' = "copying"
  /\ UNCHANGED <<mainVars, readOpen, writerVars, real, pipe>>

\* A write to the sink fails after k cells: io.Copy gives up.
SinkFails ==
  /\ drain = "holding"
  /\ \E k \in 0..(Len(held) - 1) : sink' = sink \o SubSeq(held, 1, k)
  /\ held' = <<>>
  /\ sinkOK' = FALSE
  /\ drain' = "ended"
  /\ UNCHANGED <<mainVars, readOpen, writerVars, real, pipe>>

\* Mutant: an empty pipe is taken for the end of the file.
EndOnEmpty ==
  /\ drain = "copying"
  /\ pipe = <<>>
  /\ drain' = "ended"
  /\ UNCHANGED <<mainVars, held, sink, sinkOK, readOpen, writerVars, real, pipe>>

\* io.Copy returns at the end of the file: nothing left and no writer left.
EndOfFile ==
  /\ drain = "copying"
  /\ pipe = <<>>
  /\ writeEnd = "closed"
  /\ drain' = "ended"
  /\ UNCHANGED <<mainVars, held, sink, sinkOK, readOpen, writerVars, real, pipe>>

\* Mutant: the read end stays open when the copy has failed.
EndDrainReadEndOpen ==
  /\ drain = "ended"
  /\ drain' = "done"
  /\ UNCHANGED <<mainVars, held, sink, sinkOK, readOpen, writerVars, real, pipe>>

\* readEnd.Close(), then the deferred close(r.done).
EndDrain ==
  /\ drain = "ended"
  /\ drain' = "done"
  /\ readOpen' = FALSE
  /\ UNCHANGED <<mainVars, held, sink, sinkOK, writerVars, real, pipe>>

-----------------------------------------------------------------------------
(* Writers *)

\* The argument os.Stdout of a print is read, once.
Resolve(w) ==
  /\ main \notin {"start", "failed"}
  /\ pc[w] = "idle"
  /\ pc' = [pc EXCEPT ![w] = "resolved"]
  /\ dest' = [dest EXCEPT ![w] = stdout]
  /\ UNCHANGED <<mainVars, drainVars, sent, accepted, real, pipe>>

WriteReal(w) ==
  /\ pc[w] = "resolved"
  /\ dest[w] = "real"
  /\ real' = Append(real, "stray")
  /\ pc' = [pc EXCEPT ![w] = "done"]
  /\ UNCHANGED <<mainVars, drainVars, dest, sent, accepted, pipe>>

\* The file's write lock admits one writer at a time.
LockFile(w) ==
  /\ pc[w] = "resolved"
  /\ dest[w] = "pipe"
  /\ writeEnd = "open"
  /\ \A v \in Writer : ~Writing(v)
  /\ pc' = [pc EXCEPT ![w] = "writing"]
  /\ UNCHANGED <<mainVars, drainVars, dest, sent, accepted, real, pipe>>

PipeFull == Len(pipe) >= PipeCapacity

Push(w) ==
  /\ pc[w] = "writing"
  /\ readOpen
  /\ ~PipeFull
  /\ pipe' = Append(pipe, <<w, sent[w] + 1>>)
  /\ accepted' = Append(accepted, <<w, sent[w] + 1>>)
  /\ sent' = [sent EXCEPT ![w] = @ + 1]
  /\ pc' = [pc EXCEPT ![w] = IF sent[w] + 1 = LineLength THEN "done" ELSE @]
  /\ UNCHANGED <<mainVars, drainVars, dest, real>>

Park(w) ==
  /\ pc[w] = "writing"
  /\ readOpen /\ PipeFull /\ writeEnd = "open"
  /\ pc' = [pc EXCEPT ![w] = "parked"]
  /\ UNCHANGED <<mainVars, drainVars, dest, sent, accepted, real, pipe>>

Wake(w) ==
  /\ pc[w] = "parked"
  /\ readOpen /\ ~PipeFull /\ writeEnd = "open"
  /\ pc' = [pc EXCEPT ![w] = "writing"]
  /\ UNCHANGED <<mainVars, drainVars, dest, sent, accepted, real, pipe>>

\* What is left of the line is lost: the file was closed before the write,
\* or under a writer that waits for room, or the pipe has no reader (EPIPE).
GiveUp(w) ==
  /\ \/ pc[w] = "resolved" /\ dest[w] = "pipe" /\ writeEnd # "open"
     \/ pc[w] = "parked" /\ writeEnd # "open"
     \/ pc[w] = "writing" /\ PipeFull /\ writeEnd # "open"
     \/ Writing(w) /\ ~readOpen
  /\ pc' = [pc EXCEPT ![w] = "done"]
  /\ UNCHANGED <<mainVars, drainVars, dest, sent, accepted, real, pipe>>

-----------------------------------------------------------------------------

\* Everything came to rest: the process exits.
Quiescent ==
  /\ \/ main = "failed"
     \/ main = "returned" /\ \A w \in Writer : pc[w] = "done"
  /\ UNCHANGED vars

Close == Restore \/ CloseWriteEnd \/ WriteEndClosed \/ Return

Drain == ReadPipe \/ WriteSink \/ SinkFails \/ EndOfFile \/ EndDrain

Write(w) ==
  WriteReal(w) \/ LockFile(w) \/ Push(w) \/ Park(w) \/ Wake(w) \/ GiveUp(w)

Next ==
  \/ Install \/ InstallFails \/ Frame
  \/ Close
  \/ Drain
  \/ \E w \in Writer : Resolve(w) \/ Write(w)
  \/ Quiescent

(***************************************************************************)
(* Fairness: the scheduler runs every goroutine that can run, and stderr   *)
(* takes or refuses a write in the end.  Nothing makes a session end, a    *)
(* frame come or a writer start.                                           *)
(***************************************************************************)
Fairness ==
  /\ WF_vars(CloseWriteEnd \/ WriteEndClosed \/ Return)
  /\ WF_vars(Drain)
  /\ \A w \in Writer : WF_vars(Write(w))

Spec == Init /\ [][Next]_vars /\ Fairness

-----------------------------------------------------------------------------
(* Properties *)

\* The type of every variable; the pipe never exceeds its capacity.
RedirectTypeOK ==
  /\ main \in {"start", "serving", "restored", "closing", "waiting",
               "returned", "failed"}
  /\ stdout \in {"real", "pipe"}
  /\ real \in Seq({"frame", "stray"})
  /\ pipe \in Seq(Cell) /\ Len(pipe) <= PipeCapacity
  /\ writeEnd \in {"open", "closing", "closed"}
  /\ readOpen \in BOOLEAN
  /\ drain \in {"absent", "copying", "holding", "ended", "done"}
  /\ held \in Seq(Cell)
  /\ sink \in Seq(Cell)
  /\ sinkOK \in BOOLEAN
  /\ pc \in [Writer -> {"idle", "resolved", "writing", "parked", "done"}]
  /\ dest \in [Writer -> {"real", "pipe"}]
  /\ sent \in [Writer -> 0..LineLength]
  /\ accepted \in Seq(Cell)

\* The purpose of the redirect (stdout.go:18-22): as long as the session can
\* write a frame, nothing but frames has reached the real stdout, whatever
\* goroutine printed and whenever it resolved os.Stdout.
FramingHeld ==
  main = "serving" => \A i \in 1..Len(real) : real[i] = "frame"

\* What the pipe took is in the sink, in the copy buffer or in the pipe, in
\* the order it was taken, as long as no write to the sink failed.
NothingLost == sinkOK => accepted = sink \o held \o pipe

\* Close waits for the drain goroutine (stdout.go:59-60): when it has
\* returned and the sink worked, the sink has all that the pipe ever took,
\* the writes that raced with Close included.
DrainedOnReturn == main = "returned" /\ sinkOK => sink = accepted

\* No cell of the sequence follows another but the one before it in its line;
\* only a line at its end is followed by the beginning of one.
Unbroken(cells) ==
  \A i \in 1..(Len(cells) - 1) :
     cells[i + 1] = IF cells[i][2] < LineLength
                      THEN <<cells[i][1], cells[i][2] + 1>>
                      ELSE <<cells[i + 1][1], 1>>

\* Lines longer than the room in the pipe are taken in pieces over many
\* steps of writers and drain, yet no line on stderr is cut by another, not
\* even when Close or a failing sink stops one halfway: a torn line is the last.
LinesWhole == Unbroken(sink)

\* Who waits for whom: Close for the writer in the file, then for the drain;
\* the drain for a cell or the last writer; a writer for the file or for room.
CloseWaits ==
  \/ main = "closing" /\ \E w \in Writer : Writing(w)
  \/ main = "waiting" /\ drain # "done"

DrainWaits == drain = "copying" /\ pipe = <<>> /\ writeEnd # "closed"

WriterWaits(w) ==
  /\ writeEnd = "open"
  /\ \/ pc[w] = "resolved" /\ dest[w] = "pipe" /\ \E v \in Writer : Writing(v)
     \/ pc[w] = "parked" /\ PipeFull /\ readOpen

\* Close waits for the drain, which waits for the end of the file, which waits
\* for a writer inside it, which waits for the drain (stdout.go:55-69), and yet
\* never in a circle: whenever Close or a writer waits, the drain has work to
\* do or the writer in the file can go on.
NoCircularWait ==
  CloseWaits \/ (\E w \in Writer : WriterWaits(w)) =>
    \/ drain \notin {"absent", "done"} /\ ~DrainWaits
    \/ \E w \in Writer : Writing(w) /\ ~WriterWaits(w)

\* The conduit to stderr as those who print may think of it.
Lines == INSTANCE Conduit WITH
           Source <- Writer, Length <- LineLength,
           taken <- accepted, delivered <- sink,
           broken <- ~sinkOK, ended <- main = "returned"

\* Whatever the interleaving of writers, lock, pipe, copy and Close, every step
\* of the redirect is a step of the conduit or changes nothing one of those who
\* print could tell: whole lines taken one at a time, delivered in order and
\* without a gap up to a failure, and nothing taken or delivered after Close
\* has returned, which it does only with everything delivered or after a failure.
ImplementsConduit == Lines!ConduitSpec

\* A print never hangs its tool handler: it returns even when the pipe is
\* full, the sink has failed, or Close closes the file under it.
PrintsReturn == \A w \in Writer : pc[w] = "resolved" ~> pc[w] = "done"

\* Close comes to an end although it waits for two other goroutines.
CloseReturns == main = "restored" ~> main = "returned"

=============================================================================
