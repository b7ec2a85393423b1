--------------------------- MODULE TunnelSupervisor ---------------------------
(***************************************************************************)
(* scripts/tunnel_hindsight.py, run_tunnel: a loop that starts kubectl     *)
(* port-forward, looks at its health once, waits for it to end and starts  *)
(* the next one, until it is interrupted.                                  *)
(*                                                                         *)
(*   sup.pc    where the loop is; returned (0) and died (an exception that *)
(*             no handler takes) are its ends                              *)
(*   sup.proc  the forward the variable proc refers to, 0 before the first *)
(*   kids      the forwards: serving, clogged (blocked on a full pipe that *)
(*             the supervisor does not read), told to stop, or gone        *)
(*   slip      history: a print failed, or an interrupt came while Popen   *)
(*             or the interrupt handler was at work                        *)
(***************************************************************************)
EXTENDS Integers, Sequences

CONSTANTS
  MaxForwards,  \* bound on the forwards started
  MaxErrors     \* bound on the failures of Popen
ASSUME TunnelAssumption == MaxForwards \in Nat \ {0} /\ MaxErrors \in Nat

VARIABLES sup, kids, errors, slip
tunnelVars == <<sup, kids, errors, slip>>

Alive == {"serving", "clogged"}

TunnelInit ==
  /\ sup = [pc |-> "launch", proc |-> 0]
  /\ kids = <<>>
  /\ errors = 0
  /\ slip = FALSE

GoTo(pc) == sup' = [sup EXCEPT !.pc = pc]
Forked == /\ Len(kids) < MaxForwards
          /\ kids' = Append(kids, "serving")

\* Popen gives the loop a handle to a new forward.
Launch ==
  /\ sup.pc = "launch" /\ Forked
  /\ sup' = [pc |-> "settle", proc |-> Len(kids) + 1]
  /\ UNCHANGED <<errors, slip>>

\* Popen fails, for want of kubectl or of a process.
LaunchFails ==
  /\ sup.pc = "launch" /\ errors < MaxErrors
  /\ GoTo("error") /\ errors' = errors + 1
  /\ UNCHANGED <<kids, slip>>

\* An interrupt after the fork and before the assignment: a forward that
\* nobody has a handle to.
LaunchInterrupted ==
  /\ sup.pc = "launch" /\ Forked
  /\ GoTo("handle") /\ slip' = TRUE
  /\ UNCHANGED errors

\* Two seconds, one look at the health, whatever it says.
Settle ==
  /\ sup.pc = "settle" /\ GoTo("wait")
  /\ UNCHANGED <<kids, errors, slip>>

\* proc.wait returns when the forward has gone.
WaitEnds ==
  /\ sup.pc = "wait" /\ kids[sup.proc] = "gone" /\ GoTo("pause")
  /\ UNCHANGED <<kids, errors, slip>>

\* Mutant of Pause: back to the wait for the forward that has gone.
PauseWaitsAgain ==
  /\ sup.pc = "pause" /\ GoTo("wait")
  /\ UNCHANGED <<kids, errors, slip>>

Pause ==
  /\ sup.pc = "pause" /\ GoTo("launch")
  /\ UNCHANGED <<kids, errors, slip>>

\* Mutant of Retry: on with the wait, as if there were a forward.
RetryWaits ==
  /\ sup.pc = "error" /\ GoTo("wait")
  /\ UNCHANGED <<kids, errors, slip>>

\* Ten seconds after an exception the loop goes on.
Retry ==
  /\ sup.pc = "error" /\ GoTo("launch")
  /\ UNCHANGED <<kids, errors, slip>>

\* A print of the loop fails: an exception like any other, with the forward
\* still there; one of the handlers' ends the program.
PrintFails ==
  /\ \/ sup.pc \in {"settle", "pause"} /\ GoTo("error")
     \/ sup.pc \in {"error", "handle"} /\ GoTo("died")
  /\ slip' = TRUE /\ UNCHANGED <<kids, errors>>

\* SIGINT in the loop is handled; in the pause after an exception it is not.
Interrupt ==
  /\ \/ sup.pc \in {"launch", "settle", "wait", "pause"} /\ GoTo("handle") /\ slip' = slip
     \/ sup.pc = "error" /\ GoTo("died") /\ slip' = slip
     \/ sup.pc = "handle" /\ GoTo("died") /\ slip' = TRUE
  /\ UNCHANGED <<kids, errors>>

\* Mutant of Handle: the forward is not told to stop.
HandleLeaves ==
  /\ sup.pc = "handle" /\ GoTo("returned")
  /\ UNCHANGED <<kids, errors, slip>>

\* The forward proc refers to is told to stop if it has not gone.
Handle ==
  /\ sup.pc = "handle" /\ GoTo("returned")
  /\ kids' = IF sup.proc # 0 /\ kids[sup.proc] # "gone"
             THEN [kids EXCEPT ![sup.proc] = "told"] ELSE kids
  /\ UNCHANGED <<errors, slip>>

\* The forwards: they may end at any time, if nothing holds them up.
ForwardEnds ==
  /\ \E k \in DOMAIN kids : /\ kids[k] \in {"serving", "told"}
                            /\ kids' = [kids EXCEPT ![k] = "gone"]
  /\ UNCHANGED <<sup, errors, slip>>
ForwardClogs ==
  /\ \E k \in DOMAIN kids : /\ kids[k] = "serving"
                            /\ kids' = [kids EXCEPT ![k] = "clogged"]
  /\ UNCHANGED <<sup, errors, slip>>

SupervisorStep == Launch \/ Settle \/ WaitEnds \/ Pause \/ Retry \/ Handle

TunnelNext ==
  \/ SupervisorStep
  \/ LaunchFails \/ LaunchInterrupted \/ PrintFails \/ Interrupt
  \/ ForwardEnds \/ ForwardClogs

\* The loop goes on by itself; nothing is assumed of the forwards, of the
\* failures or of the user.
TunnelFairness == WF_tunnelVars(SupervisorStep)
TunnelSpec == TunnelInit /\ [][TunnelNext]_tunnelVars /\ TunnelFairness
-----------------------------------------------------------------------------
Ended == sup.pc \in {"returned", "died"}

TunnelTypeOK ==
  /\ sup \in [pc : {"launch", "settle", "wait", "pause", "error", "handle",
                    "returned", "died"}, proc : 0..Len(kids)]
  /\ kids \in Seq({"serving", "clogged", "told", "gone"})
  /\ Len(kids) <= MaxForwards
  /\ errors \in 0..MaxErrors
  /\ slip \in BOOLEAN
  /\ sup.pc \in {"settle", "wait", "pause"} => sup.proc # 0

\* The supervisor has at most one forward alive, the one it would stop, and
\* leaves none behind when an interrupt or an exception ends it; a Popen that
\* fails leaves proc at a forward that has gone.  A failed print (line 63, and
\* line 68 before the terminate of line 70) and an interrupt inside Popen or
\* the handler are the exceptions.  SIGTERM and SIGKILL, for which the script
\* has no handler, are not steps of the model.
NoForwardLeft ==
  ~slip => \A k \in DOMAIN kids : kids[k] \in Alive => k = sup.proc /\ ~Ended

\* A forward that has gone is replaced, unless the supervisor ends: the loop
\* of lines 53-74 gives up on no failure.  One that is clogged never is.
Reconnects ==
  \A k \in 1..(MaxForwards - 1) :
    (sup.proc = k /\ Len(kids) < MaxForwards /\ kids[k] = "gone")
      ~> (sup.proc # k \/ Ended \/ Len(kids) = MaxForwards)
=============================================================================
