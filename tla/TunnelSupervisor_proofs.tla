------------------------ MODULE TunnelSupervisor_proofs ------------------------
(***************************************************************************)
(* Proofs about the tunnel supervisor, for any number of forwards and of   *)
(* failures of Popen.                                                      *)
(***************************************************************************)
EXTENDS TunnelSupervisor, TLAPS, SequenceTheorems

KidStates == {"serving", "clogged", "told", "gone"}

\* NoForwardLeft is not inductive: that a failed or interrupted Popen leaves
\* nothing behind stands on the handle's forward having gone by then.
TunnelInv ==
  /\ TunnelTypeOK
  /\ ~slip => \A k \in DOMAIN kids : kids[k] \in Alive =>
       k = sup.proc /\ sup.pc \in {"settle", "wait", "handle"}

\* A new forward is the last of the list; the others stay as they were.
LEMMA ForkAppends ==
  ASSUME kids \in Seq(KidStates), Forked
  PROVE  /\ kids' \in Seq(KidStates) /\ Len(kids') = Len(kids) + 1
         /\ Len(kids) \in Nat /\ Len(kids') <= MaxForwards
         /\ \A k \in DOMAIN kids' : k # Len(kids) + 1 =>
              k \in DOMAIN kids /\ kids'[k] = kids[k]
<1>1. kids' = Append(kids, "serving") /\ Len(kids) < MaxForwards  BY DEF Forked
<1>2. "serving" \in KidStates  BY DEF KidStates
<1>3. /\ kids' \in Seq(KidStates) /\ Len(kids') = Len(kids) + 1
      /\ \A i \in 1..Len(kids) : kids'[i] = kids[i]
  BY <1>1, <1>2, AppendProperties
<1>4. /\ Len(kids) \in Nat /\ DOMAIN kids = 1..Len(kids)
      /\ DOMAIN kids' = 1..(Len(kids) + 1)
  BY <1>3, LenProperties
<1>5. Len(kids') <= MaxForwards  BY <1>1, <1>3, <1>4, TunnelAssumption
<1>6. \A k \in DOMAIN kids' : k # Len(kids) + 1 =>
        k \in DOMAIN kids /\ kids'[k] = kids[k]
  BY <1>3, <1>4
<1>7. QED  BY <1>3, <1>4, <1>5, <1>6

\* Changing one forward keeps the list.
LEMMA KidChanges ==
  ASSUME kids \in Seq(KidStates), NEW k \in DOMAIN kids, NEW s \in KidStates,
         kids' = [kids EXCEPT ![k] = s]
  PROVE  /\ kids' \in Seq(KidStates) /\ Len(kids') = Len(kids)
         /\ DOMAIN kids' = DOMAIN kids /\ kids'[k] = s
         /\ \A j \in DOMAIN kids : j # k => kids'[j] = kids[j]
<1>1. k \in 1..Len(kids)  BY LenProperties
<1>2. kids' \in Seq(KidStates) /\ Len(kids') = Len(kids)
  BY <1>1, ExceptSeq
<1>3. QED  BY <1>2

LEMMA TunnelInitInv == TunnelInit => TunnelInv
<1> SUFFICES ASSUME TunnelInit PROVE TunnelInv  OBVIOUS
<1>1. <<>> \in Seq(KidStates) /\ Len(<<>>) = 0  BY EmptySeq
<1>2. kids = <<>> /\ DOMAIN kids = {}  BY DEF TunnelInit
<1>3. TunnelTypeOK
  <2>1. Len(kids) = 0 /\ kids \in Seq(KidStates)  BY <1>1, <1>2
  <2>2. Len(kids) <= MaxForwards /\ 0 \in 0..Len(kids) /\ 0 \in 0..MaxErrors
    BY <2>1, TunnelAssumption
  <2>3. QED  BY <2>1, <2>2 DEF TunnelInit, TunnelTypeOK, KidStates
<1>4. QED  BY <1>2, <1>3 DEF TunnelInv

LEMMA TunnelNextInv == TunnelInv /\ [TunnelNext]_tunnelVars => TunnelInv'
<1> SUFFICES ASSUME TunnelInv, [TunnelNext]_tunnelVars PROVE TunnelInv'
  OBVIOUS
<1>0. TunnelTypeOK  BY DEF TunnelInv
<1>1. /\ kids \in Seq(KidStates) /\ Len(kids) \in Nat /\ DOMAIN kids = 1..Len(kids)
      /\ sup.proc \in 0..Len(kids) /\ Len(kids) <= MaxForwards
      /\ errors \in 0..MaxErrors
  BY <1>0, LenProperties DEF TunnelTypeOK, KidStates
<1>2. CASE Launch
  <2>1. /\ Forked /\ sup' = [pc |-> "settle", proc |-> Len(kids) + 1]
        /\ errors' = errors /\ slip' = slip /\ sup.pc = "launch"
    BY <1>2 DEF Launch
  <2>2. TunnelTypeOK'
    BY <1>0, <1>1, <2>1, ForkAppends DEF TunnelTypeOK, KidStates
  <2>3. ASSUME ~slip, NEW k \in DOMAIN kids', kids'[k] \in Alive
        PROVE  k = Len(kids) + 1
    BY <1>1, <2>1, <2>3, ForkAppends DEF TunnelInv
  <2>4. QED  BY <2>1, <2>2, <2>3 DEF TunnelInv
<1>3. CASE LaunchInterrupted
  <2>1. /\ Forked /\ sup' = [sup EXCEPT !.pc = "handle"]
        /\ errors' = errors /\ slip' = TRUE
    BY <1>3 DEF LaunchInterrupted, GoTo
  <2>2. TunnelTypeOK'
    BY <1>0, <1>1, <2>1, ForkAppends DEF TunnelTypeOK, KidStates
  <2>3. QED  BY <2>1, <2>2 DEF TunnelInv
<1>4. CASE LaunchFails \/ Settle \/ WaitEnds \/ Pause \/ Retry \/ PrintFails \/ Interrupt
  <2>1. /\ kids' = kids /\ errors' \in 0..MaxErrors /\ slip' \in BOOLEAN
        /\ sup'.proc = sup.proc
    <3>1. kids' = kids  BY <1>4 DEF LaunchFails, Settle, WaitEnds, Pause, Retry,
      PrintFails, Interrupt
    <3>2. errors' \in 0..MaxErrors
      <4>1. CASE LaunchFails  BY <1>1, <4>1, TunnelAssumption DEF LaunchFails
      <4>2. CASE ~LaunchFails
        BY <1>1, <1>4, <4>2 DEF Settle, WaitEnds, Pause, Retry, PrintFails, Interrupt
      <4>3. QED  BY <4>1, <4>2
    <3>3. slip' \in BOOLEAN
      BY <1>0, <1>4, Zenon DEF LaunchFails, Settle, WaitEnds, Pause, Retry, PrintFails,
         Interrupt, TunnelTypeOK
    <3>4. \E pc : sup' = [sup EXCEPT !.pc = pc]
      BY <1>4, Zenon DEF LaunchFails, Settle, WaitEnds, Pause, Retry, PrintFails,
         Interrupt, GoTo
    <3>5. sup'.proc = sup.proc  BY <1>0, <3>4 DEF TunnelTypeOK
    <3>6. QED  BY <3>1, <3>2, <3>3, <3>5
  <2>2. TunnelTypeOK'
    BY <1>0, <1>4, <2>1 DEF LaunchFails, Settle, WaitEnds, Pause, Retry,
       PrintFails, Interrupt, GoTo, TunnelTypeOK
  <2>3. ASSUME ~slip', NEW k \in DOMAIN kids, kids[k] \in Alive
        PROVE  k = sup'.proc /\ sup'.pc \in {"settle", "wait", "handle"}
    <3>1. ~slip /\ ~PrintFails
      BY <1>4, <2>3 DEF LaunchFails, Settle, WaitEnds, Pause, Retry, PrintFails,
         Interrupt
    <3>2. k = sup.proc /\ sup.pc \in {"settle", "wait", "handle"}
      BY <2>3, <3>1 DEF TunnelInv
    <3>3. sup.pc = "wait" => ~WaitEnds
      BY <2>3, <3>2 DEF WaitEnds, Alive
    <3>4. sup.pc = "handle" => ~Interrupt
      BY <2>3 DEF Interrupt, GoTo
    <3>5. QED
      BY <1>0, <1>4, <2>1, <3>1, <3>2, <3>3, <3>4 DEF LaunchFails, Settle, WaitEnds,
         Pause, Retry, Interrupt, GoTo, TunnelTypeOK
  <2>4. QED  BY <2>1, <2>2, <2>3 DEF TunnelInv
<1>5. CASE Handle
  <2>1. /\ sup.pc = "handle" /\ sup' = [sup EXCEPT !.pc = "returned"]
        /\ errors' = errors /\ slip' = slip
    BY <1>5 DEF Handle, GoTo
  <2>2. CASE sup.proc # 0 /\ kids[sup.proc] # "gone"
    <3>1. sup.proc \in DOMAIN kids /\ "told" \in KidStates
      BY <1>1, <2>2 DEF KidStates
    <3>2. kids' = [kids EXCEPT ![sup.proc] = "told"]  BY <1>5, <2>2 DEF Handle
    <3>3. /\ kids' \in Seq(KidStates) /\ Len(kids') = Len(kids)
          /\ DOMAIN kids' = DOMAIN kids /\ kids'[sup.proc] = "told"
          /\ \A j \in DOMAIN kids : j # sup.proc => kids'[j] = kids[j]
      BY <1>1, <3>1, <3>2, KidChanges
    <3>4. TunnelTypeOK'  BY <1>0, <1>1, <2>1, <3>3 DEF TunnelTypeOK, KidStates
    <3>5. QED  BY <2>1, <3>3, <3>4 DEF TunnelInv, Alive
  <2>3. CASE ~(sup.proc # 0 /\ kids[sup.proc] # "gone")
    <3>1. kids' = kids  BY <1>5, <2>3 DEF Handle
    <3>2. TunnelTypeOK'  BY <1>0, <2>1, <3>1 DEF TunnelTypeOK
    <3>3. \A k \in DOMAIN kids : k = sup.proc => kids[k] = "gone"
      BY <1>1, <2>3
    <3>4. QED  BY <2>1, <3>1, <3>2, <3>3 DEF TunnelInv, Alive
  <2>4. QED  BY <2>2, <2>3
<1>6. CASE ForwardEnds \/ ForwardClogs
  <2>1. PICK k \in DOMAIN kids, s \in {"gone", "clogged"} :
          /\ kids' = [kids EXCEPT ![k] = s]
          /\ s = "clogged" => kids[k] = "serving"
    BY <1>6 DEF ForwardEnds, ForwardClogs
  <2>2. UNCHANGED <<sup, errors, slip>>  BY <1>6 DEF ForwardEnds, ForwardClogs
  <2>3. /\ kids' \in Seq(KidStates) /\ Len(kids') = Len(kids)
        /\ DOMAIN kids' = DOMAIN kids /\ kids'[k] = s
        /\ \A j \in DOMAIN kids : j # k => kids'[j] = kids[j]
    BY <1>1, <2>1, KidChanges DEF KidStates
  <2>4. TunnelTypeOK'  BY <1>0, <1>1, <2>2, <2>3 DEF TunnelTypeOK, KidStates
  <2>5. \A j \in DOMAIN kids : kids'[j] \in Alive => kids[j] \in Alive
    BY <2>1, <2>3 DEF Alive
  <2>6. QED  BY <2>2, <2>3, <2>4, <2>5 DEF TunnelInv
<1>7. CASE UNCHANGED tunnelVars
  BY <1>7 DEF tunnelVars, TunnelInv, TunnelTypeOK
<1>8. QED
  BY <1>2, <1>3, <1>4, <1>5, <1>6, <1>7 DEF TunnelNext, SupervisorStep

\* The supervisor never has two forwards alive and ends without one, unless a
\* print failed or Popen or the interrupt handler was interrupted.
THEOREM NoForwardIsLeft == TunnelSpec => []NoForwardLeft
<1>1. TunnelInv => NoForwardLeft  BY DEF TunnelInv, NoForwardLeft, Ended
<1>2. QED  BY <1>1, TunnelInitInv, TunnelNextInv, PTL DEF TunnelSpec

\* Type correctness: proc refers to a forward whenever the loop waits for it.
THEOREM TunnelTypeCorrect == TunnelSpec => []TunnelTypeOK
<1>1. TunnelInv => TunnelTypeOK  BY DEF TunnelInv
<1>2. QED  BY <1>1, TunnelInitInv, TunnelNextInv, PTL DEF TunnelSpec
=============================================================================
