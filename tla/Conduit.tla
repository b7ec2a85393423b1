------------------------------ MODULE Conduit -------------------------------
(***************************************************************************)
(* What the stdout redirect promises to whoever prints, without locks,     *)
(* pipes, buffers or goroutines.  Printed lines are taken cell by cell, a  *)
(* line at a time; what was taken is delivered in the order it was taken;  *)
(* a failed delivery is the last one; and the end comes only when all that *)
(* was taken has been delivered or a delivery has failed, after which      *)
(* nothing is taken or delivered any more.                                 *)
(***************************************************************************)
EXTENDS Integers, Sequences

CONSTANTS Source,  \* those that print
          Length   \* cells in a line

VARIABLES taken,      \* the cells <<source, place in the line>> taken, in order
          delivered,  \* the cells that have arrived
          broken,     \* a delivery has failed
          ended       \* the conduit was taken down

conduitVars == <<taken, delivered, broken, ended>>

\* The n-th cell of a line of s continues the line that is being taken, or
\* begins one after a line that is complete.
Continues(s, n) ==
  IF taken = <<>> \/ taken[Len(taken)][2] = Length
    THEN n = 1
    ELSE taken[Len(taken)] = <<s, n - 1>>

Take ==
  /\ ~ended
  /\ \E s \in Source, n \in 1..Length :
       Continues(s, n) /\ taken' = Append(taken, <<s, n>>)
  /\ UNCHANGED <<delivered, broken, ended>>

Deliver ==
  /\ ~ended /\ ~broken
  /\ \E n \in (Len(delivered) + 1)..Len(taken) : delivered' = SubSeq(taken, 1, n)
  /\ UNCHANGED <<taken, broken, ended>>

Break ==
  /\ ~ended /\ ~broken
  /\ \E n \in Len(delivered)..(Len(taken) - 1) : delivered' = SubSeq(taken, 1, n)
  /\ broken' = TRUE
  /\ UNCHANGED <<taken, ended>>

Finish ==
  /\ ~ended
  /\ broken \/ delivered = taken
  /\ ended' = TRUE
  /\ UNCHANGED <<taken, delivered, broken>>

ConduitInit == taken = <<>> /\ delivered = <<>> /\ ~broken /\ ~ended

ConduitNext == Take \/ Deliver \/ Break \/ Finish

ConduitSpec == ConduitInit /\ [][ConduitNext]_conduitVars
=============================================================================
