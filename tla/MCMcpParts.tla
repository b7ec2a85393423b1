------------------------------ MODULE MCMcpParts ------------------------------
(***************************************************************************)
(* The two parts of pkg/mcp that the server is built on, each by itself:   *)
(* the store with callers that use every method of its interface, and the  *)
(* redirect of os.Stdout.  They share nothing, so that a behaviour is one  *)
(* of a single part: part says which.                                      *)
(*                                                                         *)
(* Three identifiers for four Stage calls force a displacement by an equal *)
(* identifier, and over a capacity of two they force the excess.  Three    *)
(* stray lines, each longer than the pipe holds, and two frames: a line    *)
(* parks in the middle, two writers wait for the file behind it, and every *)
(* step of Close and of the drain meets each of these.                     *)
(***************************************************************************)
EXTENDS MCStager, StdoutRedirect

VARIABLE part
partVars == <<stagerVars, vars, part>>

PartsInit == StagerInit /\ Init /\ part \in {"store", "redirect"}

PartsNext ==
  /\ part' = part
  /\ \/ part = "store" /\ StagerNext /\ UNCHANGED vars
     \/ part = "redirect" /\ Next /\ UNCHANGED stagerVars

\* A redirect that is not at work has no step that fairness asks for.
PartsSpec == PartsInit /\ [][PartsNext]_partVars /\ Fairness
=============================================================================
