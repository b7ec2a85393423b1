------------------------- MODULE MCHindsightBuffer -------------------------
(***************************************************************************)
(* Two bridges over one buffer, three facts, two banks: one fact buffered, *)
(* one that flushes it, and one that meets the flush.                      *)
(***************************************************************************)
EXTENDS HindsightBuffer
=============================================================================
