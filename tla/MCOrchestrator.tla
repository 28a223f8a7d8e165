--------------------------- MODULE MCOrchestrator ---------------------------
(***************************************************************************)
(* Orchestrator for TLC: two indexes a round, so that two rounds fit in a  *)
(* few containers, and quotas of one, so that the daemon lets a container  *)
(* of a round survive into the next and stops another.                     *)
(***************************************************************************)
EXTENDS Orchestrator

MCHighCPU == {1, 2, 3}
MCHighRAM == {4}
MCLow == {5}
=============================================================================
