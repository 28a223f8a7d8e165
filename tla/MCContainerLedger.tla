-------------------------- MODULE MCContainerLedger --------------------------
(***************************************************************************)
(* ContainerLedger for TLC.  Two ids tell the snapshot's containers from   *)
(* the others; no symmetry is declared, because liveness is checked.       *)
(***************************************************************************)
EXTENDS ContainerLedger

CONSTANTS c1, c2

MCCid == {c1, c2}
MCTime == {1, 2}
=============================================================================
