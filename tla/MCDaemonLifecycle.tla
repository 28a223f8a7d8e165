-------------------------- MODULE MCDaemonLifecycle --------------------------
(***************************************************************************)
(* DaemonLifecycle for TLC: three containers, so that two can be left and  *)
(* one started meanwhile; two signals, so that one comes during a stop.    *)
(***************************************************************************)
EXTENDS DaemonLifecycle

MCContainer == {1, 2, 3}
=============================================================================
