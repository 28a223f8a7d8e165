--------------------------- MODULE MCSysinfoProc ---------------------------
(***************************************************************************)
(* SysinfoProc for TLC.  The word is short, and long enough for 1000 times *)
(* the ticks of the instance: what wraps is only what wraps on 64 bits.    *)
(***************************************************************************)
EXTENDS SysinfoProc, TLC

CONSTANTS daemon, other

MCReader == {daemon, other}
MCWord == 16384
Symmetry == Permutations(MCReader)
=============================================================================
