--------------------------- MODULE MCMonitorCycle ---------------------------
(***************************************************************************)
(* MonitorCycle for TLC: a docker command of the generator, and a process  *)
(* of a container, whose command line does not mention docker.             *)
(***************************************************************************)
EXTENDS MonitorCycle, TLC

CONSTANTS p1, p2, client, worker

MCPid == {p1, p2}
MCProgram == {client, worker}
MCDocker == {client}
MCStress == {client, worker}

\* Of the machine a half of the turn sees only what its own reads find, and nothing
\* relates the snapshots of the two halves: what happens between other calls is, for
\* each of them, as if it happened before the turn.
MachineBeforeTurn == machine' # machine => pc = "sysinfo"

Symmetry == Permutations(MCPid)
=============================================================================
