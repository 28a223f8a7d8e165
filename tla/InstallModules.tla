--------------------------- MODULE InstallModules ---------------------------
(***************************************************************************)
(* src/bash/install_modules.sh, which main runs and waits for before it    *)
(* starts anything else (src/Daemon/main.go:271-293): it builds the kernel *)
(* modules and reloads them one after the other.  The shell is under       *)
(* set -e and pipefail, and writes into a pipe that only the daemon reads: *)
(* the first echo after the daemon has ended is its last.                  *)
(*                                                                         *)
(* A part of DaemonLifecycle, which has the steps of the daemon.           *)
(***************************************************************************)
EXTENDS Integers

CONSTANT NumModules     \* the length of MODULES

ASSUME NumModulesAssumption == NumModules \in Nat

Modules == 1..NumModules

VARIABLES
    daemon,     \* "up", or how the process ended
    installer,  \* the shell: "none", where it is, or how it ended: "done", "failed"
    n,          \* the loop variable: MODULES[n]
    built,      \* the modules that have a .ko file
    kmod        \* what the kernel has of each: "absent", "old", or "new", of this
                \* build; "gone" is absent too, because the shell has unloaded it

installVars == <<installer, n, built, kmod>>

InstallInit ==
    /\ installer = "none" /\ n = 1 /\ built = {}
    /\ kmod \in [Modules -> {"absent", "old"}]

Loaded(m) == kmod[m] \in {"old", "new"}

\* The shell goes on, if its echo finds a reader.
Goes(to) == IF daemon = "up" THEN to ELSE "failed"

\* apt-get and make; what make leaves behind depends on the Makefile.
Prepare ==
    /\ installer = "prepare"
    /\ built' \in SUBSET Modules
    /\ installer' = Goes("next")
    /\ UNCHANGED <<n, kmod>>

\* A directory or Makefile is missing, a package cannot be had, make fails.
PrepareFails ==
    /\ installer = "prepare"
    /\ installer' = "failed"
    /\ UNCHANGED <<n, built, kmod>>

Skip ==
    /\ installer = "next" /\ n \in Modules \ built
    /\ installer' = Goes("next") /\ n' = n + 1
    /\ UNCHANGED <<built, kmod>>

\* lsmod | grep -q.  grep ends at the line it looks for, and may end lsmod with it
\* (SIGPIPE): under pipefail a module that is there is then taken for absent.
Find ==
    /\ installer = "next" /\ n \in built
    /\ \/ Loaded(n) /\ installer' = Goes("unload")
       \/ installer' = "load"
    /\ UNCHANGED <<n, built, kmod>>

\* modprobe -r || rmmod || true, and a second of sleep: refused while the file in
\* /proc is open.
Unload ==
    /\ installer = "unload"
    /\ kmod' \in {kmod, [kmod EXCEPT ![n] = "gone"]}
    /\ installer' = "load"
    /\ UNCHANGED <<n, built>>

\* echo, and then insmod.
Load ==
    /\ installer = "load"
    /\ installer' = Goes("insmod")
    /\ UNCHANGED <<n, built, kmod>>

Insmod ==
    /\ installer = "insmod" /\ ~Loaded(n)
    /\ kmod' = [kmod EXCEPT ![n] = "new"]
    /\ installer' = "verify"
    /\ UNCHANGED <<n, built>>

\* Slip: an error of insmod does not end the script.
InsmodFailsGoingOn ==
    /\ installer = "insmod"
    /\ installer' = "verify"
    /\ UNCHANGED <<n, built, kmod>>

\* The kernel refuses the module, always if it has it already: set -e.
InsmodFails ==
    /\ installer = "insmod"
    /\ installer' = "failed"
    /\ UNCHANGED <<n, built, kmod>>

\* What is missing in lsmod or in /proc is only printed, with the end of dmesg.
Verify ==
    /\ installer = "verify"
    /\ installer' = Goes("next") /\ n' = n + 1
    /\ UNCHANGED <<built, kmod>>

\* dmesg fails: set -e, again.
VerifyFails ==
    /\ installer = "verify"
    /\ installer' = "failed"
    /\ UNCHANGED <<n, built, kmod>>

Finish ==
    /\ installer = "next" /\ n > NumModules
    /\ installer' = Goes("done")
    /\ UNCHANGED <<n, built, kmod>>

Install ==
    \/ Prepare \/ PrepareFails \/ Skip \/ Find \/ Unload \/ Load
    \/ Insmod \/ InsmodFails \/ Verify \/ VerifyFails \/ Finish

\* Ctrl+C ends the shell; the command it was waiting for may still do its work.
InstallInterrupted ==
    /\ installer \notin {"none", "done", "failed"}
    /\ installer' = "failed"
    /\ \/ UNCHANGED kmod
       \/ installer = "unload" /\ kmod' = [kmod EXCEPT ![n] = "gone"]
       \/ installer = "insmod" /\ ~Loaded(n) /\ kmod' = [kmod EXCEPT ![n] = "new"]
    /\ UNCHANGED <<n, built>>

-----------------------------------------------------------------------------
(* Properties.                                                             *)

InstallTypeOK ==
    /\ installer \in {"none", "prepare", "next", "unload", "load", "insmod", "verify",
                      "done", "failed"}
    /\ n \in 1..(NumModules + 1) /\ built \subseteq Modules
    /\ kmod \in [Modules -> {"absent", "old", "new", "gone"}]

\* However the installation ends, of the modules there were when it began one at most
\* is missing: each is loaded again before the next is unloaded, and the shell ends
\* at the first that is not (install_modules.sh:43-79).
AtMostOneUnloaded ==
    \A a, b \in Modules : kmod[a] = "gone" /\ kmod[b] = "gone" => a = b

\* "Módulos instalados y cargados correctamente." (install_modules.sh:83): every module
\* that was built is then loaded, and it is the one of this build: none is left of the
\* build before because it could not be unloaded.
SuccessMeansReloaded == installer = "done" => \A m \in built : kmod[m] = "new"

=============================================================================
