-------------------------- MODULE DaemonLifecycle --------------------------
(***************************************************************************)
(* Start and end of the daemon, src/Daemon/main.go: the main goroutine,    *)
(* the goroutine that handles SIGINT and SIGTERM, the one that waits for   *)
(* stress_container.sh, that script with its docker run, detener.sh, and   *)
(* the installation of the kernel modules (InstallModules).                *)
(* The goroutines share stressCmd without a lock; the processes share      *)
(* docker, a terminal and the pipe the daemon reads the script's output    *)
(* from.                                                                   *)
(***************************************************************************)
EXTENDS InstallModules, FiniteSets

CONSTANTS
    Container,      \* ids of stress containers, to be used again once gone
    MaxSignals,     \* bound: signals sent
    DockerErrors    \* may docker fail?

ASSUME LifecycleAssumption ==
    /\ IsFiniteSet(Container) /\ MaxSignals \in Nat /\ DockerErrors \in BOOLEAN

VARIABLES
    main,       \* the main goroutine: "boot", "modules", "install", "assigned", "db", "loop"
    stressCmd,  \* "nil", "set" (its Process is nil), "started"
    waiter,     \* the goroutine of RunStressContainerScript
    sigChan,    \* a signal waits in the channel
    handler,    \* the signal goroutine: "wait", "check", "process", "kill", "list", "stop", "exit"
    listed,     \* what detener.sh is stopping
    script,     \* stress_container.sh: "none", "echo", "fork", "wait", "dead"
    child,      \* its docker run is under way, with or without it
    up,         \* the stress containers that run
    signals,
    \* history
    armed,      \* the script had been started when the handler looked for it
    cleanup,    \* how detener.sh ended: "none", "ok", "error"
    late        \* containers started after the daemon ended; 2 stands for more

goVars == <<daemon, main, stressCmd, waiter, sigChan, handler, listed, armed, cleanup>>
world  == <<script, child, up, late>>
vars   == <<goVars, world, signals, installVars>>

Init ==
    /\ daemon = "up" /\ main = "boot" /\ stressCmd = "nil" /\ waiter = "none"
    /\ sigChan = FALSE /\ handler = "wait" /\ listed = {}
    /\ script = "none" /\ child = FALSE /\ up = {} /\ signals = 0
    /\ armed = FALSE /\ cleanup = "none" /\ late = 0
    /\ InstallInit

-----------------------------------------------------------------------------
(* The main goroutine.                                                     *)

\* Grafana runs, or is started, or cannot be: main goes on.  detener.sh leaves it alone.
StartGrafana ==
    /\ daemon = "up" /\ main = "boot"
    /\ main' = "modules"
    /\ UNCHANGED <<daemon, stressCmd, waiter, sigChan, handler, listed, armed, cleanup,
                   world, signals>>

\* RunInstallModules starts its script, or cannot.
StartInstaller ==
    /\ daemon = "up" /\ main = "modules"
    /\ main' = "install" /\ installer' \in {"prepare", "failed"}
    /\ UNCHANGED <<daemon, stressCmd, waiter, sigChan, handler, listed, armed, cleanup,
                   world, signals, n, built, kmod>>

\* The installation has ended, in whatever way; then stressCmd = exec.Command(...):
\* not nil, and not a process yet.
AssignCmd ==
    /\ daemon = "up" /\ main = "install" /\ installer \in {"done", "failed"}
    /\ main' = "assigned" /\ stressCmd' = "set"
    /\ UNCHANGED <<daemon, waiter, sigChan, handler, listed, armed, cleanup, world, signals>>

StartScript ==
    /\ daemon = "up" /\ main = "assigned"
    /\ main' = "db" /\ stressCmd' = "started" /\ waiter' = "waiting" /\ script' = "echo"
    /\ UNCHANGED <<daemon, sigChan, handler, listed, armed, cleanup, child, up, late, signals>>

StartFails ==
    /\ daemon = "up" /\ main = "assigned"
    /\ main' = "db" /\ stressCmd' = "nil"
    /\ UNCHANGED <<daemon, waiter, sigChan, handler, listed, armed, cleanup, world, signals>>

OpenDB ==
    /\ daemon = "up" /\ main = "db"
    /\ main' = "loop"
    /\ UNCHANGED <<daemon, stressCmd, waiter, sigChan, handler, listed, armed, cleanup,
                   world, signals>>

\* The database or a table cannot be had: main returns, and the process ends.
OpenDBFails ==
    /\ daemon = "up" /\ main = "db"
    /\ daemon' = "returned"
    /\ UNCHANGED <<main, stressCmd, waiter, sigChan, handler, listed, armed, cleanup,
                   world, signals>>

-----------------------------------------------------------------------------
(* The goroutine that waits for the script.                                *)

\* Wait returns once the script is dead and nobody holds its output pipe.
WaitReturns ==
    /\ daemon = "up" /\ waiter = "waiting" /\ script = "dead" /\ ~child
    /\ waiter' = "logging"
    /\ UNCHANGED <<daemon, main, stressCmd, sigChan, handler, listed, armed, cleanup,
                   world, signals>>

ClearCmd ==
    /\ daemon = "up" /\ waiter = "logging"
    /\ waiter' = "done" /\ stressCmd' = "nil"
    /\ UNCHANGED <<daemon, main, sigChan, handler, listed, armed, cleanup, world, signals>>

-----------------------------------------------------------------------------
(* The signal goroutine.                                                   *)

ReceiveSignal ==
    /\ daemon = "up" /\ handler = "wait" /\ sigChan
    /\ sigChan' = FALSE /\ handler' = "check"
    /\ UNCHANGED <<daemon, main, stressCmd, waiter, listed, armed, cleanup, world, signals>>

\* Slip: the script is not killed before the containers are stopped.
CheckCmdNotKilling ==
    /\ daemon = "up" /\ handler = "check"
    /\ handler' = "list"
    /\ armed' = (main \in {"db", "loop"})
    /\ UNCHANGED <<daemon, main, stressCmd, waiter, sigChan, listed, cleanup, world, signals>>

\* if stressCmd != nil
CheckCmd ==
    /\ daemon = "up" /\ handler = "check"
    /\ handler' = IF stressCmd = "nil" THEN "list" ELSE "process"
    /\ armed' = (main \in {"db", "loop"})
    /\ UNCHANGED <<daemon, main, stressCmd, waiter, sigChan, listed, cleanup, world, signals>>

\* && stressCmd.Process != nil, which reads the variable again.
CheckProcess ==
    /\ daemon = "up" /\ handler = "process"
    /\ IF stressCmd = "nil"
       THEN daemon' = "panic" /\ UNCHANGED handler
       ELSE handler' = (IF stressCmd = "started" THEN "kill" ELSE "list") /\ UNCHANGED daemon
    /\ UNCHANGED <<main, stressCmd, waiter, sigChan, listed, armed, cleanup, world, signals>>

\* Slip: an error of Kill, for a script that is dead already, ends the goroutine.
KillScriptOrReturn ==
    /\ daemon = "up" /\ handler = "kill"
    /\ handler' = IF script = "dead" THEN "returned" ELSE "list"
    /\ script' = "dead"
    /\ UNCHANGED <<daemon, main, stressCmd, waiter, sigChan, listed, armed, cleanup, child,
                   up, late, signals>>

\* stressCmd.Process.Kill(), on the variable as it is by now.  SIGKILL takes the
\* shell only: the docker run it is waiting for goes on.
KillScript ==
    /\ daemon = "up" /\ handler = "kill"
    /\ IF stressCmd = "nil"
       THEN daemon' = "panic" /\ UNCHANGED <<handler, script>>
       ELSE handler' = "list" /\ script' = "dead" /\ UNCHANGED daemon
    /\ UNCHANGED <<main, stressCmd, waiter, sigChan, listed, armed, cleanup, child, up, late,
                   signals>>

\* detener.sh: docker ps -q; nothing to stop is a success.
ListAll ==
    /\ daemon = "up" /\ handler = "list"
    /\ listed' = up
    /\ IF up = {} THEN handler' = "exit" /\ cleanup' = "ok"
                  ELSE handler' = "stop" /\ UNCHANGED cleanup
    /\ UNCHANGED <<daemon, main, stressCmd, waiter, sigChan, armed, world, signals>>

\* docker stop $CONTAINERS, all of them, and the message that says so.  Of one that
\* has ended meanwhile docker may still know; if not, it fails, as below.
StopAll ==
    /\ daemon = "up" /\ handler = "stop"
    /\ up' = up \ listed /\ listed' = {}
    /\ handler' = "exit" /\ cleanup' = "ok"
    /\ UNCHANGED <<daemon, main, stressCmd, waiter, sigChan, armed, script, child, late, signals>>

\* docker fails in detener.sh: set -e ends it, the error is printed.
CleanupFails ==
    /\ daemon = "up" /\ DockerErrors
    /\ \/ handler = "list" /\ UNCHANGED up
       \/ handler = "stop" /\ \E gone \in SUBSET listed : up' = up \ gone
    /\ listed' = {} /\ handler' = "exit" /\ cleanup' = "error"
    /\ UNCHANGED <<daemon, main, stressCmd, waiter, sigChan, armed, script, child, late, signals>>

\* os.Exit(0): every goroutine ends, whatever it is doing.
Exit ==
    /\ daemon = "up" /\ handler = "exit"
    /\ daemon' = "exit0"
    /\ UNCHANGED <<main, stressCmd, waiter, sigChan, handler, listed, armed, cleanup,
                   world, signals>>

-----------------------------------------------------------------------------
(* stress_container.sh and docker.                                         *)

\* Slip: the output of the script goes to the daemon's own terminal.
EchoToTerminal ==
    /\ script = "echo"
    /\ script' = "fork"
    /\ UNCHANGED <<goVars, child, up, late, signals>>

\* The build of the images and the sleeps change nothing here and are left out.
\* echo before each docker run, into a pipe only the daemon reads: once the
\* daemon has ended, SIGPIPE ends the shell.
Echo ==
    /\ script = "echo"
    /\ script' = IF daemon = "up" THEN "fork" ELSE "dead"
    /\ UNCHANGED <<goVars, child, up, late, signals>>

ForkRun ==
    /\ script = "fork"
    /\ child' = TRUE /\ script' = "wait"
    /\ UNCHANGED <<goVars, up, late, signals>>

\* docker run -d ends; if the shell still waits for it, it goes on.
RunEnds(c) ==
    /\ child /\ c \notin up \cup listed
    /\ child' = FALSE /\ up' = up \cup {c}
    /\ script' = IF script = "wait" THEN "echo" ELSE script
    /\ late' = IF daemon = "up" \/ late = 2 THEN late ELSE late + 1
    /\ UNCHANGED <<goVars, signals>>

\* docker run fails, if only because the name is taken: set -e ends the script.
RunFails ==
    /\ child
    /\ child' = FALSE /\ script' = "dead"
    /\ UNCHANGED <<goVars, up, late, signals>>

\* A container ends by itself, or because enforceRules stops it.
ContainerEnds(c) ==
    /\ c \in up
    /\ up' = up \ {c}
    /\ UNCHANGED <<goVars, script, child, late, signals>>

-----------------------------------------------------------------------------
(* Signals.                                                                *)

\* kill <pid>: the daemon alone is told.  The channel holds one signal.
Terminate ==
    /\ daemon = "up" /\ signals < MaxSignals
    /\ signals' = signals + 1 /\ sigChan' = TRUE
    /\ UNCHANGED <<daemon, main, stressCmd, waiter, handler, listed, armed, cleanup, world>>

\* Ctrl+C: the terminal tells every process of the group.  The shell and its
\* docker run may end of it; detener.sh, when it is running, does.
Interrupt ==
    /\ daemon = "up" /\ signals < MaxSignals
    /\ signals' = signals + 1 /\ sigChan' = TRUE
    /\ \/ UNCHANGED <<script, child>>
       \/ script # "none" /\ script' = "dead" /\ child' \in {child, FALSE}
    /\ IF handler \in {"list", "stop"}
       THEN handler' = "exit" /\ cleanup' = "error" /\ listed' = {}
       ELSE UNCHANGED <<handler, cleanup, listed>>
    /\ UNCHANGED <<daemon, main, stressCmd, waiter, armed, up, late>>

\* SIGKILL, or a hang-up, which the daemon does not ask for: nothing is cleaned up.
Killed ==
    /\ daemon = "up" /\ signals < MaxSignals
    /\ signals' = signals + 1 /\ daemon' = "killed"
    /\ UNCHANGED <<main, stressCmd, waiter, sigChan, handler, listed, armed, cleanup, world>>

Main ==
    /\ StartGrafana \/ AssignCmd \/ StartScript \/ StartFails \/ OpenDB \/ OpenDBFails
    /\ UNCHANGED installVars
Waiter == (WaitReturns \/ ClearCmd) /\ UNCHANGED installVars
Handler ==
    /\ \/ ReceiveSignal \/ CheckCmd \/ CheckProcess \/ KillScript
       \/ ListAll \/ StopAll \/ CleanupFails \/ Exit
    /\ UNCHANGED installVars
Generator ==
    /\ Echo \/ ForkRun \/ RunFails \/ \E c \in Container : RunEnds(c)
    /\ UNCHANGED installVars
Installer == Install /\ UNCHANGED <<goVars, world, signals>>
Environment ==
    \/ Interrupt /\ (InstallInterrupted \/ UNCHANGED installVars)
    \/ (Terminate \/ Killed \/ \E c \in Container : ContainerEnds(c)) /\ UNCHANGED installVars

Next == StartInstaller \/ Installer \/ Main \/ Waiter \/ Handler \/ Generator \/ Environment

Spec == Init /\ [][Next]_vars

(***************************************************************************)
(* The signal goroutine never blocks for ever (docker stop kills after its *)
(* grace), and neither does the script outside docker run, which ends too. *)
(* Nothing is assumed of the signals, of main, of the waiter or of the     *)
(* installation, which asks for a password.                                *)
(***************************************************************************)
FairSpec == Spec /\ WF_vars(Handler) /\ WF_vars(Generator)

-----------------------------------------------------------------------------
(* Properties.                                                             *)

\* The variables have their types.
TypeOK ==
    /\ daemon \in {"up", "returned", "exit0", "panic", "killed"}
    /\ main \in {"boot", "modules", "install", "assigned", "db", "loop"}
    /\ stressCmd \in {"nil", "set", "started"}
    /\ waiter \in {"none", "waiting", "logging", "done"}
    /\ handler \in {"wait", "check", "process", "kill", "list", "stop", "exit"}
    /\ script \in {"none", "echo", "fork", "wait", "dead"}
    /\ cleanup \in {"none", "ok", "error"}
    /\ sigChan \in BOOLEAN /\ child \in BOOLEAN /\ armed \in BOOLEAN
    /\ listed \subseteq Container /\ up \subseteq Container
    /\ signals \in 0..MaxSignals /\ late \in 0..2
    /\ InstallTypeOK

\* However the daemon ends, the generator outlives it by one docker run at most
\* (main.go:72-88, 127-157; stress_container.sh:91-93).
AtMostOneLate == late <= 1

\* A stop asked for once the script has been started, and whose detener.sh
\* succeeds, leaves at most the container of the docker run that was under way:
\* killing the script before listing is what makes it so (main.go:72-85).
OrderlyStopLeavesOne ==
    daemon = "exit0" /\ armed /\ cleanup = "ok" => Cardinality(up) <= 1

\* A signal ends the daemon, at whatever point of its start it comes, and whether
\* or not the script dies at the same time (main.go:68-89).
SignalEndsDaemon == sigChan /\ handler = "wait" ~> daemon # "up"

\* No generator is left behind for ever (main.go:301-303; stress_container.sh:91).
GeneratorEndsWithDaemon == daemon # "up" ~> script \in {"none", "dead"} /\ ~child

\* "Todos los contenedores de stress han sido detenidos correctamente."
\* (detener.sh:20): when that is said, of what line 18 has stopped, by a detener.sh
\* before which the script was killed, no stress container runs.
AllStopped == [][StopAll /\ armed => up' = {}]_vars

\* "if stressCmd != nil" (main.go:72): the command the handler kills is not nil.
KillsACommand == handler = "kill" => stressCmd # "nil"

=============================================================================
