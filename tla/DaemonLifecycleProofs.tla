------------------------ MODULE DaemonLifecycleProofs ------------------------
(***************************************************************************)
(* Theorems about DaemonLifecycle and its InstallModules, for any number   *)
(* of modules, containers and signals.                                     *)
(***************************************************************************)
EXTENDS DaemonLifecycle, FiniteSetTheorems, TLAPS

\* What the loop of the installer has done before MODULES[n], and to it.
InstallInv ==
    /\ installer \in {"none", "prepare"} => n = 1
    /\ installer \in {"unload", "load", "insmod", "verify"} => n \in built
    /\ installer = "verify" => kmod[n] = "new"
    /\ installer = "done" => n > NumModules
    /\ installer \in {"next", "unload", "load", "insmod", "verify", "done"} =>
          \A m \in built : m < n => kmod[m] = "new"
    /\ \A m \in Modules :
          kmod[m] = "gone" => m = n /\ installer \in {"load", "insmod", "failed"}

\* The shell and its docker run; a shell that is dead, or was never there, is not started
\* once main has gone on.
ScriptInv ==
    /\ script \in {"none", "echo", "fork"} => ~child
    /\ main \in {"boot", "modules", "install", "assigned"} => script = "none" /\ waiter = "none"
    /\ main \in {"db", "loop"} =>
          /\ stressCmd # "set"
          /\ stressCmd = "nil" => script \in {"none", "dead"}
    /\ waiter = "logging" => script = "dead"
    /\ handler = "kill" \/ stressCmd = "started" => main \in {"db", "loop"}

\* A container started too late is the last one.
LateInv ==
    /\ daemon = "up" => late = 0
    /\ late = 0 \/ (late = 1 /\ ~child /\ script # "fork")

Single(S) == \A a, b \in S : a = b

\* A stop that found the script started has killed it before it lists: what is not listed
\* is at most the container of the docker run that was under way.
StopInv ==
    /\ daemon = "exit0" => handler = "exit"
    /\ armed => main \in {"db", "loop"}
    /\ armed /\ handler \in {"list", "stop", "exit"} => script \in {"none", "dead"}
    /\ armed /\ (handler = "stop" \/ (handler = "exit" /\ cleanup = "ok")) =>
          /\ Single(up \ listed)
          /\ child => up \subseteq listed
    /\ handler # "stop" => listed = {}
    /\ cleanup # "none" => handler = "exit"

\* The installation is started once.
BootInv == main \in {"boot", "modules"} => installer = "none"

IInv == TypeOK /\ InstallInv /\ BootInv /\ ScriptInv /\ LateInv /\ StopInv

-----------------------------------------------------------------------------
(* The installation.                                                       *)

\* The steps of the shell, Ctrl+C included.
LEMMA InstallStep ==
    ASSUME InstallTypeOK, InstallInv, Install \/ InstallInterrupted
    PROVE  InstallTypeOK' /\ InstallInv'
<1> USE NumModulesAssumption DEF Modules
<1>1. /\ n \in Nat /\ built \subseteq Modules
      /\ kmod \in [Modules -> {"absent", "old", "new", "gone"}]
  BY DEF InstallTypeOK
<1>2. \A s \in {"next", "unload", "load", "insmod", "done"} : Goes(s) \in {s, "failed"}
  BY DEF Goes
<1>3. CASE Prepare \/ PrepareFails
  <2>1. /\ installer = "prepare" /\ UNCHANGED <<n, kmod>> /\ built' \subseteq Modules
        /\ installer' \in {"next", "failed"}
    BY <1>1, <1>2, <1>3 DEF Prepare, PrepareFails
  <2>2. \A m \in built' : ~(m < n)
    BY <2>1 DEF InstallInv
  <2>3. QED
    BY <1>1, <2>1, <2>2 DEF InstallTypeOK, InstallInv
<1>4. CASE Skip
  BY <1>1, <1>2, <1>4 DEF Skip, InstallTypeOK, InstallInv
<1>5. CASE Find
  <2>1. /\ installer = "next" /\ n \in built /\ UNCHANGED <<n, built, kmod>>
        /\ installer' \in {"unload", "load", "failed"}
    BY <1>2, <1>5 DEF Find
  <2>2. QED
    BY <1>1, <2>1 DEF InstallTypeOK, InstallInv
<1>6. CASE Unload
  BY <1>1, <1>6 DEF Unload, InstallTypeOK, InstallInv
<1>7. CASE Load
  BY <1>1, <1>2, <1>7 DEF Load, InstallTypeOK, InstallInv
<1>8. CASE Insmod
  BY <1>1, <1>8 DEF Insmod, InstallTypeOK, InstallInv
<1>9. CASE InsmodFails \/ VerifyFails
  BY <1>1, <1>9 DEF InsmodFails, VerifyFails, InstallTypeOK, InstallInv
<1>10. CASE Verify
  BY <1>1, <1>2, <1>10 DEF Verify, InstallTypeOK, InstallInv
<1>11. CASE Finish
  BY <1>1, <1>2, <1>11 DEF Finish, InstallTypeOK, InstallInv
<1>12. CASE InstallInterrupted
  BY <1>1, <1>12 DEF InstallInterrupted, InstallTypeOK, InstallInv
<1>13. QED
  BY <1>3, <1>4, <1>5, <1>6, <1>7, <1>8, <1>9, <1>10, <1>11, <1>12 DEF Install

\* And all the others leave it alone.
LEMMA InstallKept ==
    ASSUME InstallTypeOK, InstallInv, UNCHANGED installVars
    PROVE  InstallTypeOK' /\ InstallInv'
  BY DEF installVars, InstallTypeOK, InstallInv

-----------------------------------------------------------------------------
(* Everything else.                                                        *)

LEMMA SmallSingle ==
    ASSUME NEW S, Single(S)
    PROVE  IsFiniteSet(S) /\ Cardinality(S) <= 1
<1>1. CASE S = {}
  BY <1>1, FS_EmptySet
<1>2. CASE S # {}
  <2>1. PICK x \in S : TRUE
    BY <1>2
  <2>2. S = {x}
    BY <2>1 DEF Single
  <2>3. IsFiniteSet({x}) /\ Cardinality({x}) = 1
    BY FS_Singleton
  <2>4. QED
    BY <2>2, <2>3
<1>3. QED
  BY <1>1, <1>2

Rest == TypeOK /\ ScriptInv /\ LateInv /\ StopInv

\* The steps of the daemon's goroutines.
LEMMA MainStep ==
    ASSUME Rest, InstallTypeOK', StartInstaller \/ Main
    PROVE  Rest'
<1> USE DEF Rest, TypeOK, ScriptInv, LateInv, StopInv, world, Single
<1>1. CASE StartInstaller
  BY <1>1 DEF StartInstaller
<1>2. CASE StartGrafana
  BY <1>2 DEF StartGrafana
<1>3. CASE AssignCmd
  BY <1>3 DEF AssignCmd
<1>4. CASE StartScript
  BY <1>4 DEF StartScript
<1>5. CASE StartFails
  BY <1>5 DEF StartFails
<1>6. CASE OpenDB
  BY <1>6 DEF OpenDB
<1>7. CASE OpenDBFails
  BY <1>7 DEF OpenDBFails
<1>8. QED
  BY <1>1, <1>2, <1>3, <1>4, <1>5, <1>6, <1>7 DEF Main

LEMMA WaiterStep ==
    ASSUME Rest, InstallTypeOK', Waiter
    PROVE  Rest'
<1> USE DEF Rest, TypeOK, ScriptInv, LateInv, StopInv, world, Single
<1>1. CASE WaitReturns
  BY <1>1 DEF WaitReturns
<1>2. CASE ClearCmd
  BY <1>2 DEF ClearCmd
<1>3. QED
  BY <1>1, <1>2 DEF Waiter

LEMMA HandlerStep ==
    ASSUME Rest, InstallTypeOK', Handler
    PROVE  Rest'
<1> USE DEF Rest, TypeOK, ScriptInv, LateInv, StopInv, world, Single
<1>1. CASE ReceiveSignal
  BY <1>1 DEF ReceiveSignal
<1>2. CASE CheckCmd
  BY <1>2 DEF CheckCmd
<1>3. CASE KillScript
  BY <1>3 DEF KillScript
<1>4. CASE ListAll
  BY <1>4 DEF ListAll
<1>5. CASE StopAll
  BY <1>5 DEF StopAll
<1>6. CASE CleanupFails
  BY <1>6 DEF CleanupFails
<1>7. CASE Exit
  BY <1>7 DEF Exit
<1>8. CASE CheckProcess
  BY <1>8 DEF CheckProcess
<1>9. QED
  BY <1>1, <1>2, <1>3, <1>4, <1>5, <1>6, <1>7, <1>8 DEF Handler

\* The steps of the generator, and of what is around it.
LEMMA WorldStep ==
    ASSUME Rest, InstallTypeOK', Generator \/ Environment
    PROVE  Rest'
<1> USE DEF Rest, TypeOK, ScriptInv, LateInv, StopInv, world, goVars, Single
<1>1. CASE Echo
  BY <1>1 DEF Echo
<1>2. CASE ForkRun
  BY <1>2 DEF ForkRun
<1>3. ASSUME NEW c \in Container, RunEnds(c)
      PROVE  Rest'
  <2>1. /\ child /\ script \in {"wait", "dead"} /\ late = 0
        /\ main \notin {"boot", "modules", "install", "assigned"}
    BY <1>3 DEF RunEnds
  <2>2. /\ child' = FALSE /\ up' = up \cup {c} /\ script' \in {"echo", "dead"}
        /\ script = "dead" => script' = "dead"
        /\ late' \in {0, 1} /\ (daemon = "up" => late' = 0)
        /\ UNCHANGED <<goVars, signals>>
    BY <1>3, <2>1 DEF RunEnds
  <2> child' \in BOOLEAN
    BY <2>2, Zenon
  <2>3. TypeOK'
    BY <2>2
  <2>4. ScriptInv'
    BY <2>1, <2>2
  <2>5. LateInv'
    BY <2>1, <2>2
  <2>6. StopInv'
    BY <1>3, <2>1, <2>2
  <2>7. QED
    BY <2>3, <2>4, <2>5, <2>6
<1>4. CASE RunFails
  <2>1. /\ child /\ script \in {"wait", "dead"} /\ late = 0
        /\ main \notin {"boot", "modules", "install", "assigned"}
    BY <1>4 DEF RunFails
  <2>2. /\ child' = FALSE /\ child' \in BOOLEAN /\ script' = "dead" /\ UNCHANGED <<goVars, up, late, signals>>
    BY <1>4 DEF RunFails
  <2>3. TypeOK'
    BY <2>2
  <2>4. ScriptInv'
    BY <2>1, <2>2
  <2>5. LateInv' /\ StopInv'
    BY <2>1, <2>2
  <2>6. QED
    BY <2>3, <2>4, <2>5
<1>5. CASE Terminate
  BY <1>5, LifecycleAssumption DEF Terminate
<1>6. CASE Killed
  BY <1>6, LifecycleAssumption DEF Killed
<1>7. CASE Interrupt
  <2>1. /\ UNCHANGED <<daemon, main, stressCmd, waiter, armed, up, late>>
        /\ sigChan' = TRUE /\ signals' \in 0..MaxSignals
    BY <1>7, LifecycleAssumption DEF Interrupt
  <2>2. /\ script' = script \/ (script # "none" /\ script' = "dead")
        /\ child' = child \/ (child' = FALSE /\ script' = "dead")
        /\ child' \in BOOLEAN
    BY <1>7 DEF Interrupt
  <2>3. \/ UNCHANGED <<handler, cleanup, listed>>
        \/ /\ handler \in {"list", "stop"}
           /\ handler' = "exit" /\ cleanup' = "error" /\ listed' = {}
    BY <1>7 DEF Interrupt
  <2>4. TypeOK'
    BY <2>1, <2>2, <2>3
  <2>5. ScriptInv'
    BY <2>1, <2>2, <2>3
  <2>6. LateInv' /\ StopInv'
    BY <2>1, <2>2, <2>3
  <2>7. QED
    BY <2>4, <2>5, <2>6
<1>8. ASSUME NEW c \in Container, ContainerEnds(c)
      PROVE  Rest'
  BY <1>8 DEF ContainerEnds
<1>9. QED
  BY <1>1, <1>2, <1>3, <1>4, <1>5, <1>6, <1>7, <1>8 DEF Generator, Environment

-----------------------------------------------------------------------------
(* The theorems.                                                           *)

LEMMA Inductive == Spec => []IInv
<1>1. Init => IInv
  <2> SUFFICES ASSUME Init PROVE IInv
    OBVIOUS
  <2>1. InstallTypeOK /\ InstallInv
    BY NumModulesAssumption DEF Init, InstallInit, InstallTypeOK, InstallInv, Modules
  <2>2. sigChan \in BOOLEAN /\ child \in BOOLEAN /\ armed \in BOOLEAN
    BY Zenon DEF Init
  <2>3. TypeOK
    BY <2>1, <2>2, LifecycleAssumption DEF Init, TypeOK
  <2>4. ScriptInv /\ LateInv /\ StopInv /\ BootInv
    BY DEF Init, InstallInit, ScriptInv, LateInv, StopInv, BootInv
  <2>5. QED
    BY <2>1, <2>3, <2>4 DEF IInv
<1>2. IInv /\ [Next]_vars => IInv'
  <2> SUFFICES ASSUME IInv, [Next]_vars PROVE IInv'
    OBVIOUS
  <2>1. Rest /\ InstallTypeOK /\ InstallInv
    BY DEF IInv, Rest, TypeOK
  <2>2. CASE Installer
    <3>1. InstallTypeOK' /\ InstallInv'
      BY <2>1, <2>2, InstallStep DEF Installer
    <3>2. UNCHANGED <<goVars, world, signals>>
      BY <2>2 DEF Installer
    <3>3. Rest'
      BY <2>1, <3>1, <3>2
         DEF Rest, TypeOK, ScriptInv, LateInv, StopInv, Single, goVars, world
    <3>4. installer # "none"
      BY <2>2 DEF Installer, Install, Prepare, PrepareFails, Skip, Find, Unload, Load,
                  Insmod, InsmodFails, Verify, VerifyFails, Finish
    <3>5. QED
      BY <3>1, <3>2, <3>3, <3>4 DEF IInv, Rest, BootInv, goVars
  <2>3. CASE StartInstaller
    <3>1. /\ installer = "none" /\ installer' \in {"prepare", "failed"}
          /\ UNCHANGED <<n, built, kmod>> /\ main' = "install"
      BY <2>3 DEF StartInstaller, IInv, BootInv
    <3>2. InstallTypeOK' /\ InstallInv'
      BY <2>1, <3>1 DEF InstallTypeOK, InstallInv, Modules
    <3>3. QED
      BY <2>1, <2>3, <3>1, <3>2, MainStep DEF IInv, Rest, BootInv
  <2>4. CASE Main \/ Waiter \/ Handler \/ Generator
    <3>1. UNCHANGED installVars
      BY <2>4 DEF Main, Waiter, Handler, Generator
    <3>2. InstallTypeOK' /\ InstallInv'
      BY <2>1, <3>1, InstallKept
    <3>3. Rest'
      BY <2>1, <2>4, <3>2, MainStep, WaiterStep, HandlerStep, WorldStep
    <3>4. main' \in {"boot", "modules"} => main \in {"boot", "modules"}
      BY <2>4, Zenon
         DEF Main, StartGrafana, AssignCmd, StartScript, StartFails, OpenDB, OpenDBFails,
             Waiter, WaitReturns, ClearCmd, Handler, ReceiveSignal, CheckCmd, CheckProcess, KillScript,
             ListAll, StopAll, CleanupFails, Exit, Generator, Echo, ForkRun, RunFails,
             RunEnds, goVars
    <3>5. QED
      BY <3>1, <3>2, <3>3, <3>4 DEF IInv, Rest, BootInv, installVars
  <2>5. CASE Environment
    <3>1. InstallInterrupted \/ UNCHANGED installVars
      BY <2>5 DEF Environment
    <3>2. InstallTypeOK' /\ InstallInv'
      BY <2>1, <3>1, InstallKept, InstallStep
    <3>3. Rest'
      BY <2>1, <2>5, <3>2, WorldStep
    <3>4. main' = main /\ (installer = "none" => installer' = "none")
      BY <2>5, <3>1, Zenon
         DEF Environment, Interrupt, Terminate, Killed, ContainerEnds, goVars,
             InstallInterrupted, installVars
    <3>5. QED
      BY <3>2, <3>3, <3>4 DEF IInv, Rest, BootInv
  <2>6. CASE UNCHANGED vars
    <3>1. InstallTypeOK' /\ InstallInv'
      BY <2>1, <2>6, InstallKept DEF vars
    <3>2. Rest'
      BY <2>1, <2>6, <3>1
         DEF Rest, TypeOK, ScriptInv, LateInv, StopInv, Single, vars, goVars, world
    <3>3. QED
      BY <2>6, <3>1, <3>2 DEF IInv, Rest, BootInv, vars, goVars, installVars
  <2>7. QED
    BY <2>2, <2>3, <2>4, <2>5, <2>6 DEF Next
<1>3. QED
  BY <1>1, <1>2, PTL DEF Spec

\* The types of the daemon, its scripts and the kernel's modules.
THEOREM TypeCorrect == Spec => []TypeOK
  BY Inductive, PTL DEF IInv

\* However the daemon ends, one more container is started at most.
THEOREM OneLateAtMost == Spec => []AtMostOneLate
<1>1. IInv => AtMostOneLate
  BY DEF IInv, LateInv, AtMostOneLate
<1>2. QED
  BY <1>1, Inductive, PTL

\* A stop whose clean-up succeeds leaves one container at most (src/Daemon/main.go:72-85).
THEOREM OrderlyStopsLeaveOne == Spec => []OrderlyStopLeavesOne
<1>1. IInv => OrderlyStopLeavesOne
  <2> SUFFICES ASSUME IInv, daemon = "exit0", armed, cleanup = "ok"
               PROVE  Cardinality(up) <= 1
    BY DEF OrderlyStopLeavesOne
  <2>1. Single(up \ listed) /\ listed = {}
    BY DEF IInv, StopInv
  <2>2. Single(up)
    BY <2>1 DEF Single
  <2>3. QED
    BY <2>2, SmallSingle
<1>2. QED
  BY <1>1, Inductive, PTL

\* For any number of modules, the installation leaves at most one out that was loaded.
THEOREM OneUnloadedAtMost == Spec => []AtMostOneUnloaded
<1>1. IInv => AtMostOneUnloaded
  BY DEF IInv, InstallInv, AtMostOneUnloaded
<1>2. QED
  BY <1>1, Inductive, PTL

\* And when its last line is printed, every module that was built is the one loaded.
THEOREM SuccessReloadsAll == Spec => []SuccessMeansReloaded
<1>1. IInv => SuccessMeansReloaded
  BY NumModulesAssumption
     DEF IInv, TypeOK, InstallTypeOK, InstallInv, SuccessMeansReloaded, Modules
<1>2. QED
  BY <1>1, Inductive, PTL

=============================================================================
