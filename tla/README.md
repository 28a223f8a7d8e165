# Verification of the container monitor

The repository is a daemon in Go (`src/Daemon`) that reads two kernel modules
(`src/kernel`), records what it reads in SQLite, starts a script that keeps
creating Docker containers (`src/cronjob/stress_container.sh`), and stops the
containers that exceed its quotas. This directory holds TLA+ models of the parts
that have state and concurrency, TLC configurations that check them on small
instances, and theorems about them checked by TLAPS.

## The system

| Component | Source | State it keeps | Operations | Talks to | Hard part |
|---|---|---|---|---|---|
| Quota controller | `Daemon/clean_cont.go` | nothing between turns; a listing and the counter `toKill` within one | `enforceRules`, `listStressContainers`, `stopContainer`, `runCmd` | docker, by commands with a timeout | the listing goes stale while it is used; stops time out and are asked for again |
| Container generator | `cronjob/stress_container.sh` | the index of the round | build, `create_random_container`, sleeps | docker; the daemon only through docker | `set -e`, and the same names in every round |
| Container ledger | `Daemon/insert_cont.go`, `Daemon/main.go:27-34, 208-229` | tables `containers`, `container_host_metrics` | `UpsertContainersFromSnapshot`, `GetTotalDeletedContainers`, `InsertContainerHostMetrics` | continfo, SQLite | a transaction of many statements; stops in the middle; ids that come back |
| Daemon lifecycle | `Daemon/main.go:61-157, 295-356`, `cronjob/detener.sh` | `stressCmd`, three goroutines, two child scripts | start, signal, wait, kill, clean up, exit | terminal, docker, the script's output pipe | goroutines that share a variable without a lock; processes that outlive each other |
| Monitoring cycle | `Daemon/main.go:169-252`, `Daemon/insert_*.go` | `prevSys`, `prevCont` and their flags | read, insert, percentages | both modules, SQLite | snapshots of different turns are compared; reads and inserts fail |
| CPU percentages | `Daemon/insert_system.go:175-213`, `Daemon/insert_cont.go:377-435` | none | `BuildProcCpuPct`, `BuildContainerCpuPct` | | units, pids used again, a clock that is set, sums that fall |
| sysinfo module | `kernel/sysinfo_so1_201801521.c` | `prev_idle`, `prev_total` | `sysinfo_show`, `get_cpu_usage` | /proc readers | readers race on two globals; unsigned wrap; seq_file runs `show` twice |
| continfo module | `kernel/continfo_so1_201801521.c` | none | `show` | /proc readers | what it calls a container is a command line |
| Installation | `bash/install_modules.sh`, `Daemon/main.go:271-293` | loaded modules | build, unload, load, verify | kernel, daemon | one module at a time under `set -e` and `pipefail`; a kernel that refuses |
| Grafana | `Daemon/main.go:36-60`, `grafana/` | none here | start | docker, SQLite (reader) | holds locks on the database |
| Readers, printing | `Daemon/read*.go` | none | `ReadSysinfo`, `ReadContInfo` | /proc | a read fails as a whole |

What makes each correct, in the order of importance that the plan follows:

* **Quota controller** - it never takes a class below its quota by its own
  stops, it sacrifices the newest, and it gets the class within the quota in the end.
* **Generator** - it keeps running; it is bounded even with nobody to bound it.
* **Ledger** - other readers see whole upserts only, removals are final, a container
  that is gone is recorded as gone in the end.
* **Lifecycle** - a signal ends the daemon and the generator with it, and
  what is left behind is bounded.
* **Installation** - however it ends, the kernel misses one module at most, and success
  means that every module which was built is the one loaded.
* **Cycle, percentages, sysinfo** - figures are of the interval they claim, whatever
  failed between its ends.

## Modules

| Module | Models | Built on |
|---|---|---|
| `QuotaControl` | what a quota controller promises for one class | abstract |
| `EnforceRules` | `clean_cont.go` with docker and the containers as environment | implements `QuotaControl` twice, once per class |
| `Orchestrator` | the generator beside the quota controller | EXTENDS `EnforceRules` |
| `AtomicLedger` | the record of containers as a reader of the database may think of it | abstract |
| `ContainerLedger` | container half of a turn of `main`, up to the host metrics | implements `AtomicLedger` |
| `SysinfoProc` | `get_cpu_usage` of the sysinfo module under several readers | |
| `MonitorCycle` | the reads, percentages and inserts of a turn of `main`, beside a machine whose processes and clock change | |
| `InstallModules` | `install_modules.sh` | |
| `DaemonLifecycle` | the goroutines of `main.go`, the script and its `docker run`, `detener.sh` | EXTENDS `InstallModules` |
| `EnforceRulesProofs`, `EnforceRulesRefinement`, `OrchestratorProofs`, `ContainerLedgerProofs`, `MonitorCycleProofs`, `MonitorContainersProofs`, `SysinfoProcProofs`, `DaemonLifecycleProofs` | theorems | the modules they name |
| `MC*` | instances for TLC | the modules they name |

A definition whose comment starts with `Slip:` is not part of a model. It is the
definition after it with a plausible mistake in it; put in the place of that
definition it breaks the property it is kept for, which shows that the property
depends on the code.

### EnforceRules

A container is a natural number; within a kind smaller means older. `running` is
what `docker ps` lists; `pending` and `toKill` are what is left of the slices and the
counter of a pass; `pc` and `pass` say where `enforceRules` is, with `"sleep"` for
the rest of the loop of `main`. `List` is `listStressContainers` and the
computation of `toKill`, `KillNext(c)` the loop up to the docker command,
and three actions are its outcomes: `StopEnds`; `StopTimesOut`, because `runCmd`
kills the client after 10 s, which is also docker's own grace, while the engine
goes on; and `StopRefused`. All three go on through `Resume`, since `stopContainer`
only logs an error and `toKill--` follows. `ListFails` is the early return of either
listing. `Launch`, `Crash` and `Exit` happen at any moment, also between a listing and
the last stop that uses it. `Restart` is the daemon ending anywhere and being started
again. The two loops over `highsCPU` and `highsRAM` are one walk in the order
`StoppedBefore`: `docker ps` lists the newest first.

`lost` is a history variable: deaths nobody ordered, since a listing that found none
of the class still obeying a stop. Without it the property would be false for
a reason that is no fault of the daemon: it cannot know, when it stops a container,
that another one has just died.

### Orchestrator

`script`, `i` and `index` are the script's place, its loop variable and the names it
gave; `held` the names docker still has, which `--rm` frees after the exit. `mine` is history: the
containers of the round under way, which tells a survivor of an earlier round from one of the script's own. `Create` is
`EnforceRules!Launch` with a name. A taken name makes `docker run` fail, and `set -e`
ends the script (`CreateConflicts`); `DockerFails` is every other failure.

### ContainerLedger

`table` is the committed content of `containers`, `draft` the same as the open
transaction sees it. `ReadSnapshot` takes what lives now; the set `current` of
`UpsertContainersFromSnapshot` is `snap.current`, and `Begin`, `Touch`, `SelectOpen`,
`Mark`, `Commit` are its statements in the code's order, a map iteration being
any order. Any statement may fail (`UpsertFails`: rollback, and the turn goes on),
`Restart` may come anywhere. Time stamps are unordered values, so that a clock
that is set back is one of the behaviours. `Count`, `CountFails`, `InsertHost`,
`InsertHostFails` finish the turn. What follows in `main` touches neither table
and is in `MonitorCycle`. `AtomicLedger` has one step, `Enter`, in the place of the transaction, which
writes the rows that the snapshot and the table determine; failures and restarts are no step of it. `first_seen_ts_ms` and `container_type` are written once and read by
nothing here.

An id is what the module reports as `cmdline_or_container_id`: the command line of a
process that mentions docker. `Appear` and `Vanish` are therefore starts and ends of such
processes, a `docker ps` of the daemon itself included, and the same id can come back.

### MonitorCycle

`procs` is the machine: pids with a program (a command line, and the name that goes with
it), a CPU time, and a flag for zombies, which have no command line any more. `Tick`,
`Start`, `Exec`, `End`, `Reap` and `SetClock` change it between any two calls of `main`.
`pc` is the call `main` is in. `si` and `snap` are the snapshots of the turn, `prevSys`
and `prevCont` those they are compared with, `None` standing for the flags
`havePrevSys` and `havePrevCont`. `BuildProcCpuPct` and `BuildContainerCpuPct` are operators on two
snapshots; a percentage is kept as the fraction `used` over `of`, so that nothing is
rounded. `recorded` is what the turn has committed to the two tables with percentages, forgotten at its end;
the counts by state are of one snapshot alone and are left out. `KeepSys` and `KeepCont` are
the assignments at the end of each half: they come after a failed insert too, and not after a
failed read. `sinceSys`, `sinceCont` are history: what really happened since the last
read of each module, as an observer of the machine would note it (CPU time by pid and by
command line, seconds, pids given again, clock set); `overSys` and `overCont` are
those notes for the interval that the turn compares. The properties compare the
rows with the notes. `Second` is what the module counts in a second of CPU, `HZ` what
`BuildProcCpuPct` divides by; only the run that is about the unit gives them their true values.

`Docker` are the programs that continfo takes for containers, `Stress` those
`isStressProcess` accepts; they need not overlap. Snapshots are taken at once: the module's
own two passes over the processes are not told apart.

### InstallModules and DaemonLifecycle

`installer` is where the shell of `install_modules.sh` is, `n` its loop variable, `kmod`
what the kernel has of each module: the build of before (`"old"`), the one of this run
(`"new"`), or none, with `"gone"` for one that the shell itself has unloaded. `Find` is
`lsmod | grep -q`: `grep` may end `lsmod` by SIGPIPE, which under `pipefail` makes a
loaded module look absent. `Unload` may be refused (`|| true`), `Insmod` fails on a
module that is there. `Goes` is an `echo`: when the daemon has ended nobody reads the
pipe, and the shell ends with it. `InstallInterrupted` is Ctrl+C in the middle of a command.
`main` waits for the script, however it ends, before it goes on (`StartGrafana`,
`StartInstaller`, `AssignCmd`).

`main`, `waiter` and `handler` are the program counters of three goroutines; `stressCmd` is
their shared variable with the three values that matter: nil, a command whose
`Process` is nil, a started one. The handler's two reads of it in its check (`CheckCmd`, `CheckProcess`)
and its `Kill` are three steps, and `Wait` and the assignment of nil are two. `script` and
`child` are the shell and its `docker run`, which are two processes: SIGKILL takes the
first alone. `Killed` is a daemon that has no chance to clean up. `Echo` ends the shell when nobody is left to read its pipe. A Ctrl+C goes to
the whole process group, `detener.sh` included (`Interrupt`); `kill` to the daemon only
(`Terminate`).

### SysinfoProc

Each reader runs `sysinfo_show` on its own. A run samples `/proc/stat` (`ReadStat`), loads
the two globals (`Load`), and stores its sample in them (`Store`): steps that
other runs interleave with, in the order the compiler likes, since nothing marks the accesses. `Retry` is
seq_file, which runs `show` again with a larger buffer when the list of processes did not fit:
the figure is then of the time since the run that overflowed, often less than a tick. `Word` is 2^w. The
counters of `/proc/stat` are taken to grow, which of iowait the kernel promises only mostly.
`disturbed`, `base`, `from` and `measured` are history. The memory figures and the list of processes
keep no state and are left out.

## What is checked

Properties are named in the modules, each with the lines it is about.

| Run | Instance | Shows |
|---|---|---|
| `enforce_safety` | quotas 2 and 3 of the code, 2 + 2 high and 4 low containers, one fault | `QuotaKept`, `HeirsRemain`, `ListingSuffices`, and both refinements of `QuotaControl` |
| `enforce_liveness` | the same with 2 + 1 high containers | `QuotaReached` |
| `orchestrator` | 2 indexes a round, 3 + 1 + 1 containers, quotas of one, one failing command | `KindBounded`, `ConflictIsWithSurvivor` |
| `generator_dies` | as above, docker never fails on its own account | refutes `LoopsForever` |
| `ledger` | 2 ids, 2 time stamps, 2 failures, one restart | `RemovalIsFinal`, `UpsertIsWhole`, `TotalIsCurrent`, `GoneIsRecorded`, and the refinement of `AtomicLedger` |
| `sysinfo` | 2 readers, 3 ticks, one failure, one repeated run | `AloneIsExact`, `NoTickEscapes` |
| `sysinfo_percentage` | 2 readers, 3 ticks | refutes `IsPercentage` |
| `monitor` | 2 pids, a docker command and a process of a container, 2 CPUs, 3 seconds, 2 changes of processes, one mishap | `ProcShareIsOfInterval`, `BusyProcHasShare`, `ProcShareIsOfOneCPU`, `ContShareIsOfInterval`, `ContShareIsPercentage` |
| `process_percentage` | the same in one second in which nothing else happens, with a second of 10^9 and `HZ` 100 | refutes `ProcShareIsPercentage` |
| `lifecycle` | 2 modules, 3 containers, 2 signals, docker may fail | `AtMostOneUnloaded`, `SuccessMeansReloaded`, `AtMostOneLate`, `OrderlyStopLeavesOne`, `SignalEndsDaemon`, `GeneratorEndsWithDaemon` |
| `stop_leaves_one`, `kill_of_nil` | 3 containers, one module, one signal | refute `AllStopped`, `KillsACommand` |

Why the bounds are enough:

* `enforce_safety`: each class can exceed its quota (the high one within a kind
  and across both), lose containers, and be over the quota again while an earlier stop is
  still obeyed. `MaxFaults` caps commands that fail without effect and restarts; stops
  that time out are not capped. The theorems below have no bound.
* `enforce_liveness`: arrivals end because the instance has no more containers.
* `orchestrator`: containers of three kinds and two rounds of two; quotas of one let
  a container of a round survive, and stop another.
* `stop_leaves_one`: `AllStopped` speaks of the step that says so, `StopAll`, and not of the other success of
  `detener.sh`, which found nothing to stop.
* `ledger`: two ids tell a container of the snapshot from one that is not; two stamps
  tell two snapshots apart and may repeat; two failures allow one in each of two turns, with a
  restart between them.
* `sysinfo`: two readers are a race; three ticks make a run before, one during and one after it; the
  readers are interchangeable (symmetry, safety only). The word of the instance is longer than 1000 times its
  ticks, so that what wraps there are negative differences, as on 64 bits.
* `monitor`: two pids let one command line have two processes, of which one ends; two changes make
  a pid end and be used again, or a program be replaced; three seconds fit three reads, so that the
  snapshot before may be a turn or two old; one mishap is a failed read, a failed insert, a clock that is
  set, or a restart. `Second` and `HZ` are 1000 and 100, which keeps the numbers of the states small and the two units apart;
  the theorems hold for any. Pids are interchangeable (symmetry, safety only). The action
  constraint `MachineBeforeTurn` lets the machine change only before a turn. It leaves nothing out that the properties could
  tell apart: between two reads of a module nothing looks at the machine, and no property relates the
  two halves, so that a change in the middle of a turn is, for each half, one before
  that turn or one before the next. The theorems do without the constraint.
* `process_percentage`: one second suffices to show a unit.
* `lifecycle`: two modules are one that is done and one that is not; two containers can be left while a third starts; a second
  signal can come while the first is handled. The program is not expected
  to run for ever, so deadlock is not checked there.

Fairness, and why the code justifies it:

* `WF(Daemon)`: `runCmd` bounds every command and nothing leaves the loop of `main`.
* `WF(Exit(c))`: docker kills a container that outlives the grace of a stop.
* `WF(Turn)` (ledger): every database call returns with or without an error, and the
  loop goes on either way.
* `WF(Handler)`, `WF(Generator)` (lifecycle): the handler's calls end (`docker stop` ends
  by SIGKILL), and a `docker run -d` ends too. Nothing is assumed of `main`,
  of the waiter, of signals, launches, crashes or faults, nor of the installation: `sudo` asks
  for a password, and main waits for it without a limit.

## What is proved

All for every value of the constants that satisfies the assumptions of the modules;
`PercentageForASingleReader` supposes besides that there is one reader.

| Module | Theorem | Says |
|---|---|---|
| `EnforceRulesProofs` | `TypeCorrect` | `Spec => []TypeOK` |
| | `HeirsAlwaysRemain` | `Spec => []HeirsRemain` |
| | `ListingAlwaysSuffices` | `Spec => []ListingSuffices` |
| | `QuotaAlwaysKept` | `Spec => []QuotaKept` |
| `EnforceRulesRefinement` | `HighImplementsQuotaControl`, `LowImplementsQuotaControl` | `Spec => ControlsHigh`, `Spec => ControlsLow` |
| `ContainerLedgerProofs` | `TypeCorrect`, `RemovalsAreFinal`, `UpsertsAreWhole`, `TotalsAreCurrent` | `Spec =>` each safety property of the run `ledger` |
| | `ImplementsAtomicLedger` | `Spec => IsAtomicLedger` |
| `SysinfoProcProofs` | `TypeCorrect`, `NoTickEverEscapes`, `AloneRunsAreExact` | `Spec =>` each property of the run `sysinfo` |
| | `PercentageForASingleReader` | with one reader, `Spec => []IsPercentage` |
| `OrchestratorProofs` | `ControllerInComposition`, `QuotaKeptInComposition` | `OrchSpec => Spec` of `EnforceRules`, and so `[]QuotaKept` |
| | `OrchTypeCorrect`, `ConflictsAreWithSurvivors`, `KindsAreBounded` | `OrchSpec =>` each property of the run `orchestrator` |
| `MonitorCycleProofs` | `TypeCorrect`, `ProcSharesAreOfInterval`, `BusyProcsHaveShares`, `ProcSharesOfOneCPU` | `Spec =>` the properties of the half of the processes |
| `MonitorContainersProofs` | `ContSharesAreOfInterval`, `ContSharesArePercentages` | `Spec =>` the properties of the half of the containers |
| `DaemonLifecycleProofs` | `TypeCorrect`, `OneLateAtMost`, `OrderlyStopsLeaveOne`, `OneUnloadedAtMost`, `SuccessReloadsAll` | `Spec =>` each safety property of the run `lifecycle` |

**Quota.** `HeirsRemain` says of a doomed container that a quota of its heirs (those
that would be stopped after it) are healthy or died unasked. It is not inductive: the step that
dooms the next container of the listing uses a listing taken earlier. `PendingHeirs`
says what that listing is still worth: what the pass has left to walk, minus what died
since, is healthy or doomed earlier. With `ListingSuffices` (the counter and the
listing run out together) it follows that behind the next one to stop there is
a quota of the listing left, hence `KillLeavesHeirs`. `Shape` ties `inflight` and `toKill`
to `pc`. `QuotaKept` follows from `HeirsRemain`, as the heirs of a container are of
its class. For the refinement, `KillLeavesHeirs` is the guard of the abstract `Doom`;
every other action is an abstract step or a stutter (`ClassStepLemma`), and a
withdrawn stop is the abstract `Spare`. Assumed: containers are numbers and the
three kinds are disjoint, quotas are naturals.

**Ledger.** `DraftOK` says at each point of the upsert how the draft differs from the table:
it has its rows and no others than those of the snapshot, keeps their removals,
has stamped the ids done so far, and `todo` is what is left. At `Commit` nothing is left, and that
is `UpsertIsWhole` and `RemovalIsFinal`. `TotalOK` says that a total which waits to be
recorded was counted in the table as it is. Assumed: the ids are finitely many (a count must be a number),
there is a time stamp, and `Never` is none.

The refinement needs to know each row of the draft and not only what is true of it: `RowsOK` says
which rows are already what they are to become (`Present`, `Absent`) and which are still those of the
table, before and after the open rows are selected. At `Commit` all are, which is `Enter`;
`InsertHost` is `Record` by `TotalOK`; a snapshot that is read, or lost in a restart, is `See`; all
else stutters. It says more than `UpsertIsWhole`: with which time a removal is recorded, and that
nothing else is written.

**Ticks.** A run that has compared its total with `prev_total` has measured every tick up to it
(`SamplesMeasured`), by what `NoTickEscapes` says of the globals at that moment; a store can
put nothing else in them. Torn pairs and overtaking do not matter for this.

**A run alone.** `AloneIsExact` needs to know what the globals hold when a run begins.
`Exclusive` says that whoever is undisturbed is the only one there, `Settled` that with nobody there
the globals are the sample of the last undisturbed run, or a torn pair; `Loaded` and
`Stored` follow a run that is alone through its two loads and two stores. `Ordered` puts
samples in the order they were taken, so that no difference wraps; `PercentIsNearest` is then
arithmetic: two divisions, rounded, in words that hold a thousand times the ticks (`WordAssumption`,
which on 64 bits is true for as long as a machine runs).

**One reader.** `IsPercentage` is refuted for several readers. With a single one nothing is ever disturbed
(`Undisturbed`), so that `AloneIsExact` speaks of every run, and a figure that is nearest to the share of a part is at most
100 (`NearestOfPart`); `Sound` keeps that through the steps in which no figure is computed. The race on the globals is all there
is to that finding.

**Generator.** Every step of the composition is one of `EnforceRules` or changes none of its variables
(`StepOfEnforceRules`), whence everything that is proved of the controller. `NamesAreDistinct`
makes the index of a name an injection of the running containers of a kind into those of a
round, and that bounds them. `OwnRoundIsPassed` says that the containers of the round under way have
indexes which the script has passed, so that in no round can the next name be one of theirs.

**Processes.** `Follows` relates the machine to the last snapshot that was read, through what
happened since: a pid that was not given again has the time it had and what it used, and the
clock has gone on unless it was set. `SinceOK` keeps it for the interval under way (from `Last`, which
is `si` until the turn has kept it and `prevSys` after), `OverOK` for the interval being compared, into which
a read turns the one under way. `InTime` (CPU is used in time only) gives a busy process a
positive interval. Assumed: finitely many pids, positive units and CPUs, and that `None` is none of the other values.

**One CPU each.** `InUse` bounds what is used of an interval by what its seconds give one CPU; every
`Tick` keeps it, whoever is busy. With `ProcShareIsOfInterval` the percentage of a process is at most that
of one CPU, times `Second / HZ` (`ProcShareIsOfOneCPU`). A corollary, `PercentagesOfTheRightUnit`, says that
with the unit the code supposes, `Second <= HZ`, `ProcShareIsPercentage` would hold. It is no
theorem about the code as it is, where a second is 10^9; it shows that the finding
`process_percentage` has no other cause. It rests on what `Tick` takes from the scheduler: what has a
time of its own runs on one CPU at a time. That is so of what the modules print, the time of the task
that leads each process and not of its other threads (`sysinfo_so1_201801521.c:205-219`, `continfo_so1_201801521.c:139`).

**Command lines.** A percentage is of a sum over the processes that have the command line, and what
a sum over a set comes to takes induction over the set. The induction theorems of the library take an
operator and are out of reach; `Counting` and `SubsetInduction` say the same of membership in a set
and are proved from the well-foundedness of the naturals. By them there is one function on the finite sets that
sums (`SumsExist`, `SumsAgree`), it is `MapThenSumSet` (`CpuIsSum`), it does not matter which element
is taken first (`AnyFirst`), so that a process may be taken out or put in (`CpuFacts`), and a second adds
as many times `Second` as there are busy processes in the set (`CpuTick`). `ContFollows` relates the sum
of each command line in the machine to that in the last snapshot: equal to it and what was used since, unless a process
left the command line (then no more) or came to it by execve (then nothing is known).
`ContSinceOK` keeps it for the interval under way, `ContOverOK` for the one compared, and
`ContRowsLemma` carries it into the rows. `ContInUse` bounds the sum by all the CPUs, since at most `NumCPUs`
processes are busy in a second, which makes the figure a percentage (`ContSharesArePercentages`).

**Lifecycle.** `InstallInv` says that all modules before the one in hand are done, and that only the one
in hand can be unloaded. `ScriptInv` ties the script to the step main is in and to
`stressCmd`: a `nil` there, after the start, means a script that is dead. So a handler that found the script
started has it dead before it lists (`StopInv`), and what it does not list is at most the container of one
`docker run`. `LateInv`: when the daemon has ended, a `docker run` is followed by an `echo`
that ends the shell. Assumed: finitely many containers.

Only model-checked: the liveness properties (`QuotaReached`, `GoneIsRecorded`, `SignalEndsDaemon`,
`GeneratorEndsWithDaemon`), since temporal reasoning under fairness is out of the prover's reach. Every
invariant, action property and refinement that a passing run checks is also proved.

## What the code does other than it says

* **The generator ends in its second round or a later one** (`generator_dies`). Names repeat in
  every round, the daemon keeps 2 + 3 containers, and a taken name ends the script, for
  which `stress_container.sh:97` promises an infinite loop.
* **An empty snapshot marks nothing as removed** (`insert_cont.go:137` against 180): that is why
  `GoneIsRecorded` has the premise that something lives.
* **The CPU percentage can exceed 100** (`sysinfo_percentage`): two readers of the proc file race on
  `prev_idle` and `prev_total` (`sysinfo_so1_201801521.c:66-74` against 28).
* **One container can survive the clean-up that reports success** (`stop_leaves_one`,
  `main.go:74` against `detener.sh:20`): its `docker run` outlives the killed script and ends between
  the listing and the `docker stop` of what was listed. It may also end later, before or after the daemon has;
  `OrderlyStopLeavesOne` and `AtMostOneLate` say that it is one at most.
* **The CPU percentage of a process is ten million times too large** (`process_percentage`): the module
  prints nanoseconds (`sysinfo_so1_201801521.c:215-219`), `insert_system.go:206` divides by `HZ`.
* **A container's percentage is that of its docker client.** continfo reports the processes whose command line mentions
  docker or its kin; the workload inside a container does not, so that its rows have 0.0
  (`insert_cont.go:300-305`), and all processes of one command line get the whole
  sum. `ContShareIsOfInterval` states what the figure is, not what its name says.
* **The installer reports that the modules are installed when it has skipped some** (`install_modules.sh:46-49`
  against 83): a module without a `.ko` is passed over. `SuccessMeansReloaded` speaks of those that were built.
* **The modules print command lines without escaping** (`sysinfo_so1_201801521.c:246-248`,
  `continfo_so1_201801521.c:147-159`): a quote in one makes the read fail for as long as the process
  lives. It enters as `ReadSysinfoFails` and `ReadContInfoFails`.
* **The handler can use a nil `stressCmd`** (`kill_of_nil`, `main.go:72-74, 327`): the counterexample is the
  `Kill`; the second half of the check can meet the same nil (`CheckProcess`).

## Not modelled

* Memory figures, counts and layouts of the two modules, the row of `system_metrics`, the creation of the tables
  and what is printed: they keep no state that another step reads.
* What a single read sees while processes change under it: `total_procs` and the list of sysinfo are
  two passes, which may differ by the processes that start or end between them. Nothing in the daemon uses both.
* Grafana, beyond its start and as the reader that makes statements fail; the files of kbuild.
* `Orchestrator` does not restart the daemon, which would start a second generator; `EnforceRules`
  and `MonitorCycle` do. `DaemonLifecycle` ends with the daemon: a second one beside a generator
  that the first has left is not modelled.

## Plan

The plan that the project began with is done: the components above, their compositions
(`Orchestrator`, `DaemonLifecycle`), the refinement of `QuotaControl`, and the theorems. What could follow:

1. A second daemon in `DaemonLifecycle`, started while the generator of the first still runs.
2. `total_procs` and the list of sysinfo as two steps, once something compares them.
