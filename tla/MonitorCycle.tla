---------------------------- MODULE MonitorCycle ----------------------------
(***************************************************************************)
(* The CPU percentages of a turn of main: what is recorded of processes    *)
(* (src/Daemon/main.go:175-206, src/Daemon/insert_system.go) and of stress *)
(* containers (src/Daemon/main.go:208-245, src/Daemon/insert_cont.go).     *)
(* Each half compares the snapshot it has read with the one before, which  *)
(* may be several turns old: reads fail.  Between the two the machine goes *)
(* on: processes start, end and change, pids are used again, and the clock *)
(* that stamps the snapshots may be set.  Inserts fail, and the daemon is  *)
(* stopped and started again.                                              *)
(*                                                                         *)
(* What the half of the containers does to the tables containers and       *)
(* container_host_metrics is in ContainerLedger.                           *)
(***************************************************************************)
EXTENDS Integers, FiniteSets, FiniteSetsExt

CONSTANTS
    Pid,
    Program,        \* command lines, each with the name of its process
    Docker,         \* those that mention docker or its kin: container_related
    Stress,         \* those that isStressProcess accepts, by name or command line
    None,           \* no snapshot, nothing recorded, NULL
    NumCPUs,
    Second,         \* what utime and cpu_time_ns count in a second of CPU
    HZ,             \* by what BuildProcCpuPct divides utime
    MaxTime,        \* bound: seconds that pass
    MaxChanges,     \* bound: processes that start, change or end
    MaxMishaps      \* bound: reads and inserts that fail, settings of the clock,
                    \* and times that the daemon is stopped and started again

ASSUME PidAssumption == IsFiniteSet(Pid)
ASSUME ProgramAssumption ==
    Docker \subseteq Program /\ Stress \subseteq Program
ASSUME UnitsAssumption ==
    NumCPUs \in Nat \ {0} /\ Second \in Nat \ {0} /\ HZ \in Nat \ {0}
ASSUME BoundsAssumption ==
    MaxTime \in Nat /\ MaxChanges \in Nat /\ MaxMishaps \in Nat

VARIABLES
    procs,      \* the processes: pid to program, CPU time, and whether it is a zombie
    clock,      \* the time of day
    pc,         \* the call main is in
    si,         \* the snapshot of sysinfo of this turn
    prevSys,    \* the one before, or None: prevSys and havePrevSys
    snap,       \* the snapshot of continfo of this turn
    prevCont,   \* the one before, or None: prevCont and havePrevCont
    recorded,   \* what this turn has committed to process_metrics and container_metrics
    seconds,
    changes,
    mishaps,
    \* history: what happened since the last read of each module, and, of what
    \* the present turn compares, between its two reads
    sinceSys,
    sinceCont,
    overSys,
    overCont

machine == <<procs, clock>>
ofSys   == <<si, prevSys, overSys>>
ofCont  == <<snap, prevCont, overCont>>
bounds  == <<seconds, changes, mishaps>>
since   == <<sinceSys, sinceCont>>
vars    == <<machine, pc, ofSys, ofCont, recorded, bounds, since>>

Process == [program : Program, cpu : Nat, zombie : BOOLEAN]
Share == [used : Nat, of : Nat \ {0}]      \* a percentage: 100 times used over of
IsTable(t) == \E ps \in SUBSET Pid : t \in [ps -> Process]
IsSnapshot(s) == \E ps \in SUBSET Pid : s \in [ts : Nat, procs : [ps -> Process]]
AreRows(r) == \E ps \in SUBSET Pid : r \in [ps -> Share \cup {None}]

ASSUME NoneAssumption == ~IsSnapshot(None) /\ ~AreRows(None) /\ None \notin Share

New(g) == [program |-> g, cpu |-> 0, zombie |-> FALSE]

Nothing == [procs |-> None, conts |-> None]

\* An interval.  read: does it begin with a read of this run of the daemon?
\* used: CPU time by pid, or by docker command; elapsed: seconds; set: was the clock set?
\* renewed: pids given to a new process; left, joined: docker commands that a process
\* ended or left, or took up in place of another one.
SysTime(read) ==
    [read |-> read, used |-> [p \in Pid |-> 0], elapsed |-> 0, set |-> FALSE, renewed |-> {}]
ContTime(read) ==
    [read |-> read, used |-> [g \in Docker |-> 0], elapsed |-> 0, set |-> FALSE,
     left |-> {}, joined |-> {}]

Init ==
    /\ \E ps \in SUBSET Pid : \E program \in [ps -> Program] :
          procs = [p \in ps |-> New(program[p])]
    /\ clock = 0
    /\ pc = "sysinfo"
    /\ si = None /\ prevSys = None /\ snap = None /\ prevCont = None
    /\ recorded = Nothing
    /\ seconds = 0 /\ changes = 0 /\ mishaps = 0
    /\ sinceSys = SysTime(FALSE) /\ sinceCont = ContTime(FALSE)
    /\ overSys = None /\ overCont = None

Mishap == mishaps < MaxMishaps /\ mishaps' = mishaps + 1 /\ UNCHANGED <<seconds, changes>>
Change == changes < MaxChanges /\ changes' = changes + 1 /\ UNCHANGED <<seconds, mishaps>>

-----------------------------------------------------------------------------
(* The machine.                                                            *)

Running == {p \in DOMAIN procs : ~procs[p].zombie}

\* A second in which the processes of busy have a CPU each.
Tick(busy) ==
    /\ seconds < MaxTime /\ Cardinality(busy) <= NumCPUs
    /\ seconds' = seconds + 1 /\ clock' = clock + 1
    /\ procs' = [p \in DOMAIN procs |->
                    IF p \in busy THEN [procs[p] EXCEPT !.cpu = @ + Second] ELSE procs[p]]
    /\ sinceSys' = [sinceSys EXCEPT
           !.elapsed = @ + 1,
           !.used = [p \in Pid |-> @[p] + IF p \in busy THEN Second ELSE 0]]
    /\ sinceCont' = [sinceCont EXCEPT
           !.elapsed = @ + 1,
           !.used = [g \in Docker |->
                        @[g] + Second * Cardinality({p \in busy : procs[p].program = g})]]
    /\ UNCHANGED <<pc, ofSys, ofCont, recorded, changes, mishaps>>

SetClock(t) ==
    /\ t # clock /\ Mishap
    /\ clock' = t
    /\ sinceSys' = [sinceSys EXCEPT !.set = TRUE]
    /\ sinceCont' = [sinceCont EXCEPT !.set = TRUE]
    /\ UNCHANGED <<procs, pc, ofSys, ofCont, recorded>>

Start(p, g) ==
    /\ p \notin DOMAIN procs /\ Change
    /\ procs' = [q \in DOMAIN procs \cup {p} |-> IF q = p THEN New(g) ELSE procs[q]]
    /\ sinceSys' = [sinceSys EXCEPT !.renewed = @ \cup {p}]
    /\ UNCHANGED <<clock, pc, ofSys, ofCont, recorded, sinceCont>>

\* execve: another program with the pid, and the CPU time, of the one before.
Exec(p, g) ==
    /\ p \in Running /\ g # procs[p].program /\ Change
    /\ procs' = [procs EXCEPT ![p].program = g]
    /\ sinceCont' = [sinceCont EXCEPT !.left = @ \cup (Docker \cap {procs[p].program}),
                                      !.joined = @ \cup (Docker \cap {g})]
    /\ UNCHANGED <<clock, pc, ofSys, ofCont, recorded, sinceSys>>

Without(p) == [q \in DOMAIN procs \ {p} |-> procs[q]]

\* The process ends, and is a zombie until its parent asks for it, which may be at once.
End(p) ==
    /\ p \in Running /\ Change
    /\ procs' \in {[procs EXCEPT ![p].zombie = TRUE], Without(p)}
    /\ sinceCont' = [sinceCont EXCEPT !.left = @ \cup (Docker \cap {procs[p].program})]
    /\ UNCHANGED <<clock, pc, ofSys, ofCont, recorded, sinceSys>>

Reap(p) ==
    /\ p \in DOMAIN procs \ Running /\ Change
    /\ procs' = Without(p)
    /\ UNCHANGED <<clock, pc, ofSys, ofCont, recorded, since>>

Machine ==
    \/ \E busy \in SUBSET Running : Tick(busy)
    \/ \E t \in 0..MaxTime : SetClock(t)
    \/ \E p \in Pid, g \in Program : Start(p, g) \/ Exec(p, g)
    \/ \E p \in Pid : End(p) \/ Reap(p)

-----------------------------------------------------------------------------
(* What the daemon computes.                                               *)

Zero == [used |-> 0, of |-> 1]

\* Slip: nothing is asked of the time stamps.
BuildProcCpuPctAnyTime(prev, curr) ==
    LET secs == curr.ts - prev.ts
        Used(p) == curr.procs[p].cpu - prev.procs[p].cpu
        busy == {p \in DOMAIN curr.procs \cap DOMAIN prev.procs : Used(p) > 0}
    IN  [p \in busy |-> [used |-> Used(p), of |-> HZ * secs * NumCPUs]]

\* Slip: of one CPU, and not of all.
BuildProcCpuPctOfOne(prev, curr) ==
    LET secs == curr.ts - prev.ts
        Used(p) == curr.procs[p].cpu - prev.procs[p].cpu
        busy == {p \in DOMAIN curr.procs \cap DOMAIN prev.procs : Used(p) > 0}
    IN  [p \in IF secs > 0 THEN busy ELSE {} |-> [used |-> Used(p), of |-> HZ * secs]]

\* By pid, of the processes that were there before and have got further since.
BuildProcCpuPct(prev, curr) ==
    LET secs == curr.ts - prev.ts
        Used(p) == curr.procs[p].cpu - prev.procs[p].cpu
        busy == {p \in DOMAIN curr.procs \cap DOMAIN prev.procs : Used(p) > 0}
    IN  [p \in IF secs > 0 THEN busy ELSE {} |->
            [used |-> Used(p), of |-> HZ * secs * NumCPUs]]

\* A zombie has no command line any more: neither related, nor named.
Related(s) == {p \in DOMAIN s.procs : ~s.procs[p].zombie /\ s.procs[p].program \in Docker}
Ids(s) == {s.procs[p].program : p \in Related(s)}

\* Slip: the time of one process in the place of the sum.
TimeOfIdMax(s, g) == Max({s.procs[p].cpu : p \in {q \in Related(s) : s.procs[q].program = g}})

TimeOfId(s, g) ==
    MapThenSumSet(LAMBDA p : s.procs[p].cpu, {p \in Related(s) : s.procs[p].program = g})

\* Slip: of one CPU, and not of all.
BuildContainerCpuPctOfOne(prev, curr) ==
    LET secs == curr.ts - prev.ts
        Used(g) == TimeOfId(curr, g) - TimeOfId(prev, g)
        busy == {g \in Ids(curr) \cap Ids(prev) : Used(g) > 0}
    IN  [g \in IF secs > 0 THEN busy ELSE {} |-> [used |-> Used(g), of |-> Second * secs]]

\* By command line, of the sums over the processes that have it.
BuildContainerCpuPct(prev, curr) ==
    LET secs == curr.ts - prev.ts
        Used(g) == TimeOfId(curr, g) - TimeOfId(prev, g)
        busy == {g \in Ids(curr) \cap Ids(prev) : Used(g) > 0}
    IN  [g \in IF secs > 0 THEN busy ELSE {} |->
            [used |-> Used(g), of |-> Second * secs * NumCPUs]]

\* The rows of process_metrics: NULL for a process without a percentage.
ProcRows(s, pct) == [p \in DOMAIN s.procs |-> IF p \in DOMAIN pct THEN pct[p] ELSE None]

\* The rows of container_metrics, one for each stress process: 0.0 without a
\* percentage.  The class it is filed under, by its program, is left out.
ContRows(s, pct) ==
    [p \in {q \in DOMAIN s.procs : ~s.procs[q].zombie /\ s.procs[q].program \in Stress} |->
        LET g == s.procs[p].program
        IN  [program |-> g, pct |-> IF g \in DOMAIN pct THEN pct[g] ELSE Zero]]

NoShares == [k \in {} |-> None]

-----------------------------------------------------------------------------
(* The half of the processes.                                              *)

ReadSysinfo ==
    /\ pc = "sysinfo"
    /\ si' = [ts |-> clock, procs |-> procs]
    /\ overSys' = sinceSys /\ sinceSys' = SysTime(TRUE)
    /\ pc' = "system"
    /\ UNCHANGED <<machine, prevSys, ofCont, recorded, bounds, sinceCont>>

\* Slip: the empty snapshot of the failed read is kept as the one before.
ReadSysinfoFailsKeeping ==
    /\ pc = "sysinfo" /\ Mishap
    /\ prevSys' = None
    /\ pc' = "continfo"
    /\ UNCHANGED <<machine, si, overSys, ofCont, recorded, since>>

ReadSysinfoFails ==
    /\ pc = "sysinfo" /\ Mishap
    /\ pc' = "continfo"
    /\ UNCHANGED <<machine, ofSys, ofCont, recorded, since>>

\* A row of system_metrics, or an error: what is in it is of one snapshot only.
InsertSystemMetrics ==
    /\ pc = "system"
    /\ pc' = "procs"
    /\ UNCHANGED <<machine, ofSys, ofCont, recorded, bounds, since>>

CpuPctProc == IF prevSys = None THEN NoShares ELSE BuildProcCpuPct(prevSys, si)

InsertProcessMetricsBulk ==
    /\ pc = "procs"
    /\ recorded' = [recorded EXCEPT !.procs = ProcRows(si, CpuPctProc)]
    /\ pc' = "states"
    /\ UNCHANGED <<machine, ofSys, ofCont, bounds, since>>

\* Slip: an error of the insert ends the half.
InsertProcessMetricsFailsEnding ==
    /\ pc = "procs" /\ Mishap
    /\ si' = None
    /\ pc' = "continfo"
    /\ UNCHANGED <<machine, prevSys, overSys, ofCont, recorded, since>>

\* Rolled back as a whole.
InsertProcessMetricsFails ==
    /\ pc = "procs" /\ Mishap
    /\ pc' = "states"
    /\ UNCHANGED <<machine, ofSys, ofCont, recorded, since>>

\* The end of the half: this snapshot becomes the one before, whatever failed.
KeepSys ==
    /\ pc = "states"
    /\ prevSys' = si /\ si' = None
    /\ pc' = "continfo"
    /\ UNCHANGED <<machine, overSys, ofCont, since>>

\* The counts by state are of this snapshot alone, and nothing reads them again.
InsertProcessStateSummary == KeepSys /\ UNCHANGED <<recorded, bounds>>

InsertProcessStateFails == KeepSys /\ Mishap /\ UNCHANGED recorded

-----------------------------------------------------------------------------
(* The half of the containers.                                             *)

ReadContInfo ==
    /\ pc = "continfo"
    /\ snap' = [ts |-> clock, procs |-> procs]
    /\ overCont' = sinceCont /\ sinceCont' = ContTime(TRUE)
    /\ pc' = "conts"
    /\ UNCHANGED <<machine, prevCont, ofSys, recorded, bounds, sinceSys>>

\* The file cannot be read; or the parser refuses it, because what the module prints
\* of a process is not escaped.
ReadContInfoFails ==
    /\ pc = "continfo" /\ Mishap
    /\ pc' = "rules"
    /\ UNCHANGED <<machine, ofSys, ofCont, recorded, since>>

CpuPctCont == IF prevCont = None THEN NoShares ELSE BuildContainerCpuPct(prevCont, snap)

\* This snapshot becomes the one before, whatever fails.
KeepCont ==
    /\ pc = "conts"
    /\ prevCont' = snap /\ snap' = None
    /\ pc' = "rules"
    /\ UNCHANGED <<machine, overCont, ofSys, since>>

InsertContainerMetricsBulk ==
    /\ KeepCont
    /\ recorded' = [recorded EXCEPT !.conts = ContRows(snap, CpuPctCont)]
    /\ UNCHANGED bounds

InsertContainerMetricsFails == KeepCont /\ Mishap /\ UNCHANGED recorded

\* enforceRules and the sleep; what they stop, dies.
EndTurn ==
    /\ pc = "rules"
    /\ pc' = "sysinfo"
    /\ recorded' = Nothing /\ overSys' = None /\ overCont' = None
    /\ UNCHANGED <<machine, si, prevSys, snap, prevCont, bounds, since>>

\* The daemon ends anywhere and is started again: the snapshots are gone.
Restart ==
    /\ Mishap
    /\ si' = None /\ prevSys' = None /\ snap' = None /\ prevCont' = None
    /\ recorded' = Nothing /\ overSys' = None /\ overCont' = None
    /\ sinceSys' = SysTime(FALSE) /\ sinceCont' = ContTime(FALSE)
    /\ pc' = "sysinfo"
    /\ UNCHANGED machine

Turn ==
    \/ ReadSysinfo \/ ReadSysinfoFails \/ InsertSystemMetrics
    \/ InsertProcessMetricsBulk \/ InsertProcessMetricsFails
    \/ InsertProcessStateSummary \/ InsertProcessStateFails
    \/ ReadContInfo \/ ReadContInfoFails
    \/ InsertContainerMetricsBulk \/ InsertContainerMetricsFails
    \/ EndTurn

Next == Machine \/ Turn \/ Restart

Spec == Init /\ [][Next]_vars

-----------------------------------------------------------------------------
(* Properties.                                                             *)

SysInterval ==
    [read : BOOLEAN, used : [Pid -> Nat], elapsed : Nat, set : BOOLEAN, renewed : SUBSET Pid]
ContInterval ==
    [read : BOOLEAN, used : [Docker -> Nat], elapsed : Nat, set : BOOLEAN,
     left : SUBSET Docker, joined : SUBSET Docker]

\* The variables have their types; no percentage of a process is negative, or of no time.
TypeOK ==
    /\ IsTable(procs) /\ clock \in Nat
    /\ pc \in {"sysinfo", "system", "procs", "states", "continfo", "conts", "rules"}
    /\ \A s \in {si, prevSys, snap, prevCont} : s = None \/ IsSnapshot(s)
    /\ recorded.procs = None \/ AreRows(recorded.procs)
    /\ seconds \in 0..MaxTime /\ changes \in 0..MaxChanges /\ mishaps \in 0..MaxMishaps
    /\ sinceSys \in SysInterval /\ sinceCont \in ContInterval
    /\ overSys \in SysInterval \cup {None} /\ overCont \in ContInterval \cup {None}

\* A percentage recorded of a pid is of the CPU time used under it between the last
\* two snapshots of sysinfo that this run of the daemon has read, over the time
\* between them: whatever failed in the turns between, all of what was used unless
\* the pid was given to another process, and never more than that
\* (main.go:189-205; insert_system.go:175-213).
ProcShareIsOfInterval ==
    recorded.procs # None =>
        \A p \in DOMAIN recorded.procs :
            LET share == recorded.procs[p]
            IN  share # None =>
                    /\ overSys.read
                    /\ share.used <= overSys.used[p]
                    /\ p \notin overSys.renewed => share.used = overSys.used[p]
                    /\ ~overSys.set => share.of = HZ * overSys.elapsed * NumCPUs

\* No process that used the CPU between the last two reads is recorded without a
\* percentage, unless its pid is new or the clock was set
\* (main.go:189-205; insert_system.go:192-200).
BusyProcHasShare ==
    recorded.procs # None /\ overSys.read /\ ~overSys.set =>
        \A p \in DOMAIN recorded.procs \ overSys.renewed :
            overSys.used[p] > 0 => recorded.procs[p] # None

\* A percentage recorded of a command line, other than 0.0, is of one that mentions
\* docker, and of what its processes used between the last two snapshots of
\* continfo that were read: of all they used, or of less if one of them ended; of
\* more only if one came to it by execve (main.go:232-244; insert_cont.go:386-435).
ContShareIsOfInterval ==
    recorded.conts # None =>
        \A p \in DOMAIN recorded.conts :
            LET g == recorded.conts[p].program
                share == recorded.conts[p].pct
            IN  share # Zero =>
                    /\ share \in Share /\ overCont.read /\ g \in Docker
                    /\ g \notin overCont.joined => share.used <= overCont.used[g]
                    /\ g \notin overCont.joined \cup overCont.left =>
                          share.used = overCont.used[g]
                    /\ ~overCont.set => share.of = Second * overCont.elapsed * NumCPUs

\* What is recorded of a process is, in the unit that it is recorded in, a share of what
\* one CPU could do in the interval: too large by Second / HZ if they differ, and by no
\* more, if nobody sets the clock (main.go:189-192; insert_system.go:200-210).
ProcShareIsOfOneCPU ==
    recorded.procs # None /\ ~overSys.set =>
        \A p \in DOMAIN recorded.procs :
            LET share == recorded.procs[p]
            IN  share # None => HZ * NumCPUs * share.used <= Second * share.of

\* What is recorded of a command line is a percentage of the machine, at most 100,
\* however many processes have it: unless the clock is set, or a process comes to it by
\* execve with the time it has (insert_cont.go:422-431).
ContShareIsPercentage ==
    recorded.conts # None /\ ~overCont.set =>
        \A p \in DOMAIN recorded.conts :
            LET share == recorded.conts[p].pct
            IN  recorded.conts[p].program \notin overCont.joined => share.used <= share.of

\* "Calcular %CPU por proceso" (main.go:187), "HZ=100" (main.go:190): what is recorded
\* of a process is a percentage, at most 100, if nobody sets the clock.
ProcShareIsPercentage ==
    recorded.procs # None /\ ~overSys.set =>
        \A p \in DOMAIN recorded.procs :
            recorded.procs[p] # None => recorded.procs[p].used <= recorded.procs[p].of

=============================================================================
