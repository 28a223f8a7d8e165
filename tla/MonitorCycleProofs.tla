------------------------- MODULE MonitorCycleProofs -------------------------
(***************************************************************************)
(* Theorems about the half of the processes in MonitorCycle, for any       *)
(* processes, units, clocks, mishaps and numbers of CPUs.                  *)
(***************************************************************************)
EXTENDS MonitorCycle, FiniteSetTheorems, TLAPS

\* In the interval i from the snapshot prev to the processes ps at time now.
Follows(prev, ps, now, i) ==
    /\ \A p \in DOMAIN ps :
          /\ p \notin i.renewed =>
                p \in DOMAIN prev.procs /\ ps[p].cpu = prev.procs[p].cpu + i.used[p]
          /\ p \in i.renewed => ps[p].cpu <= i.used[p]
    /\ ~i.set => now = prev.ts + i.elapsed

\* The CPU is used in time only.
InTime(i) == \A p \in Pid : i.used[p] > 0 => i.elapsed > 0

Reading == {"system", "procs", "states"}

\* The last snapshot of sysinfo that was read.
Last == IF pc \in Reading THEN si ELSE prevSys

\* What the half knows of the interval under way.
SinceOK ==
    /\ pc \in Reading => IsSnapshot(si)
    /\ sinceSys.read <=> Last # None
    /\ sinceSys.read => Follows(Last, procs, clock, sinceSys)
    /\ InTime(sinceSys)

\* And of the one it is comparing, until the rows are written.
OverOK ==
    /\ pc \in {"system", "procs"} =>
          /\ overSys \in SysInterval /\ InTime(overSys)
          /\ overSys.read <=> prevSys # None
          /\ overSys.read => Follows(prevSys, si.procs, si.ts, overSys)
    /\ recorded.procs # None =>
          pc \in {"states", "continfo", "conts", "rules"} /\ overSys \in SysInterval

IInv == TypeOK /\ SinceOK /\ OverOK /\ ProcShareIsOfInterval /\ BusyProcHasShare

LEMMA PositiveProduct ==
    ASSUME NEW a \in Nat \ {0}, NEW b \in Nat \ {0}
    PROVE  a * b \in Nat \ {0}
  OBVIOUS

\* What BuildProcCpuPct returns: one share for each process that has used the CPU, if
\* time has passed.
LEMMA ShareLemma ==
    ASSUME NEW prev, IsSnapshot(prev), NEW curr, IsSnapshot(curr),
           NEW pct, pct = BuildProcCpuPct(prev, curr)
    PROVE  /\ DOMAIN pct \subseteq DOMAIN curr.procs \cap DOMAIN prev.procs
           /\ \A p \in DOMAIN pct :
                 /\ pct[p] \in Share
                 /\ pct[p].used = curr.procs[p].cpu - prev.procs[p].cpu
                 /\ pct[p].of = HZ * (curr.ts - prev.ts) * NumCPUs
           /\ \A p \in DOMAIN curr.procs \cap DOMAIN prev.procs :
                 curr.ts > prev.ts /\ curr.procs[p].cpu > prev.procs[p].cpu => p \in DOMAIN pct
<1> DEFINE secs == curr.ts - prev.ts
           Used(p) == curr.procs[p].cpu - prev.procs[p].cpu
           busy == {p \in DOMAIN curr.procs \cap DOMAIN prev.procs : Used(p) > 0}
           dom == IF secs > 0 THEN busy ELSE {}
<1>1. pct = [p \in dom |-> [used |-> Used(p), of |-> HZ * secs * NumCPUs]]
  BY DEF BuildProcCpuPct
<1>2. /\ \A p \in DOMAIN curr.procs : curr.procs[p].cpu \in Nat
      /\ \A p \in DOMAIN prev.procs : prev.procs[p].cpu \in Nat
      /\ secs \in Int /\ curr.ts \in Nat /\ prev.ts \in Nat
  BY DEF IsSnapshot, Process
<1>3. secs > 0 => HZ * secs * NumCPUs \in Nat \ {0}
  <2> SUFFICES ASSUME secs > 0 PROVE HZ * secs * NumCPUs \in Nat \ {0}
    OBVIOUS
  <2>1. secs \in Nat \ {0}
    BY <1>2
  <2> HIDE DEF secs
  <2>2. HZ * secs \in Nat \ {0}
    BY <2>1, UnitsAssumption, PositiveProduct
  <2>3. QED
    BY <2>2, UnitsAssumption, PositiveProduct
<1>4. DOMAIN pct = dom /\ dom \subseteq DOMAIN curr.procs \cap DOMAIN prev.procs
  BY <1>1
<1>5. \A p \in dom : pct[p] = [used |-> Used(p), of |-> HZ * secs * NumCPUs]
  BY <1>1
<1>6. \A p \in dom : Used(p) \in Nat /\ secs > 0
  BY <1>2
<1> HIDE DEF secs
<1>7. ASSUME NEW p \in dom
      PROVE  pct[p] \in Share /\ pct[p].used = Used(p) /\ pct[p].of = HZ * secs * NumCPUs
  <2> DEFINE of == HZ * secs * NumCPUs
             used == Used(p)
  <2>1. of \in Nat \ {0} /\ used \in Nat
    BY <1>3, <1>6
  <2>2. pct[p] = [used |-> used, of |-> of]
    BY <1>5
  <2> HIDE DEF of, used
  <2>3. pct[p] \in Share /\ pct[p].used = used /\ pct[p].of = of
    BY <2>1, <2>2 DEF Share
  <2>4. QED
    BY <2>3 DEF of, used
<1>8. \A p \in DOMAIN curr.procs \cap DOMAIN prev.procs :
         curr.ts > prev.ts /\ curr.procs[p].cpu > prev.procs[p].cpu => p \in dom
  BY <1>2 DEF secs
<1>9. QED
  BY <1>4, <1>7, <1>8 DEF secs

-----------------------------------------------------------------------------
(* The rows of process_metrics.                                            *)

\* Rows of a snapshot have a percentage where the shares have one.
LEMMA RowsLemma ==
    ASSUME IInv, pc = "procs", NEW rows, rows = ProcRows(si, CpuPctProc)
    PROVE  /\ AreRows(rows) /\ DOMAIN rows = DOMAIN si.procs
           /\ \A p \in DOMAIN rows : rows[p] # None =>
                 /\ overSys.read
                 /\ rows[p].used <= overSys.used[p]
                 /\ p \notin overSys.renewed => rows[p].used = overSys.used[p]
                 /\ ~overSys.set => rows[p].of = HZ * overSys.elapsed * NumCPUs
           /\ overSys.read /\ ~overSys.set =>
                 \A p \in DOMAIN rows \ overSys.renewed :
                    overSys.used[p] > 0 => rows[p] # None
<1>1. /\ IsSnapshot(si)
      /\ overSys \in SysInterval /\ InTime(overSys)
      /\ overSys.read <=> prevSys # None
      /\ overSys.read => IsSnapshot(prevSys) /\ Follows(prevSys, si.procs, si.ts, overSys)
  BY DEF IInv, SinceOK, OverOK, TypeOK, Reading
<1>2. /\ DOMAIN si.procs \in SUBSET Pid /\ si.ts \in Nat
      /\ \A p \in DOMAIN si.procs : si.procs[p].cpu \in Nat
      /\ \A p \in Pid : overSys.used[p] \in Nat
      /\ overSys.elapsed \in Nat
  BY <1>1 DEF IsSnapshot, Process, SysInterval
<1>3. CASE ~overSys.read
  <2>1. CpuPctProc = NoShares /\ DOMAIN NoShares = {}
    BY <1>1, <1>3 DEF CpuPctProc, NoShares
  <2>2. rows = [p \in DOMAIN si.procs |-> None]
    BY <2>1 DEF ProcRows
  <2>3. rows \in [DOMAIN si.procs -> Share \cup {None}]
    BY <2>2
  <2>4. QED
    BY <1>2, <1>3, <2>2, <2>3 DEF AreRows
<1>4. CASE overSys.read
  <2> DEFINE pct == CpuPctProc
  <2>1. pct = BuildProcCpuPct(prevSys, si) /\ IsSnapshot(prevSys)
    BY <1>1, <1>4 DEF CpuPctProc
  <2> HIDE DEF pct
  <2>2. /\ DOMAIN pct \subseteq DOMAIN si.procs \cap DOMAIN prevSys.procs
        /\ \A p \in DOMAIN pct :
              /\ pct[p] \in Share
              /\ pct[p].used = si.procs[p].cpu - prevSys.procs[p].cpu
              /\ pct[p].of = HZ * (si.ts - prevSys.ts) * NumCPUs
        /\ \A p \in DOMAIN si.procs \cap DOMAIN prevSys.procs :
              si.ts > prevSys.ts /\ si.procs[p].cpu > prevSys.procs[p].cpu => p \in DOMAIN pct
    BY <1>1, <2>1, ShareLemma
  <2>3. rows = [p \in DOMAIN si.procs |-> IF p \in DOMAIN pct THEN pct[p] ELSE None]
    BY DEF ProcRows, pct
  <2>4. rows \in [DOMAIN si.procs -> Share \cup {None}]
    BY <2>2, <2>3
  <2>5. AreRows(rows) /\ DOMAIN rows = DOMAIN si.procs
    BY <1>2, <2>3, <2>4 DEF AreRows
  <2>6. /\ \A p \in DOMAIN prevSys.procs : prevSys.procs[p].cpu \in Nat
        /\ prevSys.ts \in Nat
    BY <2>1 DEF IsSnapshot, Process
  <2>7. ASSUME NEW p \in DOMAIN rows, rows[p] # None
        PROVE  /\ rows[p].used <= overSys.used[p]
               /\ p \notin overSys.renewed => rows[p].used = overSys.used[p]
               /\ ~overSys.set => rows[p].of = HZ * overSys.elapsed * NumCPUs
    <3>1. p \in DOMAIN pct /\ rows[p] = pct[p] /\ p \in DOMAIN si.procs
          /\ p \in DOMAIN prevSys.procs /\ p \in Pid
      BY <1>2, <2>2, <2>3, <2>5, <2>7
    <3>2. rows[p].used = si.procs[p].cpu - prevSys.procs[p].cpu
      BY <2>2, <3>1
    <3>3. /\ p \notin overSys.renewed =>
                 si.procs[p].cpu = prevSys.procs[p].cpu + overSys.used[p]
          /\ p \in overSys.renewed => si.procs[p].cpu <= overSys.used[p]
      BY <1>1, <1>4, <3>1 DEF Follows
    <3>4. ~overSys.set => si.ts - prevSys.ts = overSys.elapsed
      BY <1>1, <1>2, <1>4, <2>6 DEF Follows
    <3>5. ~overSys.set => rows[p].of = HZ * overSys.elapsed * NumCPUs
      BY <2>2, <3>1, <3>4
    <3>6. /\ si.procs[p].cpu \in Nat /\ prevSys.procs[p].cpu \in Nat
          /\ overSys.used[p] \in Nat
      BY <1>2, <2>6, <3>1
    <3>7. QED
      BY <3>2, <3>3, <3>5, <3>6
  <2>8. ASSUME ~overSys.set, NEW p \in DOMAIN rows \ overSys.renewed, overSys.used[p] > 0
        PROVE  rows[p] # None
    <3>1. /\ p \in DOMAIN si.procs /\ p \in DOMAIN prevSys.procs
          /\ si.procs[p].cpu = prevSys.procs[p].cpu + overSys.used[p]
          /\ si.ts = prevSys.ts + overSys.elapsed
          /\ overSys.elapsed > 0
      BY <1>1, <1>2, <1>4, <2>5, <2>8 DEF Follows, InTime
    <3>2. p \in DOMAIN pct
      BY <1>2, <2>2, <2>6, <2>8, <3>1
    <3>3. QED
      BY <2>2, <2>3, <3>1, <3>2, NoneAssumption
  <2>9. QED
    BY <1>4, <2>5, <2>7, <2>8
<1>5. QED
  BY <1>3, <1>4

-----------------------------------------------------------------------------
(* Types.                                                                  *)

LEMMA NewType == \A g \in Program : New(g) \in Process
  BY DEF New, Process

LEMMA IntervalTypes ==
    ASSUME NEW read \in BOOLEAN
    PROVE  SysTime(read) \in SysInterval /\ ContTime(read) \in ContInterval
  BY DEF SysTime, SysInterval, ContTime, ContInterval

LEMMA TypeInit == Init => TypeOK
<1> SUFFICES ASSUME Init PROVE TypeOK
  OBVIOUS
<1>1. IsTable(procs)
  <2>1. PICK ps \in SUBSET Pid : \E program \in [ps -> Program] :
                procs = [p \in ps |-> New(program[p])]
    BY DEF Init
  <2>2. PICK program \in [ps -> Program] : procs = [p \in ps |-> New(program[p])]
    BY <2>1
  <2>3. procs \in [ps -> Process]
    BY <2>2, NewType
  <2>4. QED
    BY <2>3 DEF IsTable
<1>2. recorded.procs = None /\ recorded.conts = None
  BY DEF Init, Nothing
<1>3. /\ clock \in Nat /\ pc = "sysinfo"
      /\ \A s \in {si, prevSys, snap, prevCont} : s = None
      /\ seconds \in 0..MaxTime /\ changes \in 0..MaxChanges /\ mishaps \in 0..MaxMishaps
  BY BoundsAssumption DEF Init
<1>4. /\ sinceSys \in SysInterval /\ sinceCont \in ContInterval
      /\ overSys = None /\ overCont = None
  BY IntervalTypes DEF Init
<1>5. QED
  BY <1>1, <1>2, <1>3, <1>4 DEF TypeOK

\* The processes that the machine makes of those there are.
LEMMA MachineType ==
    ASSUME TypeOK, Machine
    PROVE  IsTable(procs') /\ clock' \in Nat
<1>1. PICK ps \in SUBSET Pid : procs \in [ps -> Process] /\ DOMAIN procs = ps
  BY DEF TypeOK, IsTable
<1>2. \A p \in ps : procs[p] \in Process /\ procs[p].program \in Program
                   /\ procs[p].cpu \in Nat /\ procs[p].zombie \in BOOLEAN
  BY <1>1 DEF Process
<1>3. ASSUME NEW busy \in SUBSET Running, Tick(busy)
      PROVE  IsTable(procs') /\ clock' \in Nat
  <2>1. \A p \in ps : [procs[p] EXCEPT !.cpu = @ + Second] \in Process
    BY <1>2, UnitsAssumption DEF Process
  <2>2. procs' = [p \in ps |-> IF p \in busy THEN [procs[p] EXCEPT !.cpu = @ + Second]
                                             ELSE procs[p]]
    BY <1>1, <1>3 DEF Tick
  <2>3. procs' \in [ps -> Process]
    BY <1>2, <2>1, <2>2
  <2>4. QED
    BY <1>3, <2>3 DEF IsTable, Tick, TypeOK
<1>4. ASSUME NEW t \in 0..MaxTime, SetClock(t)
      PROVE  IsTable(procs') /\ clock' \in Nat
  BY <1>4, BoundsAssumption DEF SetClock, TypeOK, IsTable
<1>5. ASSUME NEW p \in Pid, NEW g \in Program, Start(p, g)
      PROVE  IsTable(procs') /\ clock' \in Nat
  <2>1. procs' = [q \in ps \cup {p} |-> IF q = p THEN New(g) ELSE procs[q]]
    BY <1>1, <1>5 DEF Start
  <2>2. procs' \in [ps \cup {p} -> Process]
    BY <1>2, <2>1, NewType
  <2>3. QED
    BY <1>5, <2>2 DEF IsTable, Start, TypeOK
<1>6. ASSUME NEW p \in Pid, NEW g \in Program, Exec(p, g)
      PROVE  IsTable(procs') /\ clock' \in Nat
  <2>1. p \in ps /\ procs' = [procs EXCEPT ![p].program = g]
    BY <1>1, <1>6 DEF Exec, Running
  <2>2. [procs[p] EXCEPT !.program = g] \in Process
    BY <1>2, <2>1 DEF Process
  <2>3. procs' \in [ps -> Process]
    BY <1>1, <2>1, <2>2
  <2>4. QED
    BY <1>6, <2>3 DEF IsTable, Exec, TypeOK
<1>7. ASSUME NEW p \in Pid
      PROVE  IsTable(Without(p))
  <2>1. Without(p) \in [ps \ {p} -> Process]
    BY <1>1, <1>2 DEF Without
  <2>2. QED
    BY <2>1 DEF IsTable
<1>8. ASSUME NEW p \in Pid, End(p)
      PROVE  IsTable(procs') /\ clock' \in Nat
  <2>1. p \in ps /\ procs' \in {[procs EXCEPT ![p].zombie = TRUE], Without(p)}
    BY <1>1, <1>8 DEF End, Running
  <2>2. [procs[p] EXCEPT !.zombie = TRUE] \in Process
    BY <1>2, <2>1 DEF Process
  <2>3. [procs EXCEPT ![p].zombie = TRUE] \in [ps -> Process]
    BY <1>1, <2>1, <2>2
  <2>4. QED
    BY <1>7, <1>8, <2>1, <2>3 DEF IsTable, End, TypeOK
<1>9. ASSUME NEW p \in Pid, Reap(p)
      PROVE  IsTable(procs') /\ clock' \in Nat
  BY <1>7, <1>9 DEF Reap, TypeOK
<1>10. QED
  BY <1>3, <1>4, <1>5, <1>6, <1>8, <1>9 DEF Machine

\* The intervals stay intervals.
LEMMA SinceType ==
    ASSUME TypeOK, Machine
    PROVE  sinceSys' \in SysInterval /\ sinceCont' \in ContInterval
<1>1. /\ sinceSys \in SysInterval /\ sinceCont \in ContInterval
      /\ \A p \in Pid : sinceSys.used[p] \in Nat
      /\ \A g \in Docker : sinceCont.used[g] \in Nat
      /\ Second \in Nat
  BY UnitsAssumption DEF TypeOK, SysInterval, ContInterval
<1>2. ASSUME NEW busy \in SUBSET Running, Tick(busy)
      PROVE  sinceSys' \in SysInterval /\ sinceCont' \in ContInterval
  <2> DEFINE sysUsed == [p \in Pid |-> sinceSys.used[p] + IF p \in busy THEN Second ELSE 0]
             many(g) == Cardinality({p \in busy : procs[p].program = g})
             contUsed == [g \in Docker |-> sinceCont.used[g] + Second * many(g)]
  <2>1. busy \subseteq Pid
    BY DEF Running, TypeOK, IsTable
  <2>2. \A g \in Docker : many(g) \in Nat
    <3> TAKE g \in Docker
    <3>1. {p \in busy : procs[p].program = g} \subseteq Pid
      BY <2>1
    <3>2. QED
      BY <3>1, PidAssumption, FS_Subset, FS_CardinalityType
  <2> HIDE DEF many
  <2>3. \A g \in Docker : Second * many(g) \in Nat
    BY <1>1, <2>2
  <2>4. sysUsed \in [Pid -> Nat] /\ contUsed \in [Docker -> Nat]
    BY <1>1, <2>3
  <2>5. /\ sinceSys' = [sinceSys EXCEPT !.elapsed = @ + 1, !.used = sysUsed]
        /\ sinceCont' = [sinceCont EXCEPT !.elapsed = @ + 1, !.used = contUsed]
    BY <1>2 DEF Tick, many
  <2> HIDE DEF sysUsed, contUsed
  <2>6. sinceSys' \in SysInterval
    <3>1. sinceSys' = [read |-> sinceSys.read, used |-> sysUsed, elapsed |-> sinceSys.elapsed + 1,
                       set |-> sinceSys.set, renewed |-> sinceSys.renewed]
      BY <1>1, <2>5 DEF SysInterval
    <3>2. QED
      BY <1>1, <2>4, <3>1 DEF SysInterval
  <2>7. sinceCont' \in ContInterval
    <3>1. sinceCont' = [read |-> sinceCont.read, used |-> contUsed,
                        elapsed |-> sinceCont.elapsed + 1, set |-> sinceCont.set,
                        left |-> sinceCont.left, joined |-> sinceCont.joined]
      BY <1>1, <2>5 DEF ContInterval
    <3>2. QED
      BY <1>1, <2>4, <3>1 DEF ContInterval
  <2>8. QED
    BY <2>6, <2>7
<1>3. ASSUME NEW t \in 0..MaxTime, SetClock(t)
      PROVE  sinceSys' \in SysInterval /\ sinceCont' \in ContInterval
  BY <1>1, <1>3 DEF SetClock, SysInterval, ContInterval
<1>4. ASSUME NEW p \in Pid, NEW g \in Program, Start(p, g)
      PROVE  sinceSys' \in SysInterval /\ sinceCont' \in ContInterval
  BY <1>1, <1>4 DEF Start, SysInterval, ContInterval
<1>5. ASSUME NEW p \in Pid, NEW g \in Program, Exec(p, g)
      PROVE  sinceSys' \in SysInterval /\ sinceCont' \in ContInterval
  BY <1>1, <1>5 DEF Exec, SysInterval, ContInterval
<1>6. ASSUME NEW p \in Pid, End(p)
      PROVE  sinceSys' \in SysInterval /\ sinceCont' \in ContInterval
  BY <1>1, <1>6 DEF End, SysInterval, ContInterval
<1>7. ASSUME NEW p \in Pid, Reap(p)
      PROVE  sinceSys' \in SysInterval /\ sinceCont' \in ContInterval
  BY <1>1, <1>7 DEF Reap, since
<1>8. QED
  BY <1>2, <1>3, <1>4, <1>5, <1>6, <1>7 DEF Machine

\* What a turn does keeps the types.
LEMMA TurnType ==
    ASSUME IInv, Turn \/ Restart
    PROVE  TypeOK'
<1>1. /\ TypeOK /\ (pc \in Reading => IsSnapshot(si))
  BY DEF IInv, SinceOK
<1> USE DEF bounds, since, ofSys, ofCont, machine
<1>2. \A r \in BOOLEAN : SysTime(r) \in SysInterval /\ ContTime(r) \in ContInterval
  BY IntervalTypes
<1>3. Nothing.procs = None
  BY DEF Nothing
<1>4. IsSnapshot([ts |-> clock, procs |-> procs])
  BY <1>1 DEF TypeOK, IsTable, IsSnapshot
<1>5. ASSUME Mishap PROVE mishaps' \in 0..MaxMishaps /\ UNCHANGED <<seconds, changes>>
  BY <1>1, <1>5, BoundsAssumption DEF Mishap, TypeOK
<1>6. CASE ReadSysinfo
  BY <1>1, <1>2, <1>4, <1>6 DEF ReadSysinfo, TypeOK, IsTable
<1>7. CASE ReadSysinfoFails
  BY <1>1, <1>5, <1>7 DEF ReadSysinfoFails, TypeOK, IsTable
<1>8. CASE InsertSystemMetrics
  BY <1>1, <1>8 DEF InsertSystemMetrics, TypeOK, IsTable
<1>9. CASE InsertProcessMetricsBulk
  <2>1. AreRows(ProcRows(si, CpuPctProc)) /\ pc = "procs"
    BY <1>9, RowsLemma DEF InsertProcessMetricsBulk
  <2>2. recorded'.procs = ProcRows(si, CpuPctProc) \/ recorded'.procs = recorded.procs
    BY <1>9 DEF InsertProcessMetricsBulk
  <2>3. AreRows(recorded.procs)' \/ recorded'.procs = None
    BY <1>1, <2>1, <2>2 DEF TypeOK, AreRows
  <2>4. QED
    BY <1>1, <1>9, <2>3 DEF InsertProcessMetricsBulk, TypeOK, IsTable
<1>10. CASE InsertProcessMetricsFails
  BY <1>1, <1>5, <1>10 DEF InsertProcessMetricsFails, TypeOK, IsTable
<1>11. ASSUME KeepSys, recorded'.procs = recorded.procs,
              mishaps' \in 0..MaxMishaps /\ UNCHANGED <<seconds, changes>>
       PROVE  TypeOK'
  BY <1>1, <1>11 DEF KeepSys, TypeOK, IsTable, Reading
<1>12. CASE InsertProcessStateSummary
  <2>1. recorded'.procs = recorded.procs
    BY <1>12 DEF InsertProcessStateSummary
  <2>2. QED
    BY <1>1, <1>11, <1>12, <2>1 DEF InsertProcessStateSummary, TypeOK
<1>13. CASE InsertProcessStateFails
  BY <1>5, <1>11, <1>13 DEF InsertProcessStateFails
<1>14. CASE ReadContInfo
  BY <1>1, <1>2, <1>4, <1>14 DEF ReadContInfo, TypeOK, IsTable
<1>15. CASE ReadContInfoFails
  BY <1>1, <1>5, <1>15 DEF ReadContInfoFails, TypeOK, IsTable
<1>16. ASSUME KeepCont, recorded'.procs = recorded.procs,
              mishaps' \in 0..MaxMishaps /\ UNCHANGED <<seconds, changes>>
       PROVE  TypeOK'
  BY <1>1, <1>16 DEF KeepCont, TypeOK, IsTable
<1>17. CASE InsertContainerMetricsBulk
  <2>1. recorded'.procs = recorded.procs
    BY <1>17 DEF InsertContainerMetricsBulk
  <2>2. QED
    BY <1>1, <1>16, <1>17, <2>1 DEF InsertContainerMetricsBulk, TypeOK
<1>18. CASE InsertContainerMetricsFails
  BY <1>5, <1>16, <1>18 DEF InsertContainerMetricsFails
<1>19. CASE EndTurn
  BY <1>1, <1>3, <1>19 DEF EndTurn, TypeOK, IsTable
<1>20. CASE Restart
  BY <1>1, <1>2, <1>3, <1>5, <1>20 DEF Restart, TypeOK, IsTable
<1>21. QED
  BY <1>6, <1>7, <1>8, <1>9, <1>10, <1>12, <1>13, <1>14, <1>15, <1>17, <1>18, <1>19, <1>20
     DEF Turn

\* TypeOK is kept by every step, given what is known of the intervals.
LEMMA TypeStep ==
    ASSUME IInv, Next
    PROVE  TypeOK'
<1>1. CASE Machine
  <2>1. /\ IsTable(procs)' /\ clock' \in Nat
        /\ sinceSys' \in SysInterval /\ sinceCont' \in ContInterval
    BY <1>1, MachineType, SinceType DEF IInv, IsTable
  <2>2. UNCHANGED <<pc, ofSys, ofCont, recorded>>
    BY <1>1 DEF Machine, Tick, SetClock, Start, Exec, End, Reap
  <2>3. \/ seconds < MaxTime /\ seconds' = seconds + 1 /\ UNCHANGED <<changes, mishaps>>
        \/ Mishap \/ Change
    BY <1>1, Zenon DEF Machine, Tick, SetClock, Start, Exec, End, Reap
  <2>4. seconds' \in 0..MaxTime /\ changes' \in 0..MaxChanges /\ mishaps' \in 0..MaxMishaps
    BY <2>3, BoundsAssumption DEF Mishap, Change, IInv, TypeOK
  <2>5. QED
    BY <2>1, <2>2, <2>4 DEF IInv, TypeOK, ofSys, ofCont, IsTable
<1>2. QED
  BY <1>1, TurnType DEF Next

-----------------------------------------------------------------------------
(* The interval under way.                                                 *)

\* What the machine does is counted.
LEMMA MachineFollows ==
    ASSUME TypeOK, NEW prev, IsSnapshot(prev), Follows(prev, procs, clock, sinceSys), Machine
    PROVE  Follows(prev, procs', clock', sinceSys')
<1>1. /\ DOMAIN procs \in SUBSET Pid
      /\ \A p \in DOMAIN procs : procs[p] \in Process /\ procs[p].cpu \in Nat
      /\ \A p \in Pid : sinceSys.used[p] \in Nat
      /\ sinceSys \in SysInterval /\ clock \in Nat
  BY DEF TypeOK, IsTable, Process, SysInterval
<1>2. /\ \A p \in DOMAIN prev.procs : prev.procs[p].cpu \in Nat
      /\ prev.ts \in Nat /\ Second \in Nat /\ sinceSys.elapsed \in Nat
  BY <1>1, UnitsAssumption DEF IsSnapshot, Process, SysInterval
<1>3. ASSUME NEW busy \in SUBSET Running, Tick(busy)
      PROVE  Follows(prev, procs', clock', sinceSys')
  <2>1. /\ DOMAIN procs' = DOMAIN procs /\ clock' = clock + 1
        /\ \A p \in DOMAIN procs :
              procs'[p].cpu = procs[p].cpu + IF p \in busy THEN Second ELSE 0
    <3>1. /\ procs' = [p \in DOMAIN procs |->
                 IF p \in busy THEN [procs[p] EXCEPT !.cpu = @ + Second] ELSE procs[p]]
          /\ clock' = clock + 1
      BY <1>3 DEF Tick
    <3>2. \A p \in DOMAIN procs :
             [procs[p] EXCEPT !.cpu = @ + Second].cpu = procs[p].cpu + Second
      BY <1>1 DEF Process
    <3>3. QED
      BY <1>1, <3>1, <3>2
  <2>2. /\ \A p \in Pid : sinceSys'.used[p] = sinceSys.used[p] + IF p \in busy THEN Second ELSE 0
        /\ sinceSys'.elapsed = sinceSys.elapsed + 1
        /\ sinceSys'.set = sinceSys.set /\ sinceSys'.renewed = sinceSys.renewed
    <3> DEFINE used == [p \in Pid |-> sinceSys.used[p] + IF p \in busy THEN Second ELSE 0]
    <3>1. sinceSys' = [sinceSys EXCEPT !.elapsed = @ + 1, !.used = used]
      BY <1>3 DEF Tick
    <3>2. \A p \in Pid : used[p] = sinceSys.used[p] + IF p \in busy THEN Second ELSE 0
      OBVIOUS
    <3> HIDE DEF used
    <3>3. sinceSys' = [read |-> sinceSys.read, used |-> used, elapsed |-> sinceSys.elapsed + 1,
                       set |-> sinceSys.set, renewed |-> sinceSys.renewed]
      BY <1>1, <3>1 DEF SysInterval
    <3>4. QED
      BY <3>2, <3>3
  <2>3. QED
    BY <1>1, <1>2, <2>1, <2>2 DEF Follows
<1>4. ASSUME NEW t \in 0..MaxTime, SetClock(t)
      PROVE  Follows(prev, procs', clock', sinceSys')
  <2>1. procs' = procs /\ sinceSys' = [sinceSys EXCEPT !.set = TRUE]
    BY <1>4 DEF SetClock
  <2>2. sinceSys'.set /\ sinceSys'.used = sinceSys.used /\ sinceSys'.renewed = sinceSys.renewed
    BY <1>1, <2>1 DEF SysInterval
  <2>3. QED
    BY <2>1, <2>2 DEF Follows
<1>5. ASSUME NEW p \in Pid, NEW g \in Program, Start(p, g)
      PROVE  Follows(prev, procs', clock', sinceSys')
  <2>1. /\ procs' = [q \in DOMAIN procs \cup {p} |-> IF q = p THEN New(g) ELSE procs[q]]
        /\ sinceSys' = [sinceSys EXCEPT !.renewed = @ \cup {p}] /\ clock' = clock
    BY <1>5 DEF Start
  <2>2. /\ sinceSys'.renewed = sinceSys.renewed \cup {p} /\ sinceSys'.set = sinceSys.set
        /\ sinceSys'.used = sinceSys.used /\ sinceSys'.elapsed = sinceSys.elapsed
    BY <1>1, <2>1 DEF SysInterval
  <2>3. New(g).cpu = 0
    BY DEF New
  <2>4. QED
    BY <1>1, <2>1, <2>2, <2>3 DEF Follows
<1>6. ASSUME DOMAIN procs' \subseteq DOMAIN procs, UNCHANGED <<clock, sinceSys>>,
             \A p \in DOMAIN procs' : procs'[p].cpu = procs[p].cpu
      PROVE  Follows(prev, procs', clock', sinceSys')
  BY <1>6 DEF Follows
<1>7. ASSUME NEW p \in Pid, NEW g \in Program, Exec(p, g)
      PROVE  Follows(prev, procs', clock', sinceSys')
  <2>1. p \in DOMAIN procs /\ procs' = [procs EXCEPT ![p].program = g]
        /\ UNCHANGED <<clock, sinceSys>>
    BY <1>7 DEF Exec, Running
  <2>2. [procs[p] EXCEPT !.program = g].cpu = procs[p].cpu
    BY <1>1, <2>1 DEF Process
  <2>3. DOMAIN procs' = DOMAIN procs /\ \A q \in DOMAIN procs : procs'[q].cpu = procs[q].cpu
    BY <2>1, <2>2
  <2>4. QED
    BY <1>6, <2>1, <2>3
<1>8. \A p \in Pid : /\ DOMAIN Without(p) \subseteq DOMAIN procs
                     /\ \A q \in DOMAIN Without(p) : Without(p)[q].cpu = procs[q].cpu
  BY DEF Without
<1>9. ASSUME NEW p \in Pid, End(p)
      PROVE  Follows(prev, procs', clock', sinceSys')
  <2>1. /\ p \in DOMAIN procs /\ UNCHANGED <<clock, sinceSys>>
        /\ procs' = [procs EXCEPT ![p].zombie = TRUE] \/ procs' = Without(p)
    BY <1>9 DEF End, Running
  <2>2. CASE procs' = [procs EXCEPT ![p].zombie = TRUE]
    <3>1. [procs[p] EXCEPT !.zombie = TRUE].cpu = procs[p].cpu
      BY <1>1, <2>1 DEF Process
    <3>2. DOMAIN procs' = DOMAIN procs /\ \A q \in DOMAIN procs : procs'[q].cpu = procs[q].cpu
      BY <2>2, <3>1
    <3>3. QED
      BY <1>6, <2>1, <3>2
  <2>3. CASE procs' = Without(p)
    BY <1>6, <1>8, <2>1, <2>3
  <2>4. QED
    BY <2>1, <2>2, <2>3
<1>10. ASSUME NEW p \in Pid, Reap(p)
       PROVE  Follows(prev, procs', clock', sinceSys')
  BY <1>6, <1>8, <1>10 DEF Reap, since
<1>11. QED
  BY <1>3, <1>4, <1>5, <1>7, <1>9, <1>10 DEF Machine

\* The machine counts the seconds in which the CPU is used, and makes no read.
LEMMA MachineInTime ==
    ASSUME TypeOK, InTime(sinceSys), Machine
    PROVE  InTime(sinceSys') /\ sinceSys'.read = sinceSys.read
<1>1. /\ sinceSys \in SysInterval /\ sinceSys.elapsed \in Nat
  BY DEF TypeOK, SysInterval
<1>2. ASSUME NEW busy \in SUBSET Running, Tick(busy)
      PROVE  InTime(sinceSys') /\ sinceSys'.read = sinceSys.read
  <2> DEFINE used == [p \in Pid |-> sinceSys.used[p] + IF p \in busy THEN Second ELSE 0]
  <2>1. sinceSys' = [sinceSys EXCEPT !.elapsed = @ + 1, !.used = used]
    BY <1>2 DEF Tick
  <2> HIDE DEF used
  <2>2. sinceSys'.elapsed = sinceSys.elapsed + 1 /\ sinceSys'.read = sinceSys.read
    <3>1. sinceSys' = [read |-> sinceSys.read, used |-> used, elapsed |-> sinceSys.elapsed + 1,
                       set |-> sinceSys.set, renewed |-> sinceSys.renewed]
      BY <1>1, <2>1 DEF SysInterval
    <3>2. QED
      BY <3>1
  <2>3. QED
    BY <1>1, <2>2 DEF InTime
<1>3. ASSUME NEW t \in 0..MaxTime, SetClock(t)
      PROVE  InTime(sinceSys') /\ sinceSys'.read = sinceSys.read
  BY <1>1, <1>3 DEF SetClock, InTime, SysInterval
<1>4. ASSUME NEW p \in Pid, NEW g \in Program, Start(p, g)
      PROVE  InTime(sinceSys') /\ sinceSys'.read = sinceSys.read
  BY <1>1, <1>4 DEF Start, InTime, SysInterval
<1>5. ASSUME NEW p \in Pid, End(p) \/ Reap(p) \/ \E g \in Program : Exec(p, g)
      PROVE  InTime(sinceSys') /\ sinceSys'.read = sinceSys.read
  BY <1>5 DEF End, Reap, Exec, InTime, since
<1>6. QED
  BY <1>2, <1>3, <1>4, <1>5 DEF Machine

\* SinceOK is kept by every step.
LEMMA SinceStep ==
    ASSUME IInv, Next
    PROVE  SinceOK'
<1>1. TypeOK /\ SinceOK
  BY DEF IInv
<1>2. CASE Machine
  <2>1. UNCHANGED <<pc, si, prevSys>> /\ Last' = Last
    BY <1>2 DEF Machine, Tick, SetClock, Start, Exec, End, Reap, ofSys, Last
  <2>2. sinceSys.read => IsSnapshot(Last)
    BY <1>1 DEF SinceOK, Last, TypeOK
  <2>3. sinceSys.read => Follows(Last, procs', clock', sinceSys')
    BY <1>1, <1>2, <2>2, MachineFollows DEF SinceOK
  <2>4. InTime(sinceSys') /\ sinceSys'.read = sinceSys.read
    BY <1>1, <1>2, MachineInTime DEF SinceOK
  <2>5. /\ pc' \in Reading => IsSnapshot(si')
        /\ sinceSys'.read <=> Last' # None
        /\ sinceSys'.read => Follows(Last', procs', clock', sinceSys')
    BY <1>1, <2>1, <2>3, <2>4 DEF SinceOK
  <2>6. QED
    BY <2>4, <2>5 DEF SinceOK, InTime, Follows, IsSnapshot
<1>3. CASE ReadSysinfo
  <2>1. /\ si' = [ts |-> clock, procs |-> procs] /\ pc' = "system"
        /\ sinceSys' = SysTime(TRUE) /\ UNCHANGED <<procs, clock>>
    BY <1>3 DEF ReadSysinfo, machine
  <2>2. IsSnapshot(si') /\ si' # None
    BY <1>1, <2>1, NoneAssumption DEF TypeOK, IsTable, IsSnapshot
  <2>3. Last' = si'
    BY <2>1 DEF Last, Reading
  <2>4. /\ sinceSys'.read /\ sinceSys'.renewed = {} /\ sinceSys'.elapsed = 0
        /\ \A p \in Pid : sinceSys'.used[p] = 0
    BY <2>1 DEF SysTime
  <2>5. /\ DOMAIN procs \subseteq Pid /\ clock \in Nat
        /\ \A p \in DOMAIN procs : procs[p].cpu \in Nat
    BY <1>1 DEF TypeOK, IsTable, Process
  <2>6. si'.procs = procs /\ si'.ts = clock
    BY <2>1
  <2>7. \A p \in DOMAIN procs : procs[p].cpu = si'.procs[p].cpu + sinceSys'.used[p]
    <3> TAKE p \in DOMAIN procs
    <3>1. sinceSys'.used[p] = 0 /\ si'.procs[p].cpu = procs[p].cpu /\ procs[p].cpu \in Nat
      BY <2>4, <2>5, <2>6
    <3>2. QED
      BY <3>1
  <2>8. clock' = si'.ts + sinceSys'.elapsed
    <3>1. clock = clock + 0
      BY <2>5
    <3>2. clock' = clock
      BY <2>1
    <3>3. QED
      BY <2>4, <2>6, <3>1, <3>2, Zenon
  <2>9. procs' = procs /\ DOMAIN si'.procs = DOMAIN procs /\ sinceSys'.renewed = {}
    BY <2>1, <2>4, <2>6
  <2>10. Follows(si', procs', clock', sinceSys')
    BY <2>7, <2>8, <2>9 DEF Follows
  <2>11. InTime(sinceSys')
    BY <2>4 DEF InTime
  <2>12. QED
    BY <2>2, <2>3, <2>4, <2>10, <2>11 DEF SinceOK, InTime, Follows, IsSnapshot
<1>4. ASSUME UNCHANGED <<procs, clock, sinceSys>>, Last' = Last,
             pc' \in Reading => pc \in Reading /\ si' = si
      PROVE  SinceOK'
  <2>1. /\ pc' \in Reading => IsSnapshot(si')
        /\ sinceSys'.read <=> Last' # None
        /\ sinceSys'.read => Follows(Last', procs', clock', sinceSys')
        /\ InTime(sinceSys')
    BY <1>1, <1>4 DEF SinceOK
  <2>2. QED
    BY <2>1 DEF SinceOK, InTime, Follows, IsSnapshot
<1>5. CASE \/ ReadSysinfoFails \/ InsertSystemMetrics
           \/ InsertProcessMetricsBulk \/ InsertProcessMetricsFails
  <2>1. UNCHANGED <<procs, clock, sinceSys, si, prevSys>>
    BY <1>5, Zenon
       DEF ReadSysinfoFails, InsertSystemMetrics, InsertProcessMetricsBulk,
           InsertProcessMetricsFails, machine, ofSys, since
  <2>2. \/ pc = "sysinfo" /\ pc' = "continfo"
        \/ pc = "system" /\ pc' = "procs"
        \/ pc = "procs" /\ pc' = "states"
    BY <1>5, Zenon
       DEF ReadSysinfoFails, InsertSystemMetrics, InsertProcessMetricsBulk,
           InsertProcessMetricsFails
  <2>3. Last' = Last /\ (pc' \in Reading => pc \in Reading)
    BY <2>1, <2>2 DEF Last, Reading
  <2>4. QED
    BY <1>4, <2>1, <2>3
<1>6. CASE InsertProcessStateSummary \/ InsertProcessStateFails
  <2>1. KeepSys
    BY <1>6 DEF InsertProcessStateSummary, InsertProcessStateFails
  <2>2. /\ UNCHANGED <<procs, clock, sinceSys>> /\ prevSys' = si
        /\ pc = "states" /\ pc' = "continfo"
    BY <2>1 DEF KeepSys, machine, since
  <2>3. Last' = Last /\ pc' \notin Reading
    BY <2>2 DEF Last, Reading
  <2>4. QED
    BY <1>4, <2>2, <2>3
<1>7. CASE \/ ReadContInfo \/ ReadContInfoFails \/ EndTurn
           \/ InsertContainerMetricsBulk \/ InsertContainerMetricsFails
  <2>1. UNCHANGED <<procs, clock, sinceSys, prevSys>>
    BY <1>7, Zenon
       DEF ReadContInfo, ReadContInfoFails, InsertContainerMetricsBulk, KeepCont,
           InsertContainerMetricsFails, EndTurn, machine, ofSys, since
  <2>2. /\ pc \in {"continfo", "conts", "rules"}
        /\ pc' \in {"conts", "rules", "sysinfo"}
    BY <1>7 DEF ReadContInfo, ReadContInfoFails, InsertContainerMetricsBulk, KeepCont,
                InsertContainerMetricsFails, EndTurn
  <2>3. Last' = Last /\ pc' \notin Reading
    BY <2>1, <2>2 DEF Last, Reading
  <2>4. QED
    BY <1>4, <2>1, <2>3
<1>8. CASE Restart
  <2>1. /\ pc' = "sysinfo" /\ prevSys' = None /\ sinceSys' = SysTime(FALSE)
    BY <1>8 DEF Restart
  <2>2. Last' = None /\ pc' \notin Reading
    BY <2>1 DEF Last, Reading
  <2>3. ~sinceSys'.read /\ InTime(sinceSys')
    BY <2>1 DEF SysTime, InTime
  <2>4. QED
    BY <2>2, <2>3 DEF SinceOK, InTime
<1>9. QED
  BY <1>2, <1>3, <1>5, <1>6, <1>7, <1>8 DEF Next, Turn

-----------------------------------------------------------------------------
(* The interval compared, and the rows.                                    *)

\* OverOK and the two properties of the rows.
Rows == OverOK /\ ProcShareIsOfInterval /\ BusyProcHasShare

\* They depend on nothing else.
LEMMA RowsKept ==
    ASSUME Rows, UNCHANGED <<overSys, prevSys, si>>, recorded'.procs = recorded.procs,
           pc' \in {"system", "procs"} => pc \in {"system", "procs"},
           pc \in {"states", "continfo", "conts", "rules"} =>
              pc' \in {"states", "continfo", "conts", "rules"}
    PROVE  Rows'
<1>1. OverOK'
  <2>1. /\ pc' \in {"system", "procs"} =>
              /\ overSys' \in SysInterval /\ InTime(overSys')
              /\ overSys'.read <=> prevSys' # None
              /\ overSys'.read => Follows(prevSys', si'.procs, si'.ts, overSys')
        /\ recorded'.procs # None =>
              pc' \in {"states", "continfo", "conts", "rules"} /\ overSys' \in SysInterval
    BY DEF Rows, OverOK
  <2>2. QED
    BY <2>1 DEF OverOK, InTime, Follows, SysInterval
<1>2. ProcShareIsOfInterval' /\ BusyProcHasShare'
  BY DEF Rows, ProcShareIsOfInterval, BusyProcHasShare
<1>3. QED
  BY <1>1, <1>2 DEF Rows

\* Where nothing is written, nothing is compared either.
LEMMA RowsOfNothing ==
    ASSUME recorded'.procs = None, pc' \notin {"system", "procs"}
    PROVE  Rows'
  BY DEF Rows, OverOK, ProcShareIsOfInterval, BusyProcHasShare

LEMMA RowsStep ==
    ASSUME IInv, Next
    PROVE  Rows'
<1>1. TypeOK /\ SinceOK /\ Rows
  BY DEF IInv, Rows
<1> USE DEF ofSys, ofCont
<1>2. CASE Machine
  BY <1>1, <1>2, RowsKept DEF Machine, Tick, SetClock, Start, Exec, End, Reap
<1>3. CASE ReadSysinfo
  <2>1. /\ pc = "sysinfo" /\ pc' = "system" /\ overSys' = sinceSys
        /\ si' = [ts |-> clock, procs |-> procs] /\ UNCHANGED <<prevSys, recorded>>
    BY <1>3 DEF ReadSysinfo
  <2>2. recorded'.procs = None
    BY <1>1, <2>1 DEF Rows, OverOK
  <2>3. Last = prevSys
    BY <2>1 DEF Last, Reading
  <2>4. si'.procs = procs /\ si'.ts = clock
    BY <2>1
  <2>5. /\ overSys' \in SysInterval /\ InTime(overSys')
        /\ overSys'.read <=> prevSys' # None
        /\ overSys'.read => Follows(prevSys', si'.procs, si'.ts, overSys')
    BY <1>1, <2>1, <2>3, <2>4 DEF SinceOK, TypeOK
  <2>6. OverOK'
    BY <2>2, <2>5 DEF OverOK, InTime, Follows, SysInterval
  <2>7. QED
    BY <2>2, <2>6 DEF Rows, ProcShareIsOfInterval, BusyProcHasShare
<1>4. CASE \/ ReadSysinfoFails \/ InsertSystemMetrics \/ InsertProcessMetricsFails
           \/ ReadContInfo \/ ReadContInfoFails
  <2>1. UNCHANGED <<overSys, prevSys, si, recorded>>
    BY <1>4 DEF ReadSysinfoFails, InsertSystemMetrics, InsertProcessMetricsFails,
                ReadContInfo, ReadContInfoFails
  <2>2. \/ pc = "sysinfo" /\ pc' = "continfo"
        \/ pc = "system" /\ pc' = "procs"
        \/ pc = "procs" /\ pc' = "states"
        \/ pc = "continfo" /\ pc' \in {"conts", "rules"}
    BY <1>4 DEF ReadSysinfoFails, InsertSystemMetrics, InsertProcessMetricsFails,
                ReadContInfo, ReadContInfoFails
  <2>3. QED
    BY <1>1, <2>1, <2>2, RowsKept
<1>5. CASE InsertProcessMetricsBulk
  <2> DEFINE rows == ProcRows(si, CpuPctProc)
  <2>1. /\ pc = "procs" /\ pc' = "states" /\ UNCHANGED overSys
        /\ recorded' = [recorded EXCEPT !.procs = rows]
    BY <1>5 DEF InsertProcessMetricsBulk
  <2>2. /\ AreRows(rows)
        /\ \A p \in DOMAIN rows : rows[p] # None =>
              /\ overSys.read
              /\ rows[p].used <= overSys.used[p]
              /\ p \notin overSys.renewed => rows[p].used = overSys.used[p]
              /\ ~overSys.set => rows[p].of = HZ * overSys.elapsed * NumCPUs
        /\ overSys.read /\ ~overSys.set =>
              \A p \in DOMAIN rows \ overSys.renewed :
                 overSys.used[p] > 0 => rows[p] # None
    BY <2>1, RowsLemma
  <2>3. overSys' \in SysInterval
    BY <1>1, <2>1 DEF Rows, OverOK
  <2>4. recorded'.procs = rows \/ recorded'.procs = recorded.procs
    BY <2>1
  <2> HIDE DEF rows
  <2>5. recorded.procs = None
    BY <1>1, <2>1 DEF Rows, OverOK
  <2>6. CASE recorded'.procs = rows
    <3>1. OverOK'
      BY <2>1, <2>3 DEF OverOK, SysInterval
    <3>2. ProcShareIsOfInterval' /\ BusyProcHasShare'
      BY <2>1, <2>2, <2>6 DEF ProcShareIsOfInterval, BusyProcHasShare
    <3>3. QED
      BY <3>1, <3>2 DEF Rows
  <2>7. CASE recorded'.procs = recorded.procs
    BY <2>1, <2>5, <2>7, RowsOfNothing
  <2>8. QED
    BY <2>4, <2>6, <2>7
<1>6. ASSUME UNCHANGED overSys, recorded'.procs = recorded.procs,
             pc \in {"states", "conts"}, pc' \in {"continfo", "rules"}
      PROVE  Rows'
  <2>1. OverOK'
    BY <1>1, <1>6 DEF Rows, OverOK, SysInterval
  <2>2. ProcShareIsOfInterval' /\ BusyProcHasShare'
    BY <1>1, <1>6 DEF Rows, ProcShareIsOfInterval, BusyProcHasShare
  <2>3. QED
    BY <2>1, <2>2 DEF Rows
<1>7. CASE InsertProcessStateSummary \/ InsertProcessStateFails
  <2>1. KeepSys
    BY <1>7 DEF InsertProcessStateSummary, InsertProcessStateFails
  <2>2. InsertProcessStateSummary => recorded'.procs = recorded.procs
    BY DEF InsertProcessStateSummary
  <2>3. recorded'.procs = recorded.procs
    BY <1>7, <2>2 DEF InsertProcessStateFails
  <2>4. QED
    BY <1>6, <2>1, <2>3 DEF KeepSys
<1>8. CASE InsertContainerMetricsBulk \/ InsertContainerMetricsFails
  <2>1. KeepCont
    BY <1>8 DEF InsertContainerMetricsBulk, InsertContainerMetricsFails
  <2>2. InsertContainerMetricsBulk => recorded'.procs = recorded.procs
    BY DEF InsertContainerMetricsBulk
  <2>3. recorded'.procs = recorded.procs
    BY <1>8, <2>2 DEF InsertContainerMetricsFails
  <2>4. QED
    BY <1>6, <2>1, <2>3 DEF KeepCont
<1>9. CASE EndTurn \/ Restart
  <2>1. recorded' = Nothing /\ pc' = "sysinfo"
    BY <1>9 DEF EndTurn, Restart
  <2>2. recorded'.procs = None
    BY <2>1 DEF Nothing
  <2>3. QED
    BY <2>1, <2>2, RowsOfNothing
<1>10. QED
  BY <1>2, <1>3, <1>4, <1>5, <1>7, <1>8, <1>9 DEF Next, Turn

-----------------------------------------------------------------------------
(* The theorems.                                                           *)

LEMMA Inductive == Spec => []IInv
<1>1. Init => IInv
  <2> SUFFICES ASSUME Init PROVE IInv
    OBVIOUS
  <2>1. TypeOK
    BY TypeInit
  <2>2. /\ pc = "sysinfo" /\ prevSys = None /\ Last = None
        /\ sinceSys = SysTime(FALSE) /\ recorded.procs = None
    BY DEF Init, Nothing, Last, Reading
  <2>3. SinceOK
    BY <2>2 DEF SinceOK, SysTime, InTime, Reading
  <2>4. OverOK /\ ProcShareIsOfInterval /\ BusyProcHasShare
    BY <2>2 DEF OverOK, ProcShareIsOfInterval, BusyProcHasShare
  <2>5. QED
    BY <2>1, <2>3, <2>4 DEF IInv
<1>2. IInv /\ [Next]_vars => IInv'
  <2> SUFFICES ASSUME IInv, [Next]_vars PROVE IInv'
    OBVIOUS
  <2>1. CASE Next
    BY <2>1, TypeStep, SinceStep, RowsStep DEF IInv, Rows
  <2>2. CASE UNCHANGED vars
    <3>1. UNCHANGED <<procs, clock, pc, si, prevSys, overSys, snap, prevCont, overCont, recorded,
                      seconds, changes, mishaps, sinceSys, sinceCont>>
      BY <2>2 DEF vars, machine, ofSys, ofCont, bounds, since
    <3>2. TypeOK'
      BY <3>1 DEF IInv, TypeOK, IsTable
    <3>3. SinceOK'
      BY <3>1 DEF IInv, SinceOK, Last, Follows, InTime, IsSnapshot
    <3>4. Rows'
      BY <3>1, RowsKept DEF IInv, Rows
    <3>5. QED
      BY <3>2, <3>3, <3>4 DEF IInv, Rows
  <2>3. QED
    BY <2>1, <2>2
<1>3. QED
  BY <1>1, <1>2, PTL DEF Spec

\* The types, with every percentage of a process over a positive time.
THEOREM TypeCorrect == Spec => []TypeOK
  BY Inductive, PTL DEF IInv

\* Whatever is recorded of a pid is of the CPU time used under it between the last two
\* reads (src/Daemon/main.go:189-205), for any reads and inserts that fail between.
THEOREM ProcSharesAreOfInterval == Spec => []ProcShareIsOfInterval
  BY Inductive, PTL DEF IInv

\* And nothing that has used the CPU is recorded without a percentage.
THEOREM BusyProcsHaveShares == Spec => []BusyProcHasShare
  BY Inductive, PTL DEF IInv

-----------------------------------------------------------------------------
(* What is recorded as a percentage.                                       *)

\* No process has more than one CPU at a time.
InUse(i) == \A p \in Pid : i.used[p] <= Second * i.elapsed

\* Shares are computed of overSys, or have been.
Comparing == pc \in {"system", "procs"} \/ recorded.procs # None

UseOK == InUse(sinceSys) /\ (Comparing => InUse(overSys))

LEMMA Times ==
    ASSUME NEW a \in Nat, NEW b \in Nat, a <= b, NEW c \in Nat
    PROVE  a * c \in Nat /\ b * c \in Nat /\ a * c <= b * c
  OBVIOUS

LEMMA NothingInUse == \A read \in BOOLEAN : InUse(SysTime(read))
<1>1. Second * 0 = 0
  BY UnitsAssumption
<1>2. QED
  BY <1>1 DEF InUse, SysTime

LEMMA UseStep ==
    ASSUME TypeOK, UseOK, Next
    PROVE  UseOK'
<1>1. /\ sinceSys \in SysInterval /\ sinceSys.elapsed \in Nat /\ Second \in Nat
      /\ \A p \in Pid : sinceSys.used[p] \in Nat
  BY UnitsAssumption DEF TypeOK, SysInterval
<1>2. ASSUME NEW busy \in SUBSET Running, Tick(busy)
      PROVE  UseOK'
  <2> DEFINE used == [p \in Pid |-> sinceSys.used[p] + IF p \in busy THEN Second ELSE 0]
  <2>1. /\ sinceSys' = [sinceSys EXCEPT !.elapsed = @ + 1, !.used = used]
        /\ overSys' = overSys /\ Comparing' = Comparing
    BY <1>2 DEF Tick, ofSys, Comparing
  <2>2. \A p \in Pid : used[p] = sinceSys.used[p] + IF p \in busy THEN Second ELSE 0
    OBVIOUS
  <2> HIDE DEF used
  <2>3. sinceSys'.elapsed = sinceSys.elapsed + 1 /\ sinceSys'.used = used
    <3>1. sinceSys' = [read |-> sinceSys.read, used |-> used, elapsed |-> sinceSys.elapsed + 1,
                       set |-> sinceSys.set, renewed |-> sinceSys.renewed]
      BY <1>1, <2>1 DEF SysInterval
    <3>2. QED
      BY <3>1
  <2>4. /\ Second * (sinceSys.elapsed + 1) = Second * sinceSys.elapsed + Second
        /\ Second * sinceSys.elapsed \in Nat
    BY <1>1
  <2> DEFINE most == Second * sinceSys.elapsed
  <2> HIDE DEF most
  <2>5. most \in Nat /\ Second * sinceSys'.elapsed = most + Second
    BY <2>3, <2>4 DEF most
  <2>6. \A p \in Pid : sinceSys.used[p] <= most
    BY DEF UseOK, InUse, most
  <2>7. \A p \in Pid : sinceSys'.used[p] <= most + Second
    BY <1>1, <2>2, <2>3, <2>5, <2>6
  <2>8. QED
    BY <2>1, <2>5, <2>7 DEF UseOK, InUse
<1>3. ASSUME sinceSys'.used = sinceSys.used, sinceSys'.elapsed = sinceSys.elapsed,
             Comparing' => Comparing /\ overSys' = overSys
      PROVE  UseOK'
  BY <1>3 DEF UseOK, InUse
<1>4. ASSUME NEW t \in 0..MaxTime, SetClock(t)
      PROVE  UseOK'
  BY <1>1, <1>3, <1>4 DEF SetClock, SysInterval, ofSys, Comparing
<1>5. ASSUME NEW p \in Pid, NEW g \in Program, Start(p, g)
      PROVE  UseOK'
  BY <1>1, <1>3, <1>5 DEF Start, SysInterval, ofSys, Comparing
<1>6. ASSUME NEW p \in Pid, End(p) \/ Reap(p) \/ \E g \in Program : Exec(p, g)
      PROVE  UseOK'
  BY <1>3, <1>6 DEF End, Reap, Exec, since, ofSys, Comparing
<1>7. Machine => UseOK'
  BY <1>2, <1>4, <1>5, <1>6 DEF Machine
<1>8. \A read \in BOOLEAN : InUse(SysTime(read))
  BY NothingInUse
<1>9. CASE ReadSysinfo
  <2>1. overSys' = sinceSys /\ sinceSys' = SysTime(TRUE)
    BY <1>9 DEF ReadSysinfo
  <2>2. InUse(SysTime(TRUE)) /\ InUse(sinceSys)
    BY <1>8 DEF UseOK
  <2>3. QED
    BY <2>1, <2>2 DEF UseOK, InUse
<1>10. CASE EndTurn \/ Restart
  <2>1. recorded' = Nothing /\ pc' = "sysinfo" /\ sinceSys' \in {sinceSys, SysTime(FALSE)}
    BY <1>10 DEF EndTurn, Restart, since
  <2>2. ~Comparing'
    BY <2>1 DEF Comparing, Nothing
  <2>3. InUse(sinceSys')
    BY <1>8, <2>1 DEF UseOK
  <2>4. QED
    BY <2>2, <2>3 DEF UseOK
<1>11. CASE InsertSystemMetrics \/ InsertProcessMetricsBulk \/ InsertProcessMetricsFails
  <2>1. Comparing /\ UNCHANGED <<overSys, sinceSys>>
    BY <1>11 DEF InsertSystemMetrics, InsertProcessMetricsBulk, InsertProcessMetricsFails,
                 Comparing, ofSys, since
  <2>2. QED
    BY <1>3, <2>1
<1>12. ASSUME recorded'.procs = recorded.procs, pc' \notin {"system", "procs"},
              UNCHANGED <<overSys, sinceSys>>
       PROVE  UseOK'
  BY <1>3, <1>12 DEF Comparing
<1>13. CASE \/ ReadSysinfoFails \/ InsertProcessStateFails
            \/ ReadContInfo \/ ReadContInfoFails \/ InsertContainerMetricsFails
  BY <1>12, <1>13 DEF ReadSysinfoFails, InsertProcessStateFails, KeepSys, ReadContInfo,
                      ReadContInfoFails, InsertContainerMetricsFails, KeepCont, ofSys, since
<1>14. CASE InsertProcessStateSummary
  <2>1. recorded'.procs = recorded.procs
    BY <1>14 DEF InsertProcessStateSummary
  <2>2. QED
    BY <1>12, <1>14, <2>1 DEF InsertProcessStateSummary, KeepSys, since
<1>15. CASE InsertContainerMetricsBulk
  <2>1. recorded'.procs = recorded.procs
    BY <1>15 DEF InsertContainerMetricsBulk
  <2>2. QED
    BY <1>12, <1>15, <2>1 DEF InsertContainerMetricsBulk, KeepCont, ofSys, since
<1>16. QED
  BY <1>7, <1>9, <1>10, <1>11, <1>13, <1>14, <1>15 DEF Next, Turn

LEMMA Cancel ==
    ASSUME NEW a \in Nat \ {0}, NEW x \in Nat, NEW y \in Nat, a * x <= a * y
    PROVE  x <= y
<1> SUFFICES ASSUME y + 1 <= x PROVE FALSE
  OBVIOUS
<1>1. (y + 1) * a <= x * a
  BY Times
<1>2. (y + 1) * a = a * y + a /\ x * a = a * x /\ a * y \in Nat
  OBVIOUS
<1> DEFINE most == a * y
           least == a * x
<1> HIDE DEF most, least
<1>3. most \in Nat /\ most + a <= least /\ least <= most
  BY <1>1, <1>2 DEF most, least
<1>4. QED
  BY <1>3

\* A share of the time of an interval is of no more than one CPU could give in it.
LEMMA ShareFits ==
    ASSUME TypeOK, ProcShareIsOfInterval, UseOK, OverOK
    PROVE  ProcShareIsOfOneCPU
<1> SUFFICES ASSUME recorded.procs # None, ~overSys.set,
                    NEW p \in DOMAIN recorded.procs, recorded.procs[p] # None
             PROVE  HZ * NumCPUs * recorded.procs[p].used <= Second * recorded.procs[p].of
  BY DEF ProcShareIsOfOneCPU
<1> DEFINE share == recorded.procs[p]
           e == overSys.elapsed
           all == HZ * NumCPUs
<1>1. p \in Pid /\ share \in Share /\ share.used \in Nat
  BY DEF TypeOK, AreRows, Share
<1>2. overSys \in SysInterval /\ Comparing
  BY DEF OverOK, Comparing
<1>3. e \in Nat /\ overSys.used[p] \in Nat
  BY <1>1, <1>2 DEF SysInterval
<1>4. share.used <= overSys.used[p] /\ share.of = HZ * e * NumCPUs
  BY DEF ProcShareIsOfInterval
<1>5. overSys.used[p] <= Second * e
  BY <1>1, <1>2 DEF UseOK, InUse
<1> HIDE DEF share, e
<1>6. Second * e \in Nat /\ all \in Nat
  BY <1>3, UnitsAssumption
<1>7. share.used <= Second * e
  BY <1>1, <1>3, <1>4, <1>5, <1>6
<1> HIDE DEF all
<1>8. share.used * all <= (Second * e) * all
  BY <1>1, <1>6, <1>7, Times
<1>9. all * share.used = share.used * all
  BY <1>1, <1>6
<1>10. (Second * e) * all = Second * share.of
  BY <1>3, <1>4, UnitsAssumption DEF all
<1>11. all * share.used <= Second * share.of
  BY <1>8, <1>9, <1>10
<1>12. QED
  BY <1>11 DEF share, all

\* What is recorded of a process is a share of what one CPU could do in the interval
\* (src/Daemon/insert_system.go:200-210), too large by Second / HZ if the two units differ
\* and by nothing else: whatever processes, failures and restarts there are.
THEOREM ProcSharesOfOneCPU == Spec => []ProcShareIsOfOneCPU
<1>1. Init => UseOK
  <2> SUFFICES ASSUME Init PROVE UseOK
    OBVIOUS
  <2>1. /\ sinceSys = SysTime(FALSE) /\ ~Comparing
    BY DEF Init, Comparing, Nothing
  <2>2. InUse(sinceSys)
    BY <2>1, NothingInUse
  <2>3. QED
    BY <2>1, <2>2 DEF UseOK
<1>2. TypeOK /\ UseOK /\ [Next]_vars => UseOK'
  <2> SUFFICES ASSUME TypeOK, UseOK, [Next]_vars PROVE UseOK'
    OBVIOUS
  <2>1. CASE Next
    BY <2>1, UseStep
  <2>2. CASE UNCHANGED vars
    BY <2>2 DEF vars, ofSys, since, UseOK, InUse, Comparing
  <2>3. QED
    BY <2>1, <2>2
<1>3. Spec => []UseOK
  BY <1>1, <1>2, TypeCorrect, PTL DEF Spec
<1>4. IInv /\ UseOK => ProcShareIsOfOneCPU
  BY ShareFits DEF IInv
<1>5. QED
  BY <1>3, <1>4, Inductive, PTL

\* It would be a percentage if utime counted no more than HZ in a second, as the code
\* supposes (src/Daemon/main.go:190): nothing but the unit is wrong.
COROLLARY PercentagesOfTheRightUnit ==
    ASSUME Second <= HZ
    PROVE  Spec => []ProcShareIsPercentage
<1>1. TypeOK /\ ProcShareIsOfOneCPU => ProcShareIsPercentage
  <2> SUFFICES ASSUME TypeOK, ProcShareIsOfOneCPU, recorded.procs # None, ~overSys.set,
                      NEW p \in DOMAIN recorded.procs, recorded.procs[p] # None
               PROVE  recorded.procs[p].used <= recorded.procs[p].of
    BY DEF ProcShareIsPercentage
  <2> DEFINE share == recorded.procs[p]
             used == share.used
             of == share.of
  <2>1. share \in Share /\ used \in Nat /\ of \in Nat
    BY DEF TypeOK, AreRows, Share
  <2>2. HZ * NumCPUs * used <= Second * of
    BY DEF ProcShareIsOfOneCPU
  <2> HIDE DEF share, used, of
  <2>3. HZ * NumCPUs * used = (HZ * used) * NumCPUs /\ HZ * used \in Nat
    BY <2>1, UnitsAssumption
  <2>4. HZ * used <= (HZ * used) * NumCPUs
    <3> DEFINE least == HZ * used
    <3>1. least \in Nat
      BY <2>3
    <3> HIDE DEF least
    <3>2. least <= least * NumCPUs
      BY <3>1, UnitsAssumption
    <3>3. QED
      BY <3>2 DEF least
  <2>5. Second * of \in Nat /\ HZ * of \in Nat /\ Second * of <= HZ * of
    BY <2>1, UnitsAssumption, Times
  <2>6. (HZ * used) * NumCPUs \in Nat
    BY <2>3, UnitsAssumption
  <2>7. HZ * used <= HZ * of
    BY <2>2, <2>3, <2>4, <2>5, <2>6
  <2>8. used <= of
    BY <2>1, <2>7, UnitsAssumption, Cancel
  <2>9. QED
    BY <2>8 DEF used, of, share
<1>2. QED
  BY <1>1, ProcSharesOfOneCPU, TypeCorrect, PTL

=============================================================================
