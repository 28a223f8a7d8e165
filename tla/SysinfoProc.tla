---------------------------- MODULE SysinfoProc ----------------------------
(***************************************************************************)
(* The CPU percentage of /proc/sysinfo_so1_201801521, src/kernel/          *)
(* sysinfo_so1_201801521.c.  The module keeps the counters of the last run *)
(* of its show function in two globals that nothing protects: each run     *)
(* reports the share of busy ticks since the counters it finds there, and  *)
(* leaves its own.  Every open file has its own seq_file, so that readers  *)
(* run show at the same time; and seq_file runs it once more, with a       *)
(* larger buffer, when the output did not fit.                             *)
(***************************************************************************)
EXTENDS Integers, FiniteSets

CONSTANTS
    Reader,     \* those who have the file open: the daemon, a person with cat
    Torn,       \* for the globals: of no single sample
    Word,       \* 2^w, w the width of unsigned long
    MaxTicks,   \* bound: ticks of the CPU
    MaxFaults,  \* bound: failures to read /proc/stat
    MaxRetries  \* bound: runs of show that do not fit, in one read

ASSUME BoundsAssumption ==
    MaxTicks \in Nat /\ MaxFaults \in Nat /\ MaxRetries \in Nat
ASSUME WordAssumption == Word \in Nat /\ 1000 * MaxTicks < Word

Counter == {"idle", "total"}
Sample == [Counter -> 0..MaxTicks]

ASSUME TornAssumption == Torn \notin Sample

VARIABLES
    stat,       \* /proc/stat: idle ticks and all ticks since boot
    prev,       \* prev_idle and prev_total
    pc,         \* pc[r]: where the run of show is
    todo,       \* todo[r]: the counters of prev still to be loaded, or stored
    sample,     \* sample[r]: what the run read of /proc/stat
    diff,       \* diff[r]: diff_idle and diff_total
    pct,        \* pct[r]: usage_percent
    retries,    \* retries[r]: how often the buffer was too small
    faults,
    \* history
    disturbed,  \* readers whose run used the globals while another one did
    base,       \* the sample of the last run to store, or Torn if it was disturbed
    from,       \* from[r]: the base its run began with
    measured    \* ticks that were in the interval of some run

globals == <<stat, prev>>
history == <<disturbed, base, from, measured>>
vars == <<globals, pc, todo, sample, diff, pct, retries, faults, history>>

Zero == [v \in Counter |-> 0]

Init ==
    /\ stat = Zero /\ prev = Zero
    /\ pc = [r \in Reader |-> "closed"] /\ todo = [r \in Reader |-> {}]
    /\ sample = [r \in Reader |-> Zero] /\ diff = [r \in Reader |-> Zero]
    /\ pct = [r \in Reader |-> 0] /\ retries = [r \in Reader |-> 0] /\ faults = 0
    /\ disturbed = {} /\ base = Zero /\ from = [r \in Reader |-> Zero] /\ measured = {}

-----------------------------------------------------------------------------
(* The machine.                                                            *)

\* A tick of the CPU, busy or idle.
Tick ==
    /\ stat["total"] < MaxTicks
    /\ \E idle \in {0, 1} :
          stat' = [total |-> stat["total"] + 1, idle |-> stat["idle"] + idle]
    /\ UNCHANGED <<prev, pc, todo, sample, diff, pct, retries, faults, history>>

Open(r) ==
    /\ pc[r] = "closed"
    /\ pc' = [pc EXCEPT ![r] = "show"]
    /\ UNCHANGED <<globals, todo, sample, diff, pct, retries, faults, history>>

-----------------------------------------------------------------------------
(* get_cpu_usage.                                                          *)

UsingGlobals == {r \in Reader : pc[r] \in {"load", "store"}}

\* /proc/stat is opened, read and closed.
ReadStat(r) ==
    /\ pc[r] = "show"
    /\ sample' = [sample EXCEPT ![r] = stat]
    /\ pc' = [pc EXCEPT ![r] = "load"] /\ todo' = [todo EXCEPT ![r] = Counter]
    /\ from' = [from EXCEPT ![r] = base]
    /\ disturbed' = IF UsingGlobals = {} THEN disturbed \ {r}
                                         ELSE disturbed \cup UsingGlobals \cup {r}
    /\ UNCHANGED <<globals, diff, pct, retries, faults, base, measured>>

\* No memory, no file, nothing read or not eight numbers: it stays 0,
\* and the globals as they were.
ReadStatFails(r) ==
    /\ pc[r] = "show" /\ faults < MaxFaults
    /\ faults' = faults + 1
    /\ pc' = [pc EXCEPT ![r] = "output"]
    /\ UNCHANGED <<globals, todo, sample, diff, pct, retries, history>>

\* Slip: truncated, not rounded.
PercentTruncated(d) ==
    IF d["total"] = 0 THEN 0
    ELSE (((1000 * ((d["total"] - d["idle"]) % Word)) % Word) \div d["total"]) \div 10

\* (1000 * (diff_total - diff_idle) / diff_total + 5) / 10, on unsigned words.
Percent(d) ==
    IF d["total"] = 0 THEN 0
    ELSE (((1000 * ((d["total"] - d["idle"]) % Word)) % Word) \div d["total"] + 5) \div 10

\* A load of prev_idle or prev_total; in which order is the compiler's choice, as
\* nothing marks the accesses.  With both differences there is a percentage.
Load(r, v) ==
    /\ pc[r] = "load" /\ v \in todo[r]
    /\ diff' = [diff EXCEPT ![r][v] = (sample[r][v] - prev[v]) % Word]
    /\ IF todo[r] = {v}
       THEN /\ pc' = [pc EXCEPT ![r] = "store"] /\ todo' = [todo EXCEPT ![r] = Counter]
            /\ pct' = [pct EXCEPT ![r] = Percent(diff'[r])]
       ELSE todo' = [todo EXCEPT ![r] = @ \ {v}] /\ UNCHANGED <<pc, pct>>
    /\ measured' = IF v = "total" THEN measured \cup ((prev[v] + 1)..sample[r][v]) ELSE measured
    /\ UNCHANGED <<globals, sample, retries, faults, disturbed, base, from>>

\* Slip: what is stored are the counters of now.
StoreOfNow(r, v) ==
    /\ pc[r] = "store" /\ v \in todo[r]
    /\ prev' = [prev EXCEPT ![v] = stat[v]]
    /\ todo' = [todo EXCEPT ![r] = @ \ {v}]
    /\ IF todo[r] = {v}
       THEN /\ pc' = [pc EXCEPT ![r] = "output"]
            /\ base' = IF r \in disturbed THEN Torn ELSE sample[r]
       ELSE UNCHANGED <<pc, base>>
    /\ UNCHANGED <<stat, sample, diff, pct, retries, faults, disturbed, from, measured>>

\* Slip: the globals are advanced by the differences.
StoreAdding(r, v) ==
    /\ pc[r] = "store" /\ v \in todo[r]
    /\ prev' = [prev EXCEPT ![v] = (@ + diff[r][v]) % Word]
    /\ todo' = [todo EXCEPT ![r] = @ \ {v}]
    /\ IF todo[r] = {v}
       THEN /\ pc' = [pc EXCEPT ![r] = "output"]
            /\ base' = IF r \in disturbed THEN Torn ELSE sample[r]
       ELSE UNCHANGED <<pc, base>>
    /\ UNCHANGED <<stat, sample, diff, pct, retries, faults, disturbed, from, measured>>

\* prev_idle = total_idle, prev_total = total, in either order.
Store(r, v) ==
    /\ pc[r] = "store" /\ v \in todo[r]
    /\ prev' = [prev EXCEPT ![v] = sample[r][v]]
    /\ todo' = [todo EXCEPT ![r] = @ \ {v}]
    /\ IF todo[r] = {v}
       THEN /\ pc' = [pc EXCEPT ![r] = "output"]
            /\ base' = IF r \in disturbed THEN Torn ELSE sample[r]
       ELSE UNCHANGED <<pc, base>>
    /\ UNCHANGED <<stat, sample, diff, pct, retries, faults, disturbed, from, measured>>

-----------------------------------------------------------------------------
(* seq_file.                                                               *)

\* show returns: its variables are no more.
Return(r) ==
    /\ pc[r] = "output"
    /\ sample' = [sample EXCEPT ![r] = Zero] /\ diff' = [diff EXCEPT ![r] = Zero]
    /\ pct' = [pct EXCEPT ![r] = 0] /\ from' = [from EXCEPT ![r] = Zero]
    /\ disturbed' = disturbed \ {r}
    /\ UNCHANGED <<globals, todo, faults, base, measured>>

\* The rest of show has overflowed the buffer: show runs again with a larger one.
Retry(r) ==
    /\ Return(r) /\ retries[r] < MaxRetries
    /\ retries' = [retries EXCEPT ![r] = @ + 1]
    /\ pc' = [pc EXCEPT ![r] = "show"]

\* The output fits, and is what the reader gets.
Close(r) ==
    /\ Return(r)
    /\ retries' = [retries EXCEPT ![r] = 0]
    /\ pc' = [pc EXCEPT ![r] = "closed"]

Run(r) ==
    \/ Open(r) \/ ReadStat(r) \/ ReadStatFails(r)
    \/ \E v \in Counter : Load(r, v) \/ Store(r, v)
    \/ Retry(r) \/ Close(r)

Next == Tick \/ \E r \in Reader : Run(r)

Spec == Init /\ [][Next]_vars

-----------------------------------------------------------------------------
(* Properties.                                                             *)

\* The variables have their types, and the globals hold samples, not wrapped values.
TypeOK ==
    /\ stat \in Sample /\ prev \in Sample
    /\ pc \in [Reader -> {"closed", "show", "load", "store", "output"}]
    /\ todo \in [Reader -> SUBSET Counter] /\ sample \in [Reader -> Sample]
    /\ diff \in [Reader -> [Counter -> 0..(Word - 1)]] /\ pct \in [Reader -> Nat]
    /\ retries \in [Reader -> 0..MaxRetries] /\ faults \in 0..MaxFaults
    /\ disturbed \subseteq Reader /\ base \in Sample \cup {Torn}
    /\ from \in [Reader -> Sample \cup {Torn}] /\ measured \subseteq 1..MaxTicks

\* p is b of d in percent, rounded half up.
IsNearestPercent(p, b, d) ==
    IF d = 0 THEN p = 0 ELSE -d <= 2 * (100 * b - p * d) /\ 2 * (100 * b - p * d) < d

\* A run that has the globals to itself, after one that had, reports the busy share
\* of exactly the ticks between the two, in spite of what races did before that and
\* of the unsigned arithmetic (sysinfo_so1_201801521.c:66-74).
AloneIsExact ==
    \A r \in Reader :
        pc[r] = "store" /\ r \notin disturbed /\ from[r] # Torn =>
            LET ticks == sample[r]["total"] - from[r]["total"]
                idle == sample[r]["idle"] - from[r]["idle"]
            IN  IsNearestPercent(pct[r], ticks - idle, ticks)

\* However runs race, no tick escapes them all: those before the counters that
\* the next run will find were in the interval of some run
\* (sysinfo_so1_201801521.c:67-74).
NoTickEscapes == 1..prev["total"] \subseteq measured

\* "calcular cpu usage %" (sysinfo_so1_201801521.c:28): what is reported is a percentage.
IsPercentage == \A r \in Reader : pct[r] <= 100

=============================================================================
