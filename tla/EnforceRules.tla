---------------------------- MODULE EnforceRules ----------------------------
(***************************************************************************)
(* The quota controller of the daemon, src/Daemon/clean_cont.go, run once  *)
(* per turn of the loop of main (src/Daemon/main.go:248).                  *)
(*                                                                         *)
(* A turn makes two passes.  Each pass lists the running stress containers *)
(* of a class ("high" first, then a new listing for "low"), computes how   *)
(* many exceed the quota, and stops that many from the listing it took.    *)
(* Meanwhile containers start, die, and obey or ignore an earlier stop:    *)
(* nothing holds the world still between the listing and the last stop.    *)
(***************************************************************************)
EXTENDS Integers, FiniteSets

CONSTANTS
    HighCPU,                \* containers the generator may name stress-high-cpu-*
    HighRAM,                \* ... stress-high-ram-*
    Low,                    \* ... stress-low-*; in each, smaller means older
    desiredHighContainers,  \* quota of high-CPU and high-RAM together
    desiredLowContainers,   \* quota of low
    MaxFaults               \* bound: docker commands that fail without effect, and
                            \* restarts of the daemon

ASSUME ContainersAssumption ==
    /\ HighCPU \subseteq Nat /\ HighRAM \subseteq Nat /\ Low \subseteq Nat
    /\ HighCPU \cap HighRAM = {} /\ HighCPU \cap Low = {} /\ HighRAM \cap Low = {}

ASSUME QuotaAssumption ==
    desiredHighContainers \in Nat /\ desiredLowContainers \in Nat

ASSUME FaultsAssumption == MaxFaults \in Nat

Container == HighCPU \cup HighRAM \cup Low
Class == {"high", "low"}
Members(k) == IF k = "high" THEN HighCPU \cup HighRAM ELSE Low
ClassOf(c) == IF c \in Low THEN "low" ELSE "high"
Kind(c) == IF c \in HighCPU THEN HighCPU ELSE IF c \in HighRAM THEN HighRAM ELSE Low
Desired(k) == IF k = "high" THEN desiredHighContainers ELSE desiredLowContainers

(***************************************************************************)
(* The order in which a pass walks its listing: highsCPU before highsRAM,  *)
(* and within a slice the order of docker ps, the newest container first.  *)
(***************************************************************************)
StoppedBefore(c, d) ==
    \/ c \in HighCPU /\ d \in HighRAM
    \/ d \in Kind(c) /\ d < c

Behind(c) == {d \in Members(ClassOf(c)) : StoppedBefore(c, d)}

VARIABLES
    launched,   \* every container ever started
    running,    \* what docker ps lists
    stopping,   \* told to stop by a docker stop whose client gave up at its timeout
    inflight,   \* target of the docker stop the daemon is waiting for: {} or {c}
    pc,         \* where enforceRules is; "sleep" is the rest of main's loop
    pass,       \* the class of the current pass
    pending,    \* what is left of the listing of this pass
    toKill,     \* the counter of this pass
    faults,     \* how many of these there have been
    lost        \* history: deaths the daemon did not order, per class, since a
                \* listing found none of the class still obeying a stop

world  == <<launched, running, lost>>
vars   == <<launched, running, stopping, inflight, pc, pass, pending, toKill, faults, lost>>

\* Told to stop and still running.
Doomed == (stopping \cup inflight) \cap running
Healthy == running \ Doomed

Init ==
    /\ launched = {} /\ running = {} /\ stopping = {} /\ inflight = {}
    /\ pc = "sleep" /\ pass = "high" /\ pending = {} /\ toKill = 0
    /\ faults = 0 /\ lost = [k \in Class |-> 0]

-----------------------------------------------------------------------------
(* The containers.                                                         *)

\* docker run by the generator: ids of a kind come in creation order.
Launch(c) ==
    /\ c \notin launched
    /\ \A d \in Kind(c) : d \in launched <=> d < c
    /\ launched' = launched \cup {c}
    /\ running' = running \cup {c}
    /\ UNCHANGED <<stopping, inflight, pc, pass, pending, toKill, faults, lost>>

\* A container nobody told to stop ends (out of memory, killed by hand).
Crash(c) ==
    /\ c \in Healthy
    /\ running' = running \ {c}
    /\ lost' = [lost EXCEPT ![ClassOf(c)] = @ + 1]
    /\ UNCHANGED <<launched, stopping, inflight, pc, pass, pending, toKill, faults>>

\* A container obeys docker stop, at SIGTERM or at the SIGKILL after the grace.
Exit(c) ==
    /\ c \in Doomed
    /\ running' = running \ {c}
    /\ stopping' = stopping \ {c}
    /\ UNCHANGED <<launched, inflight, pc, pass, pending, toKill, faults, lost>>

-----------------------------------------------------------------------------
(* enforceRules.                                                           *)

\* The loop of main reaches enforceRules again.
Wake ==
    /\ pc = "sleep"
    /\ pc' = "list" /\ pass' = "high"
    /\ UNCHANGED <<world, stopping, inflight, pending, toKill, faults>>

\* Slip: one too many.
SurplusPlusOne(k, n) == IF n >= Desired(k) THEN n - Desired(k) + 1 ELSE 0
\* Slip: the quota of the other class.
SurplusOverHigh(k, n) == IF n > Desired(k) THEN n - Desired("high") ELSE 0

Surplus(k, n) == IF n > Desired(k) THEN n - Desired(k) ELSE 0

\* listStressContainers succeeds: the pass works from this listing to its end.
List ==
    /\ pc = "list"
    /\ pending' = running \cap Members(pass)
    /\ toKill' = Surplus(pass, Cardinality(pending'))
    /\ pc' = "kill"
    /\ lost' = IF Doomed \cap Members(pass) = {} THEN [lost EXCEPT ![pass] = 0] ELSE lost
    /\ UNCHANGED <<launched, running, stopping, inflight, pass, faults>>

\* Slip: a failed listing ends the daemon's loop.
ListFailsForGood ==
    /\ pc = "list" /\ faults < MaxFaults
    /\ faults' = faults + 1
    /\ pc' = "exited"
    /\ UNCHANGED <<world, stopping, inflight, pass, pending, toKill>>

\* docker ps fails or runs past its 5 s: enforceRules returns at once.
ListFails ==
    /\ pc = "list" /\ faults < MaxFaults
    /\ faults' = faults + 1
    /\ pc' = "sleep"
    /\ UNCHANGED <<world, stopping, inflight, pass, pending, toKill>>

\* Slip: no "if toKill <= 0 { break }".
KillNextNoBreak(c) ==
    /\ pc = "kill"
    /\ c \in pending /\ \A d \in pending \ {c} : d \in Behind(c)
    /\ inflight' = {c} /\ pending' = pending \ {c} /\ pc' = "stop"
    /\ UNCHANGED <<world, stopping, pass, toKill, faults>>

\* Slip: the listing is walked from its end.
KillNextFromTheEnd(c) ==
    /\ pc = "kill" /\ toKill > 0
    /\ c \in pending /\ \A d \in pending \ {c} : c \in Behind(d)
    /\ inflight' = {c} /\ pending' = pending \ {c} /\ pc' = "stop"
    /\ UNCHANGED <<world, stopping, pass, toKill, faults>>

\* stopContainer on the next of the listing, still there or not.
KillNext(c) ==
    /\ pc = "kill" /\ toKill > 0
    /\ c \in pending /\ \A d \in pending \ {c} : d \in Behind(c)
    /\ inflight' = {c}
    /\ pending' = pending \ {c}
    /\ pc' = "stop"
    /\ UNCHANGED <<world, stopping, pass, toKill, faults>>

\* After stopContainer returns, whatever the outcome: toKill--.
Resume ==
    /\ pc = "stop"
    /\ inflight' = {}
    /\ toKill' = toKill - 1
    /\ pc' = "kill"

\* docker stop returns: the container is gone, or was gone before.
StopEnds ==
    /\ Resume
    /\ inflight \cap running = {}
    /\ UNCHANGED <<world, stopping, pass, pending, faults>>

\* Slip: a stop that errs is not counted, and the next of the listing is tried.
StopTimesOutUncounted ==
    /\ pc = "stop" /\ pc' = "kill" /\ inflight' = {}
    /\ inflight \subseteq running
    /\ stopping' = stopping \cup inflight
    /\ UNCHANGED <<world, pass, pending, toKill, faults>>

\* runCmd kills the client at 10 s, docker's own grace; the engine goes on.
StopTimesOut ==
    /\ Resume
    /\ inflight \subseteq running
    /\ stopping' = stopping \cup inflight
    /\ UNCHANGED <<world, pass, pending, faults>>

\* The request never reaches the engine; stopContainer only logs the error.
StopRefused ==
    /\ Resume
    /\ inflight \subseteq running /\ faults < MaxFaults
    /\ faults' = faults + 1
    /\ UNCHANGED <<world, stopping, pass, pending>>

\* The pass is over: the low pass lists again, or enforceRules returns.
EndPass ==
    /\ pc = "kill" /\ (toKill = 0 \/ pending = {})
    /\ pending' = {} /\ toKill' = 0
    /\ IF pass = "high" THEN pc' = "list" /\ pass' = "low"
                        ELSE pc' = "sleep" /\ pass' = "high"
    /\ UNCHANGED <<world, stopping, inflight, faults>>

\* The daemon ends in the middle of anything and is started again; a docker stop
\* of its own has reached the engine or not.
Restart ==
    /\ faults < MaxFaults
    /\ faults' = faults + 1
    /\ stopping' \in {stopping, stopping \cup (inflight \cap running)}
    /\ inflight' = {} /\ pending' = {} /\ toKill' = 0
    /\ pc' = "sleep" /\ pass' = "high"
    /\ UNCHANGED world

StopReturns == StopEnds \/ StopTimesOut \/ StopRefused
Daemon == Wake \/ List \/ ListFails \/ (\E c \in Container : KillNext(c))
            \/ StopReturns \/ EndPass
Docker == \E c \in Container : Launch(c) \/ Crash(c) \/ Exit(c)
Next == Daemon \/ Restart \/ Docker

Spec == Init /\ [][Next]_vars

(***************************************************************************)
(* Every command of the daemon returns (runCmd bounds it) and the loop     *)
(* never ends; docker kills a container that outlives the stop grace.      *)
(* Nothing is assumed of launches, crashes or faults.                      *)
(***************************************************************************)
Fairness == WF_vars(Daemon) /\ \A c \in Container : WF_vars(Exit(c))
FairSpec == Spec /\ Fairness

-----------------------------------------------------------------------------
(* Properties.                                                             *)

\* The variables have their types.
TypeOK ==
    /\ launched \subseteq Container
    /\ running \subseteq launched
    /\ stopping \subseteq running
    /\ inflight \subseteq launched
    /\ pc \in {"sleep", "list", "kill", "stop"}
    /\ pass \in Class
    /\ pending \subseteq launched \cap Members(pass)
    /\ toKill \in Nat
    /\ faults \in 0..MaxFaults
    /\ lost \in [Class -> Nat]

\* The daemon's stops alone never take a class below its quota: while one of
\* its containers obeys a stop, the others still running and the ones that died
\* unasked since make up the quota, in spite of listings that have gone stale
\* and of stops that are asked for again after a timeout (clean_cont.go:127-171).
QuotaKept ==
    \A k \in Class : Doomed \cap Members(k) # {} =>
        Cardinality(Healthy \cap Members(k)) + lost[k] >= Desired(k)

\* The ones sacrificed come first in the stop order: behind each there is a
\* whole quota of containers that were not told to stop.  The survivors are the
\* oldest, and a high-CPU container goes before any high-RAM one
\* (clean_cont.go:131-144, 160-166).
HeirsRemain ==
    \A c \in Doomed :
        Cardinality(Healthy \cap Behind(c)) + lost[ClassOf(c)] >= Desired(ClassOf(c))

\* A pass never runs out of listing before its counter: what it has left to
\* walk is what it has left to stop and the quota (clean_cont.go:128-144).
ListingSuffices ==
    toKill > 0 =>
        Cardinality(pending) = toKill + Desired(pass) - (IF pc = "stop" THEN 1 ELSE 0)

\* Once containers cease to arrive and docker ceases to fail, the class comes
\* within its quota for good: no surplus is forgotten because a listing or a stop
\* failed, or because a stop timed out (clean_cont.go:109-172).
QuotaReached ==
    \A k \in Class : <>[](Cardinality(running \cap Members(k)) <= Desired(k))

(***************************************************************************)
(* What each pass promises, as an instance of the abstract controller.     *)
(***************************************************************************)
HighControl == INSTANCE QuotaControl WITH
    Container <- Members("high"),
    heirs <- [c \in Members("high") |-> Behind(c)],
    Quota <- Desired("high"),
    running <- running \cap Members("high"),
    doomed <- Doomed \cap Members("high"),
    lost <- lost["high"]

LowControl == INSTANCE QuotaControl WITH
    Container <- Members("low"),
    heirs <- [c \in Members("low") |-> Behind(c)],
    Quota <- Desired("low"),
    running <- running \cap Members("low"),
    doomed <- Doomed \cap Members("low"),
    lost <- lost["low"]

\* Both passes, interleaved with everything else and sharing one counter and one
\* listing, implement the abstract controller of their class: whatever
\* clean_cont.go:109-172 does to a container that runs and was not yet told to
\* stop is an order that leaves a quota of its heirs.
ControlsHigh == HighControl!Spec
ControlsLow == LowControl!Spec

=============================================================================
