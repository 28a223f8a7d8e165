-------------------------- MODULE ContainerLedger --------------------------
(***************************************************************************)
(* The record of which containers exist and which are gone: the table      *)
(* containers and the series container_host_metrics.total_deleted_acc,     *)
(* written every turn of the loop of main from a snapshot of the kernel    *)
(* module (src/Daemon/insert_cont.go:123-220, src/Daemon/main.go:208-229). *)
(*                                                                         *)
(* The upsert is one SQLite transaction of many statements.  Any of them   *)
(* may fail (Grafana reads the same file), the daemon may be stopped       *)
(* between two of them and started again on the same file, and the clock   *)
(* that stamps the snapshots may be set back.                              *)
(***************************************************************************)
EXTENDS Integers, FiniteSets

CONSTANTS
    Cid,            \* what the kernel reports as container ids
    Time,           \* time stamps
    Never,          \* NULL: the removed_at_ts_ms of an open row
    MaxFaults,      \* bound: reads and database calls that fail
    MaxRestarts     \* bound: times the daemon is stopped and started again

ASSUME CidAssumption == IsFiniteSet(Cid)
ASSUME TimeAssumption == Time # {}
ASSUME NeverAssumption == Never \notin Time
ASSUME BoundsAssumption == MaxFaults \in Nat /\ MaxRestarts \in Nat

Row == [last : Time, removed : Time \cup {Never}]

VARIABLES
    alive,      \* the container processes that live now
    table,      \* the committed rows of containers: a function on the ids seen so far
    draft,      \* the same as the open transaction sees it
    pc,         \* the call the loop of main is in
    snap,       \* the snapshot of this turn: its stamp and the set called current
    todo,       \* ids the upsert has still to touch, then rows it has still to mark
    total,      \* totalDeletedAcc
    host,       \* total_deleted_acc of the newest row of container_host_metrics
    faults,
    restarts

db   == <<table, host>>
vars == <<alive, table, draft, pc, snap, todo, total, host, faults, restarts>>

RemovedIds(t) == {c \in DOMAIN t : t[c].removed # Never}
OpenIds(t) == DOMAIN t \ RemovedIds(t)

NoRows == [c \in {} |-> Never]
NoSnapshot == [ts |-> CHOOSE t \in Time : TRUE, current |-> {}]

Init ==
    /\ alive \in SUBSET Cid
    /\ table = NoRows /\ draft = NoRows /\ host = 0
    /\ pc = "read" /\ todo = {} /\ total = 0
    /\ snap = NoSnapshot
    /\ faults = 0 /\ restarts = 0

-----------------------------------------------------------------------------
(* Outside the daemon.                                                     *)

\* A process of the container starts or ends.  An id may come back: what the
\* module reports is the command line (continfo_so1_201801521.c:118-124).
Appear(c) ==
    /\ c \notin alive
    /\ alive' = alive \cup {c}
    /\ UNCHANGED <<db, draft, pc, snap, todo, total, faults, restarts>>

Vanish(c) ==
    /\ c \in alive
    /\ alive' = alive \ {c}
    /\ UNCHANGED <<db, draft, pc, snap, todo, total, faults, restarts>>

\* The daemon ends wherever it is and starts again: SQLite drops the open
\* transaction, the program its variables.
Restart ==
    /\ restarts < MaxRestarts
    /\ restarts' = restarts + 1
    /\ draft' = table /\ pc' = "read" /\ todo' = {} /\ total' = 0 /\ snap' = NoSnapshot
    /\ UNCHANGED <<alive, db, faults>>

-----------------------------------------------------------------------------
(* A turn of the loop.                                                     *)

\* Slip: the map of the turn before is filled again.
ReadSnapshotAdding(t) ==
    /\ pc = "read"
    /\ snap' = [ts |-> t, current |-> alive \cup snap.current]
    /\ pc' = IF snap'.current = {} THEN "count" ELSE "begin"
    /\ UNCHANGED <<alive, db, draft, todo, total, faults, restarts>>

\* ReadContInfo; with no container in the snapshot the upsert returns at once.
ReadSnapshot(t) ==
    /\ pc = "read"
    /\ snap' = [ts |-> t, current |-> alive]
    /\ pc' = IF alive = {} THEN "count" ELSE "begin"
    /\ UNCHANGED <<alive, db, draft, todo, total, faults, restarts>>

\* ReadContInfo fails: nothing of the containers is recorded this turn.
ReadFails ==
    /\ pc = "read" /\ faults < MaxFaults
    /\ faults' = faults + 1
    /\ UNCHANGED <<alive, db, draft, pc, snap, todo, total, restarts>>

Begin ==
    /\ pc = "begin"
    /\ draft' = table /\ todo' = snap.current
    /\ pc' = "touch"
    /\ UNCHANGED <<alive, db, snap, total, faults, restarts>>

\* Slip: the row of an id that comes back is opened again.
TouchedReopening(c) ==
    [d \in DOMAIN draft \cup {c} |->
        IF d # c THEN draft[d] ELSE [last |-> snap.ts, removed |-> Never]]

\* UPDATE last_seen_ts_ms, or INSERT when no row was there.
Touched(c) ==
    [d \in DOMAIN draft \cup {c} |->
        IF d # c THEN draft[d]
        ELSE [last |-> snap.ts, removed |-> IF c \in DOMAIN draft THEN draft[c].removed
                                                                  ELSE Never]]

Touch(c) ==
    /\ pc = "touch" /\ c \in todo
    /\ draft' = Touched(c)
    /\ todo' = todo \ {c}
    /\ UNCHANGED <<alive, db, pc, snap, total, faults, restarts>>

\* SELECT the open rows; the ones of the snapshot are passed over.
SelectOpen ==
    /\ pc = "touch" /\ todo = {}
    /\ todo' = OpenIds(draft) \ snap.current
    /\ pc' = "mark"
    /\ UNCHANGED <<alive, db, draft, snap, total, faults, restarts>>

\* Slip: what is gone is taken to be gone since it was seen.
MarkLastSeen(c) ==
    /\ pc = "mark" /\ c \in todo
    /\ draft' = IF draft[c].removed = Never THEN [draft EXCEPT ![c].removed = draft[c].last]
                                            ELSE draft
    /\ todo' = todo \ {c}
    /\ UNCHANGED <<alive, db, pc, snap, total, faults, restarts>>

\* UPDATE removed_at_ts_ms, of a row that is still open.
Mark(c) ==
    /\ pc = "mark" /\ c \in todo
    /\ draft' = IF draft[c].removed = Never THEN [draft EXCEPT ![c].removed = snap.ts]
                                            ELSE draft
    /\ todo' = todo \ {c}
    /\ UNCHANGED <<alive, db, pc, snap, total, faults, restarts>>

Commit ==
    /\ pc = "mark" /\ todo = {}
    /\ table' = draft
    /\ pc' = "count"
    /\ UNCHANGED <<alive, draft, snap, todo, total, host, faults, restarts>>

\* Slip: an error of the upsert leaves through the commit.
UpsertFailsCommitting ==
    /\ pc \in {"begin", "touch", "mark"} /\ faults < MaxFaults
    /\ faults' = faults + 1
    /\ table' = draft /\ todo' = {}
    /\ pc' = "count"
    /\ UNCHANGED <<alive, draft, snap, total, host, restarts>>

\* Any statement of the upsert fails, the COMMIT included: rolled back, and the
\* turn goes on.
UpsertFails ==
    /\ pc \in {"begin", "touch", "mark"} /\ faults < MaxFaults
    /\ faults' = faults + 1
    /\ draft' = table /\ todo' = {}
    /\ pc' = "count"
    /\ UNCHANGED <<alive, db, snap, total, restarts>>

\* GetTotalDeletedContainers.
Count ==
    /\ pc = "count"
    /\ total' = Cardinality(RemovedIds(table))
    /\ pc' = "host"
    /\ UNCHANGED <<alive, db, draft, snap, todo, faults, restarts>>

\* Slip: the error value of the count is recorded.
CountFailsMinusOne ==
    /\ pc = "count" /\ faults < MaxFaults
    /\ faults' = faults + 1
    /\ total' = -1
    /\ pc' = "host"
    /\ UNCHANGED <<alive, db, draft, snap, todo, restarts>>

\* Slip: the total of the turn before stays in place.
CountFailsKeeping ==
    /\ pc = "count" /\ faults < MaxFaults
    /\ faults' = faults + 1
    /\ pc' = "host"
    /\ UNCHANGED <<alive, db, draft, snap, todo, total, restarts>>

\* The query fails: main goes on with a total of 0.
CountFails ==
    /\ pc = "count" /\ faults < MaxFaults
    /\ faults' = faults + 1
    /\ total' = 0
    /\ pc' = "host"
    /\ UNCHANGED <<alive, db, draft, snap, todo, restarts>>

\* InsertContainerHostMetrics; what follows in the turn leaves these tables alone.
InsertHost ==
    /\ pc = "host"
    /\ host' = total
    /\ pc' = "read"
    /\ UNCHANGED <<alive, table, draft, snap, todo, total, faults, restarts>>

InsertHostFails ==
    /\ pc = "host" /\ faults < MaxFaults
    /\ faults' = faults + 1
    /\ pc' = "read"
    /\ UNCHANGED <<alive, db, draft, snap, todo, total, restarts>>

Upsert == Begin \/ (\E c \in Cid : Touch(c) \/ Mark(c)) \/ SelectOpen \/ Commit \/ UpsertFails
Turn == \/ \E t \in Time : ReadSnapshot(t)
        \/ ReadFails
        \/ Upsert
        \/ Count \/ CountFails
        \/ InsertHost \/ InsertHostFails
Next == Turn \/ Restart \/ \E c \in Cid : Appear(c) \/ Vanish(c)

Spec == Init /\ [][Next]_vars

\* The loop of main turns for ever: every call of it returns, with or without an error.
FairSpec == Spec /\ WF_vars(Turn)

-----------------------------------------------------------------------------
(* Properties.                                                             *)

\* The variables have their types; outside a transaction the draft is idle.
TypeOK ==
    /\ alive \subseteq Cid
    /\ DOMAIN table \subseteq Cid /\ table \in [DOMAIN table -> Row]
    /\ DOMAIN draft \subseteq Cid /\ draft \in [DOMAIN draft -> Row]
    /\ pc \in {"read", "begin", "touch", "mark", "count", "host"}
    /\ snap \in [ts : Time, current : SUBSET Cid]
    /\ todo \subseteq Cid
    /\ total \in 0..Cardinality(Cid) /\ host \in 0..Cardinality(Cid)
    /\ faults \in 0..MaxFaults /\ restarts \in 0..MaxRestarts

\* No row is ever deleted, and a removal once recorded keeps its time: neither a
\* later turn, nor an id that comes back, nor an error, nor a restart touches it
\* (insert_cont.go:181-207).
RemovalIsFinal ==
    [][\A c \in RemovedIds(table) :
          c \in DOMAIN table' /\ table'[c].removed = table[c].removed]_vars

\* What other readers of the database see of an upsert is all of it: a change of
\* the table stamps every container of one snapshot and leaves open only those,
\* whichever statement fails and wherever the daemon is stopped
\* (insert_cont.go:141-217).
UpsertIsWhole ==
    [][table' # table =>
          /\ \A c \in snap.current : c \in DOMAIN table' /\ table'[c].last = snap.ts
          /\ OpenIds(table') \subseteq snap.current
          /\ \A c \in DOMAIN table' \ snap.current :
                c \in DOMAIN table /\ table'[c].last = table[c].last]_vars

\* Every total that is recorded, the one that repeats its predecessor included, is
\* the number of removals in the table when it is written, or 0 when counting failed;
\* never the count of another turn that the table has left behind (main.go:220-229).
TotalIsCurrent ==
    [][InsertHost => host' \in {0, Cardinality(RemovedIds(table))}]_vars

(* What the statements amount to, as an instance of the atomic ledger.      *)
Ledger == INSTANCE AtomicLedger WITH seen <- snap

\* To whoever reads the database the statements of an upsert are one step that writes
\* exactly the rows of one snapshot, and what fails or is stopped is no step at all; a
\* total that is recorded is of that table (insert_cont.go:123-220; main.go:208-229).
IsAtomicLedger == Ledger!Spec

\* A container that is gone for good is recorded as removed in the end, whatever
\* fails on the way, if there always are others (insert_cont.go:137-139, 192-208).
GoneIsRecorded ==
    \A c \in Cid : <>[](c \notin alive /\ alive # {}) => <>[](c \notin OpenIds(table))

=============================================================================
