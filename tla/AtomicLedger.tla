---------------------------- MODULE AtomicLedger ----------------------------
(***************************************************************************)
(* The record of containers as whoever reads the database may think of it: *)
(* a snapshot enters it in one step, or not at all, and a total counts the *)
(* removals of the record that it is written beside.  ContainerLedger      *)
(* implements this specification with a transaction of many statements.    *)
(***************************************************************************)
EXTENDS Integers, FiniteSets

CONSTANTS
    Cid,        \* the ids of containers
    Time,       \* time stamps
    Never       \* the time of a removal that has not happened

VARIABLES
    seen,       \* the snapshot that may enter next: its stamp and the ids in it
    table,      \* when each id was last seen, and removed
    host        \* the total recorded last

vars == <<seen, table, host>>

Snapshot == [ts : Time, current : SUBSET Cid]

Removed == {c \in DOMAIN table : table[c].removed # Never}

Init == seen \in Snapshot /\ table = [c \in {} |-> Never] /\ host = 0

See(s) == seen' = s /\ UNCHANGED <<table, host>>

\* Seen again, a container stays removed if it was.
Present(c) ==
    [last |-> seen.ts, removed |-> IF c \in DOMAIN table THEN table[c].removed ELSE Never]

\* Not seen, it is removed now, if it was not before.
Absent(c) == [table[c] EXCEPT !.removed = IF @ = Never THEN seen.ts ELSE @]

Enter ==
    /\ seen.current # {}
    /\ table' = [c \in DOMAIN table \cup seen.current |->
                    IF c \in seen.current THEN Present(c) ELSE Absent(c)]
    /\ UNCHANGED <<seen, host>>

\* A count that fails is recorded as 0.
Record ==
    /\ host' \in {0, Cardinality(Removed)}
    /\ UNCHANGED <<seen, table>>

Next == Enter \/ Record \/ \E s \in Snapshot : See(s)

Spec == Init /\ [][Next]_vars
=============================================================================
