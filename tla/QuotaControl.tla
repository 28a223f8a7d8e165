---------------------------- MODULE QuotaControl ----------------------------
(***************************************************************************)
(* What a quota controller promises for one class of containers, however   *)
(* it works: it may tell a container to stop only when a whole quota of    *)
(* containers that come after it in the order of sacrifice keeps running.  *)
(* EnforceRules implements this specification, once for each class.        *)
(***************************************************************************)
EXTENDS Integers, FiniteSets

CONSTANTS
    Container,  \* the containers of the class
    heirs,      \* heirs[c]: the containers sacrificed only after c
    Quota       \* how many are wanted

VARIABLES
    running,    \* the containers that run
    doomed,     \* those of them told to stop
    lost        \* deaths nobody ordered since no container was doomed

vars == <<running, doomed, lost>>

Init == running = {} /\ doomed = {} /\ lost = 0

Arrive(c) ==
    /\ c \notin running
    /\ running' = running \cup {c}
    /\ UNCHANGED <<doomed, lost>>

Die(c) ==
    /\ c \in running \ doomed
    /\ running' = running \ {c} /\ lost' = lost + 1
    /\ UNCHANGED doomed

Doom(c) ==
    /\ c \in running \ doomed
    /\ Cardinality((running \ doomed) \cap heirs[c]) + lost >= Quota
    /\ doomed' = doomed \cup {c}
    /\ UNCHANGED <<running, lost>>

\* The order to stop did not arrive.
Spare(c) ==
    /\ c \in doomed
    /\ doomed' = doomed \ {c}
    /\ UNCHANGED <<running, lost>>

Leave(c) ==
    /\ c \in doomed
    /\ running' = running \ {c} /\ doomed' = doomed \ {c}
    /\ UNCHANGED lost

\* Nobody is doomed: past deaths no longer excuse a shortage.
Settle ==
    /\ doomed = {}
    /\ lost' = 0
    /\ UNCHANGED <<running, doomed>>

Next ==
    \/ \E c \in Container : Arrive(c) \/ Die(c) \/ Doom(c) \/ Spare(c) \/ Leave(c)
    \/ Settle

Spec == Init /\ [][Next]_vars
=============================================================================
