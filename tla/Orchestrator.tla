---------------------------- MODULE Orchestrator ----------------------------
(***************************************************************************)
(* The generator of containers, src/cronjob/stress_container.sh, composed  *)
(* with the quota controller that runs beside it.  They share nothing but  *)
(* docker: the daemon decides which containers survive a round, and the    *)
(* script names the containers of every round with the same indexes.       *)
(***************************************************************************)
EXTENDS EnforceRules

CONSTANTS
    MaxIndex,       \* containers per round: seq 1 10 in the script
    DockerErrors    \* may docker build or docker run fail for want of anything
                    \* but a free name

ASSUME IndexAssumption == MaxIndex \in Nat \ {0} /\ DockerErrors \in BOOLEAN

VARIABLES
    script,     \* where the script is; "conflict" and "failed" are its exits
    i,          \* the index of the round
    index,      \* index[c]: the number in the name of container c, 0 before it has one
    held,       \* containers whose name docker still holds (--rm frees it after the exit)
    mine        \* history: the containers created in the round under way

scriptVars == <<script, i, index, mine>>
orchVars == <<vars, scriptVars, held>>

OrchInit ==
    /\ Init
    /\ script = "building" /\ i = 1 /\ mine = {}
    /\ index = [c \in Container |-> 0] /\ held = {}

-----------------------------------------------------------------------------
(* stress_container.sh, under set -e.                                      *)

\* The three images are built.
Build ==
    /\ script = "building"
    /\ script' = "creating"
    /\ UNCHANGED <<vars, i, index, mine, held>>

\* A docker build or docker run fails: set -e ends the script.
DockerFails ==
    /\ DockerErrors /\ script \in {"building", "creating"}
    /\ script' = "failed"
    /\ UNCHANGED <<vars, i, index, mine, held>>

\* stress-<kind>-<i> names some container of the kind.
NameTaken(K) == \E c \in held \cap K : index[c] = i

\* Slip: docker run without --name.
CreateUnnamed(c) ==
    /\ script = "creating"
    /\ Launch(c)
    /\ index' = [index EXCEPT ![c] = i] /\ held' = held \cup {c}
    /\ script' = "pausing" /\ mine' = mine \cup {c}
    /\ UNCHANGED i

\* create_random_container: the kind of c is the random pick.
Create(c) ==
    /\ script = "creating" /\ ~NameTaken(Kind(c))
    /\ Launch(c)
    /\ index' = [index EXCEPT ![c] = i]
    /\ held' = held \cup {c} /\ mine' = mine \cup {c}
    /\ script' = "pausing"
    /\ UNCHANGED i

\* The pick's name is in use: docker run fails, and set -e ends the script.
CreateConflicts ==
    /\ script = "creating"
    /\ \E K \in {HighCPU, HighRAM, Low} : NameTaken(K)
    /\ script' = "conflict"
    /\ UNCHANGED <<vars, i, index, mine, held>>

\* Slip: the loop variable is not passed on.
PauseSameIndex ==
    /\ script = "pausing"
    /\ \/ script' = "creating" /\ UNCHANGED mine
       \/ script' = "resting" /\ mine' = {}
    /\ UNCHANGED <<vars, i, index, held>>

\* Slip: the indexes go on from round to round.
PauseCountingOn ==
    /\ script = "pausing"
    /\ i' = i + 1
    /\ IF i < MaxIndex THEN script' = "creating" /\ UNCHANGED mine
                       ELSE script' = "resting" /\ mine' = {}
    /\ UNCHANGED <<vars, index, held>>

\* sleep 1, then the next index; after the last one sleep 60 and a new round.
Pause ==
    /\ script = "pausing"
    /\ IF i < MaxIndex
       THEN i' = i + 1 /\ script' = "creating" /\ UNCHANGED mine
       ELSE i' = 1 /\ script' = "resting" /\ mine' = {}
    /\ UNCHANGED <<vars, index, held>>

Rest ==
    /\ script = "resting"
    /\ script' = "creating"
    /\ UNCHANGED <<vars, i, index, mine, held>>

Script == Build \/ DockerFails \/ (\E c \in Container : Create(c))
            \/ CreateConflicts \/ Pause \/ Rest

-----------------------------------------------------------------------------
(* The rest of the system.                                                 *)

\* docker removes a container that ended, and its name is free again.
Remove(c) ==
    /\ c \in held \ running
    /\ held' = held \ {c}
    /\ UNCHANGED <<vars, scriptVars>>

\* The daemon and the containers, as in EnforceRules, except that only the
\* script launches and the daemon, which would start a second script, is not
\* started again.
Others ==
    /\ Daemon \/ \E c \in Container : Crash(c) \/ Exit(c)
    /\ UNCHANGED <<scriptVars, held>>

OrchNext == Script \/ Others \/ \E c \in Container : Remove(c)

OrchSpec == OrchInit /\ [][OrchNext]_orchVars

-----------------------------------------------------------------------------
(* Properties.                                                             *)

\* The script's variables have their types, and a running container has a name.
OrchTypeOK ==
    /\ script \in {"building", "creating", "pausing", "resting", "conflict", "failed"}
    /\ i \in 1..MaxIndex /\ mine \subseteq launched
    /\ index \in [Container -> 0..MaxIndex]
    /\ running \subseteq held /\ held \subseteq {c \in launched : index[c] # 0}

\* Even while the daemon hangs or its stops fail, at most a round's worth of
\* containers of each kind run at once: the fixed names of the script are a limit
\* no quota has to enforce (stress_container.sh:90-93).
KindBounded ==
    \A K \in {HighCPU, HighRAM, Low} : Cardinality(running \cap K) <= MaxIndex

\* The script never collides with itself within a round, whichever round it is and
\* whatever kinds it picks: the container that has the name it asks for is always
\* of an earlier round (stress_container.sh:105-108).
ConflictIsWithSurvivor ==
    script = "conflict" => \A c \in held : index[c] = i => c \notin mine

\* "LOOP INFINITO CADA 1 MINUTO" (stress_container.sh:97): while docker does its
\* part, the script never ends.
LoopsForever == script # "conflict"

=============================================================================
