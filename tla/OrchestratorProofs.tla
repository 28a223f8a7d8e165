------------------------- MODULE OrchestratorProofs -------------------------
(***************************************************************************)
(* Theorems about Orchestrator, for any containers, quotas and number of   *)
(* containers a round.                                                     *)
(***************************************************************************)
EXTENDS Orchestrator, EnforceRulesProofs

Kinds == {HighCPU, HighRAM, Low}

\* Two containers of a kind never have the same name at once.
NamesAreDistinct ==
    \A K \in Kinds : \A c, d \in held \cap K : index[c] = index[d] => c = d

\* The containers of the round under way have indexes the script has passed, so that
\* none of them has the next name.  A round begins without containers.
OwnRoundIsPassed ==
    /\ script \in {"building", "resting"} => mine = {}
    /\ \A c \in mine : index[c] <= i
    /\ script \in {"creating", "conflict"} => \A c \in mine : index[c] < i

OrchInv == launched \subseteq Container /\ OrchTypeOK /\ NamesAreDistinct /\ OwnRoundIsPassed

-----------------------------------------------------------------------------
(* What the composition does to the containers.                            *)

\* A container is of the kind it is in.
LEMMA KindOfMember ==
    ASSUME NEW K \in Kinds, NEW c \in K
    PROVE  c \in Container /\ Kind(c) = K
BY ContainersAssumption DEF Kinds, Kind, Container

\* To the quota controller, the script is a source of containers: every step of the
\* composition is a step of EnforceRules or leaves its variables alone.
LEMMA StepOfEnforceRules == [OrchNext]_orchVars => [Next]_vars
<1> SUFFICES ASSUME [OrchNext]_orchVars PROVE [Next]_vars
  OBVIOUS
<1>1. CASE Script
  <2>1. CASE \E c \in Container : Create(c)
    BY <2>1 DEF Create, Next, Docker
  <2>2. CASE Build \/ DockerFails \/ CreateConflicts \/ Pause \/ Rest
    BY <2>2 DEF Build, DockerFails, CreateConflicts, Pause, Rest
  <2>3. QED
    BY <1>1, <2>1, <2>2 DEF Script
<1>2. CASE Others
  BY <1>2 DEF Others, Next, Docker
<1>3. CASE \E c \in Container : Remove(c)
  BY <1>3 DEF Remove
<1>4. CASE UNCHANGED orchVars
  BY <1>4 DEF orchVars
<1>5. QED
  BY <1>1, <1>2, <1>3, <1>4 DEF OrchNext

\* The daemon and the containers by themselves only shrink what runs.
LEMMA OthersShrink == Others => running' \subseteq running /\ launched' = launched
<1> SUFFICES ASSUME Others PROVE running' \subseteq running /\ launched' = launched
  OBVIOUS
<1>1. CASE Daemon
  BY <1>1 DEF Daemon, Wake, List, ListFails, KillNext, StopReturns, StopEnds, StopTimesOut,
              StopRefused, EndPass, world
<1>2. CASE \E c \in Container : Crash(c) \/ Exit(c)
  BY <1>2 DEF Crash, Exit
<1>3. QED
  BY <1>1, <1>2 DEF Others

-----------------------------------------------------------------------------
(* The inductive invariant.                                                *)

LEMMA OrchInvInit == OrchInit => OrchInv
BY IndexAssumption
DEF OrchInit, Init, OrchInv, OrchTypeOK, NamesAreDistinct, OwnRoundIsPassed

\* A new container gets a name nobody holds.
LEMMA CreateKeeps ==
    ASSUME OrchInv, NEW c \in Container, Create(c)
    PROVE  OrchInv'
<1>1. /\ c \notin launched /\ launched' = launched \cup {c} /\ running' = running \cup {c}
      /\ script = "creating" /\ script' = "pausing" /\ i' = i /\ mine' = mine \cup {c}
      /\ held' = held \cup {c} /\ index' = [index EXCEPT ![c] = i]
  BY DEF Create, Launch
<1>2. /\ OrchTypeOK /\ i \in 1..MaxIndex /\ c \notin held
      /\ index \in [Container -> 0..MaxIndex]
  BY <1>1 DEF OrchInv, OrchTypeOK
<1>3. index'[c] = i /\ \A d \in Container \ {c} : index'[d] = index[d]
  BY <1>1, <1>2
<1>4. launched' \subseteq Container
  BY <1>1 DEF OrchInv
<1>5. OrchTypeOK'
  <2>1. index' \in [Container -> 0..MaxIndex]
    BY <1>1, <1>2, IndexAssumption
  <2>2. \A d \in held' : d \in launched' /\ index'[d] # 0
    BY <1>1, <1>2, IndexAssumption DEF OrchTypeOK
  <2>3. QED
    BY <1>1, <1>2, <2>1, <2>2 DEF OrchTypeOK
<1>6. NamesAreDistinct'
  <2>1. ASSUME NEW K \in Kinds, NEW d \in held \cap K, c \in K PROVE index[d] # i
    BY <2>1, KindOfMember DEF Create, NameTaken
  <2>2. ASSUME NEW K \in Kinds, NEW d \in held' \cap K, NEW e \in held' \cap K,
               index'[d] = index'[e]
        PROVE  d = e
    <3>1. d \in Container /\ e \in Container
      BY <2>2, KindOfMember
    <3>2. CASE d = c /\ e # c
      BY <1>1, <1>3, <2>1, <2>2, <3>1, <3>2
    <3>3. CASE d # c /\ e = c
      BY <1>1, <1>3, <2>1, <2>2, <3>1, <3>3
    <3>4. CASE d # c /\ e # c
      BY <1>1, <1>3, <2>2, <3>1, <3>4 DEF OrchInv, NamesAreDistinct
    <3>5. QED
      BY <3>2, <3>3, <3>4
  <2>3. QED
    BY <2>2 DEF NamesAreDistinct, Kinds
<1>7. OwnRoundIsPassed'
  <2>1. ASSUME NEW d \in mine' PROVE index'[d] <= i
    <3>1. CASE d = c
      BY <1>2, <1>3, <3>1, IndexAssumption
    <3>2. CASE d # c
      BY <1>1, <1>2, <1>3, <2>1, <3>2, Zenon DEF OrchInv, OwnRoundIsPassed, OrchTypeOK
    <3>3. QED
      BY <3>1, <3>2
  <2>2. QED
    BY <1>1, <2>1 DEF OwnRoundIsPassed
<1>8. QED
  BY <1>4, <1>5, <1>6, <1>7 DEF OrchInv

\* The other steps of the script leave the containers alone.
LEMMA ScriptKeeps ==
    ASSUME OrchInv, Build \/ DockerFails \/ CreateConflicts \/ Pause \/ Rest
    PROVE  OrchInv'
<1>1. /\ launched' = launched /\ running' = running
      /\ held' = held /\ index' = index
  BY DEF Build, DockerFails, CreateConflicts, Pause, Rest, vars
<1>2. /\ OrchTypeOK /\ OwnRoundIsPassed /\ i \in 1..MaxIndex
      /\ \A c \in held : c \in launched /\ index[c] # 0
  BY DEF OrchInv, OrchTypeOK
<1>3. NamesAreDistinct'
  BY <1>1 DEF OrchInv, NamesAreDistinct
<1>4. CASE Build \/ DockerFails \/ Rest
  BY <1>1, <1>2, <1>3, <1>4
  DEF Build, DockerFails, Rest, OrchInv, OrchTypeOK, OwnRoundIsPassed
<1>5. CASE CreateConflicts
  BY <1>1, <1>2, <1>3, <1>5
  DEF CreateConflicts, OrchInv, OrchTypeOK, OwnRoundIsPassed
<1>6. CASE Pause
  <2>1. CASE i < MaxIndex
    <3>1. i' = i + 1 /\ script = "pausing" /\ script' = "creating" /\ mine' = mine
      BY <1>6, <2>1 DEF Pause
    <3>2. i' \in 1..MaxIndex
      BY <1>2, <2>1, <3>1, IndexAssumption
    <3>3. OrchTypeOK'
      BY <1>1, <1>2, <3>1, <3>2 DEF OrchTypeOK
    <3>4. ASSUME NEW c \in mine PROVE index[c] <= i + 1 /\ index[c] < i + 1
      <4>1. index[c] <= i
        BY <1>2, <3>4 DEF OwnRoundIsPassed
      <4>2. index[c] \in 0..MaxIndex
        BY <3>4, <1>2 DEF OrchInv, OrchTypeOK
      <4>3. QED
        BY <1>2, <4>1, <4>2, IndexAssumption
    <3>5. OwnRoundIsPassed'
      BY <1>1, <3>1, <3>4, <1>2 DEF OwnRoundIsPassed
    <3>6. QED
      BY <1>1, <1>3, <3>3, <3>5 DEF OrchInv
  <2>2. CASE ~(i < MaxIndex)
    <3>1. i' = 1 /\ script' = "resting" /\ mine' = {}
      BY <1>6, <2>2 DEF Pause
    <3>2. OrchTypeOK'
      <4>1. i' \in 1..MaxIndex
        BY <3>1, IndexAssumption
      <4>2. QED
        BY <1>1, <1>2, <3>1, <4>1 DEF OrchTypeOK
    <3>3. OwnRoundIsPassed'
      BY <3>1 DEF OwnRoundIsPassed
    <3>4. QED
      BY <1>1, <1>3, <3>2, <3>3 DEF OrchInv
  <2>3. QED
    BY <2>1, <2>2
<1>7. QED
  BY <1>4, <1>5, <1>6

LEMMA OrchInvStep == OrchInv /\ [OrchNext]_orchVars => OrchInv'
<1> SUFFICES ASSUME OrchInv, [OrchNext]_orchVars PROVE OrchInv'
  OBVIOUS
<1>1. CASE Script
  BY <1>1, CreateKeeps, ScriptKeeps DEF Script
<1>2. CASE Others
  BY <1>2, OthersShrink
  DEF Others, scriptVars, OrchInv, OrchTypeOK, NamesAreDistinct, OwnRoundIsPassed
<1>3. ASSUME NEW c \in Container, Remove(c) PROVE OrchInv'
  BY <1>3
  DEF Remove, vars, scriptVars, OrchInv, OrchTypeOK, NamesAreDistinct, OwnRoundIsPassed
<1>4. CASE UNCHANGED orchVars
  BY <1>4
  DEF orchVars, vars, scriptVars, OrchInv, OrchTypeOK, NamesAreDistinct, OwnRoundIsPassed
<1>5. QED
  BY <1>1, <1>2, <1>3, <1>4 DEF OrchNext

LEMMA OrchInvAlways == OrchSpec => []OrchInv
BY OrchInvInit, OrchInvStep, PTL DEF OrchSpec

-----------------------------------------------------------------------------
(* The theorems.                                                           *)

\* The composition is one of the worlds EnforceRules allows: whatever the script
\* does with its names and its exits (stress_container.sh:88-118), what is proved of
\* the quota controller holds beside it.
THEOREM ControllerInComposition == OrchSpec => Spec
<1>1. OrchInit => Init
  BY DEF OrchInit
<1>2. QED
  BY <1>1, StepOfEnforceRules, PTL DEF OrchSpec, Spec

\* The daemon's stops alone never take a class below its quota, with the script at
\* work (clean_cont.go:127-171).
THEOREM QuotaKeptInComposition == OrchSpec => []QuotaKept
BY ControllerInComposition, QuotaAlwaysKept, PTL

\* The script's variables have their types, and what runs has a name.
THEOREM OrchTypeCorrect == OrchSpec => []OrchTypeOK
<1>1. OrchInv => OrchTypeOK
  BY DEF OrchInv
<1>2. QED
  BY <1>1, OrchInvAlways, PTL

\* Whatever the number of rounds, a taken name is always that of a container of an
\* earlier round (stress_container.sh:105-108).
THEOREM ConflictsAreWithSurvivors == OrchSpec => []ConflictIsWithSurvivor
<1>1. OrchInv => ConflictIsWithSurvivor
  BY DEF OrchInv, OrchTypeOK, OwnRoundIsPassed, ConflictIsWithSurvivor
<1>2. QED
  BY <1>1, OrchInvAlways, PTL

\* At most a round's worth of containers of a kind run at once: their indexes are
\* an injection into those of a round (stress_container.sh:90-93).
THEOREM KindsAreBounded == OrchSpec => []KindBounded
<1>1. ASSUME OrchInv, TypeOK, NEW K \in Kinds
      PROVE  Cardinality(running \cap K) <= MaxIndex
  <2> DEFINE S == running \cap K
             f == [c \in S |-> index[c]]
  <2>1. S \subseteq held \cap K /\ S \subseteq Container
    BY <1>1, KindOfMember DEF OrchInv, OrchTypeOK
  <2>2. \A c \in S : index[c] \in 1..MaxIndex
    <3>1. \A c \in held : index[c] # 0
      BY <1>1 DEF OrchInv, OrchTypeOK
    <3>2. index \in [Container -> 0..MaxIndex]
      BY <1>1 DEF OrchInv, OrchTypeOK
    <3>3. QED
      BY <2>1, <3>1, <3>2, IndexAssumption
  <2>3. f \in [S -> 1..MaxIndex]
    BY <2>2
  <2>4. \A c, d \in S : f[c] = f[d] => c = d
    BY <1>1, <2>1 DEF OrchInv, NamesAreDistinct
  <2>5. f \in Injection(S, 1..MaxIndex)
    BY <2>3, <2>4, Zenon DEF Injection, IsInjective
  <2>6. IsFiniteSet(1..MaxIndex) /\ Cardinality(1..MaxIndex) = MaxIndex
    BY IndexAssumption, FS_Interval
  <2> HIDE DEF f
  <2>7. Cardinality(S) <= Cardinality(1..MaxIndex)
    BY <2>5, <2>6, FS_Injection, Zenon
  <2>8. QED
    BY <2>6, <2>7
<1>2. OrchInv /\ TypeOK => KindBounded
  BY <1>1 DEF KindBounded, Kinds
<1>3. OrchSpec => []TypeOK
  BY ControllerInComposition, TypeCorrect, PTL
<1>4. QED
  BY <1>2, <1>3, OrchInvAlways, PTL

=============================================================================
