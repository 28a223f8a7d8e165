------------------------- MODULE EnforceRulesProofs -------------------------
(***************************************************************************)
(* Theorems about EnforceRules, for any containers and any quotas.         *)
(***************************************************************************)
EXTENDS EnforceRules, FiniteSetTheorems, TLAPS

-----------------------------------------------------------------------------
(* The order of the listing.                                               *)

\* Every container is of one class and lies in its members.
LEMMA ClassFacts ==
    ASSUME NEW c \in Container
    PROVE  /\ ClassOf(c) \in Class
           /\ c \in Members(ClassOf(c))
           /\ Behind(c) \subseteq Members(ClassOf(c))
           /\ c \notin Behind(c)
BY ContainersAssumption DEF Container, ClassOf, Class, Members, Behind, StoppedBefore, Kind

\* A member of a class has that class.
LEMMA ClassOfMember ==
    ASSUME NEW k \in Class, NEW c \in Members(k)
    PROVE  c \in Container /\ ClassOf(c) = k
BY ContainersAssumption DEF Container, ClassOf, Class, Members

\* The listing order is transitive: who is behind d is behind whoever d is behind.
LEMMA BehindTransitive ==
    ASSUME NEW c \in Container, NEW d \in Behind(c)
    PROVE  d \in Container /\ ClassOf(d) = ClassOf(c) /\ Behind(d) \subseteq Behind(c)
<1>1. d \in Container /\ ClassOf(d) = ClassOf(c)
  BY ClassFacts, ClassOfMember
<1>2. ASSUME NEW e \in Behind(d) PROVE e \in Behind(c)
  BY <1>1, ContainersAssumption
  DEF Behind, StoppedBefore, Kind, Members, ClassOf, Container
<1>3. QED
  BY <1>1, <1>2

\* It is total on a class.
LEMMA BehindTotal ==
    ASSUME NEW k \in Class, NEW c \in Members(k), NEW d \in Members(k), c # d
    PROVE  c \in Behind(d) \/ d \in Behind(c)
BY ContainersAssumption DEF Behind, StoppedBefore, Kind, Members, ClassOf, Class

\* The quotas are natural numbers.
LEMMA DesiredType == ASSUME NEW k \in Class PROVE Desired(k) \in Nat
BY QuotaAssumption DEF Desired

-----------------------------------------------------------------------------
(* Type correctness.                                                       *)

\* Where a pass stands, at each point of enforceRules: needed for the types, and
\* for the counts, to be inductive.
Shape ==
    /\ pc \in {"sleep", "list"} => pending = {} /\ toKill = 0
    /\ pc = "stop" => toKill > 0 /\ \E c \in launched : inflight = {c}
    /\ pc # "stop" => inflight = {}
    /\ IsFiniteSet(running) /\ IsFiniteSet(pending)

TypeInv == TypeOK /\ Shape

LEMMA TypeInvInit == Init => TypeInv
BY FaultsAssumption, FS_EmptySet DEF Init, TypeInv, TypeOK, Shape, Class

LEMMA TypeInvStep == TypeInv /\ [Next]_vars => TypeInv'
<1> SUFFICES ASSUME TypeInv, [Next]_vars PROVE TypeInv'
  OBVIOUS
<1> USE FaultsAssumption DEF TypeInv, TypeOK, Shape, world
<1>1. ASSUME NEW c \in Container, Launch(c) PROVE TypeInv'
  <2>1. IsFiniteSet(running')
    BY <1>1, FS_AddElement DEF Launch
  <2>2. QED
    BY <1>1, <2>1 DEF Launch
<1>2. ASSUME NEW c \in Container, Crash(c) PROVE TypeInv'
  <2>1. IsFiniteSet(running')
    BY <1>2, FS_RemoveElement DEF Crash
  <2>2. stopping' \subseteq running'
    BY <1>2 DEF Crash, Healthy, Doomed
  <2>3. lost' \in [Class -> Nat]
    BY <1>2, ClassFacts DEF Crash
  <2>4. QED
    BY <1>2, <2>1, <2>2, <2>3 DEF Crash
<1>3. ASSUME NEW c \in Container, Exit(c) PROVE TypeInv'
  <2>1. IsFiniteSet(running')
    BY <1>3, FS_RemoveElement DEF Exit
  <2>2. QED
    BY <1>3, <2>1 DEF Exit
<1>4. CASE Wake
  BY <1>4 DEF Wake, Class
<1>5. CASE List
  <2>1. IsFiniteSet(pending')
    BY <1>5, FS_Subset DEF List
  <2>2. toKill' \in Nat
    BY <1>5, <2>1, FS_CardinalityType, DesiredType DEF List, Surplus
  <2>3. lost' \in [Class -> Nat]
    BY <1>5 DEF List
  <2>4. QED
    BY <1>5, <2>1, <2>2, <2>3 DEF List
<1>6. CASE ListFails
  BY <1>6 DEF ListFails
<1>7. ASSUME NEW c \in Container, KillNext(c) PROVE TypeInv'
  <2>1. IsFiniteSet(pending')
    BY <1>7, FS_RemoveElement DEF KillNext
  <2>2. QED
    BY <1>7, <2>1 DEF KillNext
<1>8. CASE StopEnds
  BY <1>8 DEF StopEnds, Resume
<1>9. CASE StopTimesOut
  BY <1>9 DEF StopTimesOut, Resume
<1>10. CASE StopRefused
  BY <1>10 DEF StopRefused, Resume
<1>11. CASE EndPass
  BY <1>11, FS_EmptySet DEF EndPass, Class
<1>12. CASE Restart
  BY <1>12, FS_EmptySet DEF Restart, Class
<1>13. CASE UNCHANGED vars
  BY <1>13 DEF vars
<1>14. QED
  BY <1>1, <1>2, <1>3, <1>4, <1>5, <1>6, <1>7, <1>8, <1>9, <1>10, <1>11, <1>12, <1>13
  DEF Next, Daemon, Docker, StopReturns

\* The variables keep their types.
THEOREM TypeCorrect == Spec => []TypeOK
<1>1. TypeInv => TypeOK
  BY DEF TypeInv
<1>2. QED
  BY <1>1, TypeInvInit, TypeInvStep, PTL DEF Spec

-----------------------------------------------------------------------------
(* The counter and the listing.                                            *)

LEMMA ListingStep ==
    TypeInv /\ ListingSuffices /\ [Next]_vars => ListingSuffices'
<1> SUFFICES ASSUME TypeInv, ListingSuffices, [Next]_vars PROVE ListingSuffices'
  OBVIOUS
<1> USE DEF ListingSuffices, world
<1>0. pass \in Class /\ Desired(pass) \in Nat /\ toKill \in Nat /\ IsFiniteSet(pending)
  BY DesiredType DEF TypeInv, TypeOK, Shape
<1>1. ASSUME NEW c \in Container, Launch(c) PROVE ListingSuffices'
  BY <1>1 DEF Launch
<1>2. ASSUME NEW c \in Container, Crash(c) PROVE ListingSuffices'
  BY <1>2 DEF Crash
<1>3. ASSUME NEW c \in Container, Exit(c) PROVE ListingSuffices'
  BY <1>3 DEF Exit
<1>4. CASE Wake
  BY <1>4 DEF Wake, TypeInv, Shape
<1>5. CASE List
  <2>1. IsFiniteSet(pending')
    BY <1>5, FS_Subset DEF List, TypeInv, Shape
  <2>2. Cardinality(pending') \in Nat
    BY <2>1, FS_CardinalityType
  <2>3. QED
    BY <1>0, <1>5, <2>2 DEF List, Surplus
<1>6. CASE ListFails
  BY <1>6 DEF ListFails, TypeInv, Shape
<1>7. ASSUME NEW c \in Container, KillNext(c) PROVE ListingSuffices'
  <2>1. Cardinality(pending \ {c}) = Cardinality(pending) - 1
    BY <1>0, <1>7, FS_RemoveElement DEF KillNext
  <2>2. QED
    BY <1>0, <1>7, <2>1 DEF KillNext
<1>8. CASE StopReturns
  BY <1>0, <1>8 DEF StopReturns, StopEnds, StopTimesOut, StopRefused, Resume
<1>9. CASE EndPass
  BY <1>9 DEF EndPass
<1>10. CASE Restart
  BY <1>10 DEF Restart
<1>11. CASE UNCHANGED vars
  BY <1>11 DEF vars
<1>12. QED
  BY <1>1, <1>2, <1>3, <1>4, <1>5, <1>6, <1>7, <1>8, <1>9, <1>10, <1>11
  DEF Next, Daemon, Docker

-----------------------------------------------------------------------------
(* The quota.                                                              *)

\* What the listing of a pass still guarantees when its next container is
\* stopped: a container with a quota behind it in the listing has a quota of
\* heirs in the world, however stale the listing is.
PendingHeirs ==
    \A c \in pending : Cardinality(Behind(c) \cap pending) >= Desired(pass) =>
        Cardinality(Healthy \cap Behind(c)) + lost[pass] >= Desired(pass)

IInv == TypeInv /\ ListingSuffices /\ HeirsRemain /\ PendingHeirs

\* A step that tells nobody to stop and kills nobody healthy disturbs neither.
LEMMA Undisturbed ==
    ASSUME TypeInv, TypeInv', HeirsRemain, PendingHeirs,
           Healthy \subseteq Healthy', Doomed' \subseteq Doomed, lost' = lost,
           pending' = {} \/ (pending' = pending /\ pass' = pass)
    PROVE  HeirsRemain' /\ PendingHeirs'
<1>1. ASSUME NEW c
      PROVE  /\ Cardinality(Healthy \cap Behind(c)) <= Cardinality(Healthy' \cap Behind(c))
             /\ Cardinality(Healthy \cap Behind(c)) \in Nat
             /\ Cardinality(Healthy' \cap Behind(c)) \in Nat
  <2>1. IsFiniteSet(Healthy' \cap Behind(c))
    BY FS_Subset DEF TypeInv, Shape, Healthy
  <2>2. Healthy \cap Behind(c) \subseteq Healthy' \cap Behind(c)
    OBVIOUS
  <2>3. IsFiniteSet(Healthy \cap Behind(c))
    BY <2>1, <2>2, FS_Subset
  <2>4. QED
    BY <2>1, <2>2, <2>3, FS_Subset, FS_CardinalityType
<1>2. HeirsRemain'
  <2>1. SUFFICES ASSUME NEW c \in Doomed'
        PROVE Cardinality(Healthy' \cap Behind(c)) + lost'[ClassOf(c)] >= Desired(ClassOf(c))
    BY DEF HeirsRemain
  <2>2. c \in Container
    BY DEF Doomed, TypeInv, TypeOK
  <2>3. Desired(ClassOf(c)) \in Nat /\ lost[ClassOf(c)] \in Nat
    BY <2>2, ClassFacts, DesiredType DEF TypeInv, TypeOK
  <2>4. Cardinality(Healthy \cap Behind(c)) + lost[ClassOf(c)] >= Desired(ClassOf(c))
    BY DEF HeirsRemain
  <2>5. QED
    BY <1>1, <2>3, <2>4
<1>3. PendingHeirs'
  <2>1. SUFFICES ASSUME pending' = pending, pass' = pass, NEW c \in pending,
                        Cardinality(Behind(c) \cap pending) >= Desired(pass)
        PROVE Cardinality(Healthy' \cap Behind(c)) + lost'[pass] >= Desired(pass)
    BY DEF PendingHeirs
  <2>2. Desired(pass) \in Nat /\ lost[pass] \in Nat
    BY DesiredType DEF TypeInv, TypeOK
  <2>3. Cardinality(Healthy \cap Behind(c)) + lost[pass] >= Desired(pass)
    BY <2>1 DEF PendingHeirs
  <2>4. Cardinality(Healthy \cap Behind(c)) <= Cardinality(Healthy' \cap Behind(c))
    BY <1>1
  <2>5. Cardinality(Healthy \cap Behind(c)) \in Nat /\ Cardinality(Healthy' \cap Behind(c)) \in Nat
    BY <1>1
  <2>6. QED
    BY <2>2, <2>3, <2>4, <2>5
<1>4. QED
  BY <1>2, <1>3

\* Who is healthy is finite, whatever subset is counted, and one death costs one.
LEMMA HealthyCount ==
    ASSUME TypeInv, NEW S
    PROVE  /\ IsFiniteSet(Healthy \cap S) /\ Cardinality(Healthy \cap S) \in Nat
           /\ \A T \in SUBSET (Healthy \cap S) :
                 Cardinality(T) \in Nat /\ Cardinality(T) <= Cardinality(Healthy \cap S)
<1>1. IsFiniteSet(Healthy \cap S)
  BY FS_Subset DEF TypeInv, Shape, Healthy
<1>2. ASSUME NEW T \in SUBSET (Healthy \cap S)
      PROVE  Cardinality(T) \in Nat /\ Cardinality(T) <= Cardinality(Healthy \cap S)
  BY <1>1, FS_Subset, FS_CardinalityType
<1>3. QED
  BY <1>1, <1>2, FS_CardinalityType

\* An unordered death takes one healthy container and is counted in lost.
LEMMA CrashStep ==
    ASSUME IInv, NEW c \in Container, Crash(c)
    PROVE  HeirsRemain' /\ PendingHeirs'
<1>1. /\ Doomed' = Doomed /\ Healthy' = Healthy \ {c}
      /\ pass' = pass /\ pending' = pending
      /\ lost' = [lost EXCEPT ![ClassOf(c)] = @ + 1]
  BY DEF Crash, Doomed, Healthy
<1>2. TypeInv /\ HeirsRemain /\ PendingHeirs /\ lost \in [Class -> Nat] /\ pass \in Class
  BY DEF IInv, TypeInv, TypeOK
<1>3. ASSUME NEW d \in Container,
             Cardinality(Healthy \cap Behind(d)) + lost[ClassOf(d)] >= Desired(ClassOf(d))
      PROVE  Cardinality(Healthy' \cap Behind(d)) + lost'[ClassOf(d)] >= Desired(ClassOf(d))
  <2>1. Cardinality(Healthy \cap Behind(d)) \in Nat /\ IsFiniteSet(Healthy \cap Behind(d))
    BY <1>2, HealthyCount
  <2>2. lost[ClassOf(d)] \in Nat /\ Desired(ClassOf(d)) \in Nat
    BY <1>2, ClassFacts, DesiredType
  <2>3. CASE c \in Healthy \cap Behind(d)
    <3>1. Healthy' \cap Behind(d) = (Healthy \cap Behind(d)) \ {c}
      BY <1>1
    <3>2. Cardinality(Healthy' \cap Behind(d)) = Cardinality(Healthy \cap Behind(d)) - 1
      BY <2>1, <2>3, <3>1, FS_RemoveElement
    <3>3. lost'[ClassOf(d)] = lost[ClassOf(d)] + 1
      BY <1>1, <1>2, <2>3, BehindTransitive, ClassFacts
    <3>4. QED
      BY <1>3, <2>1, <2>2, <3>2, <3>3
  <2>4. CASE c \notin Healthy \cap Behind(d)
    <3>1. Healthy' \cap Behind(d) = Healthy \cap Behind(d)
      BY <1>1, <2>4
    <3>2. lost'[ClassOf(d)] \in Nat /\ lost'[ClassOf(d)] >= lost[ClassOf(d)]
      BY <1>1, <1>2, <2>2, ClassFacts
    <3>3. Cardinality(Healthy' \cap Behind(d)) = Cardinality(Healthy \cap Behind(d))
      BY <3>1
    <3>4. QED
      BY <1>3, <2>1, <2>2, <3>2, <3>3
  <2>5. QED
    BY <2>3, <2>4
<1>4. HeirsRemain'
  BY <1>1, <1>2, <1>3 DEF HeirsRemain, Doomed, TypeInv, TypeOK
<1>5. PendingHeirs'
  <2>1. SUFFICES ASSUME NEW d \in pending, Cardinality(Behind(d) \cap pending) >= Desired(pass)
                 PROVE  Cardinality(Healthy' \cap Behind(d)) + lost'[pass] >= Desired(pass)
    BY <1>1 DEF PendingHeirs
  <2>2. d \in Container /\ ClassOf(d) = pass
    BY <1>2, ClassOfMember DEF TypeInv, TypeOK
  <2>3. QED
    BY <1>2, <1>3, <2>1, <2>2 DEF PendingHeirs
<1>6. QED
  BY <1>4, <1>5

\* A new listing is as good as the world it was taken from: a container with a
\* doomed one behind it inherits the heirs of that one, any other has all of its
\* heirs healthy.
LEMMA ListStep ==
    ASSUME IInv, List
    PROVE  HeirsRemain' /\ PendingHeirs'
<1>1. /\ Doomed' = Doomed /\ Healthy' = Healthy /\ pass' = pass
      /\ pending' = running \cap Members(pass)
      /\ lost' = IF Doomed \cap Members(pass) = {} THEN [lost EXCEPT ![pass] = 0] ELSE lost
  BY DEF List, Doomed, Healthy
<1>2. TypeInv /\ HeirsRemain /\ lost \in [Class -> Nat] /\ pass \in Class
      /\ Doomed \subseteq running /\ running \subseteq Container
  BY DEF IInv, TypeInv, TypeOK, Doomed
<1>3. \A d \in Doomed : lost'[ClassOf(d)] = lost[ClassOf(d)]
  BY <1>1, <1>2, ClassFacts
<1>4. HeirsRemain'
  BY <1>1, <1>2, <1>3 DEF HeirsRemain
<1>5. PendingHeirs'
  <2>1. SUFFICES ASSUME NEW c \in running \cap Members(pass),
                        Cardinality(Behind(c) \cap (running \cap Members(pass))) >= Desired(pass)
                 PROVE  Cardinality(Healthy \cap Behind(c)) + lost'[pass] >= Desired(pass)
    BY <1>1 DEF PendingHeirs
  <2>2. c \in Container /\ ClassOf(c) = pass /\ lost'[pass] \in Nat /\ Desired(pass) \in Nat
    BY <1>1, <1>2, ClassOfMember, DesiredType
  <2>3. CASE \E d \in Doomed : d \in Behind(c)
    <3>1. PICK d \in Doomed : d \in Behind(c)
      BY <2>3
    <3>2. d \in Container /\ ClassOf(d) = pass /\ Behind(d) \subseteq Behind(c)
      BY <2>2, <3>1, BehindTransitive
    <3>3. Cardinality(Healthy \cap Behind(d)) + lost'[pass] >= Desired(pass)
      BY <1>2, <1>3, <3>1, <3>2 DEF HeirsRemain
    <3>4. /\ Cardinality(Healthy \cap Behind(d)) <= Cardinality(Healthy \cap Behind(c))
          /\ Cardinality(Healthy \cap Behind(d)) \in Nat
          /\ Cardinality(Healthy \cap Behind(c)) \in Nat
      BY <1>2, <3>2, HealthyCount
    <3>5. QED
      BY <2>2, <3>3, <3>4
  <2>4. CASE \A d \in Doomed : d \notin Behind(c)
    <3>1. Behind(c) \cap (running \cap Members(pass)) \subseteq Healthy \cap Behind(c)
      BY <2>4 DEF Healthy
    <3>2. /\ Cardinality(Behind(c) \cap (running \cap Members(pass))) \in Nat
          /\ Cardinality(Healthy \cap Behind(c)) \in Nat
          /\ Cardinality(Behind(c) \cap (running \cap Members(pass)))
               <= Cardinality(Healthy \cap Behind(c))
      BY <1>2, <3>1, HealthyCount
    <3>3. QED
      BY <2>1, <2>2, <3>2
  <2>5. QED
    BY <2>3, <2>4
<1>6. QED
  BY <1>4, <1>5

\* The container stopped next has a quota behind it in the listing, because the
\* counter says so, and therefore a quota of heirs.
LEMMA KillLeavesHeirs ==
    ASSUME IInv, NEW c \in Container, KillNext(c)
    PROVE  /\ ClassOf(c) = pass /\ pass \in Class
           /\ Cardinality(Healthy \cap Behind(c)) + lost[pass] >= Desired(pass)
<1>1. c \in pending /\ \A d \in pending \ {c} : d \in Behind(c)
  BY DEF KillNext
<1>2. /\ pass \in Class /\ pending \subseteq Members(pass) /\ IsFiniteSet(pending)
      /\ Desired(pass) \in Nat /\ ClassOf(c) = pass /\ toKill \in Nat
  BY <1>1, DesiredType, ClassOfMember DEF IInv, TypeInv, TypeOK, Shape
<1>3. Behind(c) \cap pending = pending \ {c}
  BY <1>1, ClassFacts
<1>4. Cardinality(pending \ {c}) = Cardinality(pending) - 1
  BY <1>1, <1>2, FS_RemoveElement
<1>5. Cardinality(pending) = toKill + Desired(pass) /\ toKill > 0
  BY <1>2 DEF IInv, ListingSuffices, KillNext
<1>6. Cardinality(Behind(c) \cap pending) = Cardinality(pending) - 1
  BY <1>3, <1>4
<1>7. Cardinality(Behind(c) \cap pending) >= Desired(pass)
  BY <1>2, <1>5, <1>6
<1>8. QED
  BY <1>1, <1>2, <1>7 DEF PendingHeirs, IInv

\* No container already doomed, or still to come, loses heirs by a stop: the ones
\* with the target behind them keep the heirs of the target.
LEMMA KillStep ==
    ASSUME IInv, NEW c \in Container, KillNext(c)
    PROVE  HeirsRemain' /\ PendingHeirs'
<1>1. /\ Healthy' = Healthy \ {c} /\ Doomed' \subseteq Doomed \cup {c}
      /\ pass' = pass /\ lost' = lost /\ pending' = pending \ {c}
      /\ c \in pending /\ \A d \in pending \ {c} : d \in Behind(c)
  BY DEF KillNext, Healthy, Doomed, world, IInv, TypeInv, Shape
<1>2. /\ TypeInv /\ HeirsRemain /\ PendingHeirs /\ lost \in [Class -> Nat] /\ pass \in Class
      /\ Doomed \subseteq Container /\ pending \subseteq Members(pass)
      /\ Desired(pass) \in Nat /\ ClassOf(c) = pass
  BY <1>1, DesiredType, ClassOfMember DEF IInv, TypeInv, TypeOK, Doomed, Shape
<1>3. Cardinality(Healthy \cap Behind(c)) + lost[pass] >= Desired(pass)
  BY KillLeavesHeirs
<1>4. ASSUME NEW d \in Container, c \in Behind(d) \/ c = d
      PROVE  Cardinality(Healthy' \cap Behind(d)) + lost'[ClassOf(d)] >= Desired(ClassOf(d))
  <2>1. ClassOf(d) = pass /\ Behind(c) \subseteq Behind(d)
    BY <1>2, <1>4, BehindTransitive
  <2>2. Healthy \cap Behind(c) \subseteq Healthy' \cap Behind(d)
    BY <1>1, <2>1, ClassFacts
  <2>3. Healthy' \cap Behind(d) \subseteq Healthy \cap Behind(d)
    BY <1>1
  <2>4. IsFiniteSet(Healthy' \cap Behind(d))
    BY <1>2, <2>3, HealthyCount, FS_Subset
  <2>5. /\ Cardinality(Healthy \cap Behind(c)) <= Cardinality(Healthy' \cap Behind(d))
        /\ Cardinality(Healthy' \cap Behind(d)) \in Nat
        /\ Cardinality(Healthy \cap Behind(c)) \in Nat
    BY <2>2, <2>4, FS_Subset, FS_CardinalityType
  <2>6. QED
    BY <1>1, <1>2, <1>3, <2>1, <2>5
<1>5. ASSUME NEW d \in Container, c \notin Behind(d)
      PROVE  Healthy' \cap Behind(d) = Healthy \cap Behind(d)
  BY <1>1, <1>5
<1>6. HeirsRemain'
  <2>1. SUFFICES ASSUME NEW d \in Doomed'
        PROVE  Cardinality(Healthy' \cap Behind(d)) + lost'[ClassOf(d)] >= Desired(ClassOf(d))
    BY DEF HeirsRemain
  <2>2. CASE c \in Behind(d) \/ c = d
    BY <1>1, <1>2, <1>4, <2>2
  <2>3. CASE c \notin Behind(d) /\ c # d
    BY <1>1, <1>2, <1>5, <2>3 DEF HeirsRemain
  <2>4. QED
    BY <2>2, <2>3
<1>7. PendingHeirs'
  <2>1. SUFFICES ASSUME NEW d \in pending \ {c},
                        Cardinality(Behind(d) \cap (pending \ {c})) >= Desired(pass)
                 PROVE  Cardinality(Healthy' \cap Behind(d)) + lost[pass] >= Desired(pass)
    BY <1>1 DEF PendingHeirs
  <2>2. d \in Container /\ ClassOf(d) = pass /\ c \notin Behind(d)
    BY <1>1, <1>2, ClassOfMember, BehindTransitive, ClassFacts
  <2>3. Behind(d) \cap (pending \ {c}) = Behind(d) \cap pending
    BY <2>2
  <2>4. QED
    BY <1>2, <1>5, <2>1, <2>2, <2>3 DEF PendingHeirs
<1>8. QED
  BY <1>6, <1>7

LEMMA IInvInit == Init => IInv
<1>1. Init => ListingSuffices /\ HeirsRemain /\ PendingHeirs
  BY DEF Init, ListingSuffices, HeirsRemain, PendingHeirs, Doomed
<1>2. QED
  BY <1>1, TypeInvInit DEF IInv

LEMMA IInvStep == IInv /\ [Next]_vars => IInv'
<1> SUFFICES ASSUME IInv, [Next]_vars PROVE IInv'
  OBVIOUS
<1>1. TypeInv /\ TypeInv' /\ ListingSuffices' /\ HeirsRemain /\ PendingHeirs
  BY TypeInvStep, ListingStep DEF IInv
<1>2. stopping \subseteq running /\ (pc = "stop" \/ inflight = {})
      /\ (pc \in {"sleep", "list"} => pending = {})
  BY <1>1 DEF TypeInv, TypeOK, Shape
<1> SUFFICES HeirsRemain' /\ PendingHeirs'
  BY <1>1 DEF IInv
<1> USE DEF Healthy, Doomed, world
<1>3. ASSUME NEW c \in Container, Launch(c) PROVE HeirsRemain' /\ PendingHeirs'
  <2>1. c \notin running /\ inflight \subseteq launched /\ stopping \subseteq launched
    BY <1>1, <1>3 DEF Launch, TypeInv, TypeOK
  <2>2. QED
    BY <1>1, <1>3, <2>1, Undisturbed DEF Launch
<1>4. ASSUME NEW c \in Container, Exit(c) PROVE HeirsRemain' /\ PendingHeirs'
  BY <1>1, <1>4, Undisturbed DEF Exit
<1>5. ASSUME NEW c \in Container, Crash(c) PROVE HeirsRemain' /\ PendingHeirs'
  BY <1>5, CrashStep
<1>6. CASE Wake
  BY <1>1, <1>2, <1>6, Undisturbed DEF Wake
<1>7. CASE List
  BY <1>7, ListStep
<1>8. CASE ListFails
  BY <1>1, <1>8, Undisturbed DEF ListFails
<1>9. ASSUME NEW c \in Container, KillNext(c) PROVE HeirsRemain' /\ PendingHeirs'
  BY <1>9, KillStep
<1>10. CASE StopEnds
  BY <1>1, <1>10, Undisturbed DEF StopEnds, Resume
<1>11. CASE StopTimesOut
  BY <1>1, <1>11, Undisturbed DEF StopTimesOut, Resume
<1>12. CASE StopRefused
  BY <1>1, <1>12, Undisturbed DEF StopRefused, Resume
<1>13. CASE EndPass
  BY <1>1, <1>13, Undisturbed DEF EndPass
<1>14. CASE Restart
  BY <1>1, <1>14, Undisturbed DEF Restart
<1>15. CASE UNCHANGED vars
  BY <1>1, <1>15, Undisturbed DEF vars
<1>16. QED
  BY <1>1, <1>3, <1>4, <1>5, <1>6, <1>7, <1>8, <1>9, <1>10, <1>11, <1>12, <1>13, <1>14,
     <1>15
  DEF Next, Daemon, Docker, StopReturns

\* Behind each container told to stop, a quota that was not: whatever the
\* containers, the quotas, the faults and the interleaving.
THEOREM HeirsAlwaysRemain == Spec => []HeirsRemain
<1>1. IInv => HeirsRemain
  BY DEF IInv
<1>2. QED
  BY <1>1, IInvInit, IInvStep, PTL DEF Spec

\* The counter of a pass never outlives its listing.
THEOREM ListingAlwaysSuffices == Spec => []ListingSuffices
<1>1. IInv => ListingSuffices
  BY DEF IInv
<1>2. QED
  BY <1>1, IInvInit, IInvStep, PTL DEF Spec

\* The daemon's stops alone never take a class below its quota.
THEOREM QuotaAlwaysKept == Spec => []QuotaKept
<1>1. IInv => QuotaKept
  <2>1. SUFFICES ASSUME IInv, NEW k \in Class, NEW c \in Doomed, c \in Members(k)
                 PROVE  Cardinality(Healthy \cap Members(k)) + lost[k] >= Desired(k)
    BY DEF QuotaKept
  <2>2. c \in Container /\ ClassOf(c) = k /\ Behind(c) \subseteq Members(k)
    BY <2>1, ClassOfMember, ClassFacts
  <2>3. Cardinality(Healthy \cap Behind(c)) + lost[k] >= Desired(k)
    BY <2>1, <2>2 DEF IInv, HeirsRemain
  <2>4. /\ Cardinality(Healthy \cap Behind(c)) <= Cardinality(Healthy \cap Members(k))
        /\ Cardinality(Healthy \cap Behind(c)) \in Nat
        /\ Cardinality(Healthy \cap Members(k)) \in Nat
    BY <2>1, <2>2, HealthyCount DEF IInv
  <2>5. lost[k] \in Nat /\ Desired(k) \in Nat
    BY <2>1, DesiredType DEF IInv, TypeInv, TypeOK
  <2>6. QED
    BY <2>3, <2>4, <2>5
<1>2. QED
  BY <1>1, IInvInit, IInvStep, PTL DEF Spec
=============================================================================
