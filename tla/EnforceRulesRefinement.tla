----------------------- MODULE EnforceRulesRefinement -----------------------
(***************************************************************************)
(* Each pass of EnforceRules implements QuotaControl for its class.        *)
(***************************************************************************)
EXTENDS EnforceRulesProofs

\* What the abstract controller of class k sees.
R(k) == running \cap Members(k)
D(k) == Doomed \cap Members(k)

\* The steps of the abstract controller, for the class k.
ClassStep(k) ==
    \/ \E c \in Members(k) :
          \/ c \notin R(k) /\ R(k)' = R(k) \cup {c} /\ D(k)' = D(k) /\ lost'[k] = lost[k]
          \/ /\ c \in R(k) \ D(k) /\ R(k)' = R(k) \ {c} /\ D(k)' = D(k)
             /\ lost'[k] = lost[k] + 1
          \/ /\ c \in R(k) \ D(k)
             /\ Cardinality((R(k) \ D(k)) \cap Behind(c)) + lost[k] >= Desired(k)
             /\ D(k)' = D(k) \cup {c} /\ R(k)' = R(k) /\ lost'[k] = lost[k]
          \/ c \in D(k) /\ D(k)' = D(k) \ {c} /\ R(k)' = R(k) /\ lost'[k] = lost[k]
          \/ /\ c \in D(k) /\ R(k)' = R(k) \ {c} /\ D(k)' = D(k) \ {c}
             /\ lost'[k] = lost[k]
    \/ D(k) = {} /\ lost'[k] = 0 /\ R(k)' = R(k) /\ D(k)' = D(k)
    \/ R(k)' = R(k) /\ D(k)' = D(k) /\ lost'[k] = lost[k]

\* The daemon withdraws at most one order: that of the docker stop in progress.
LEMMA Withdrawal ==
    ASSUME IInv, NEW k \in Class, running' = running, lost' = lost,
           \/ stopping' = stopping
           \/ stopping' = stopping \cup (inflight \cap running),
           inflight' = {}
    PROVE  ClassStep(k)
<1>1. stopping \subseteq running /\ (inflight = {} \/ \E c \in launched : inflight = {c})
  BY DEF IInv, TypeInv, TypeOK, Shape
<1>2. CASE D(k)' = D(k)
  BY <1>2 DEF ClassStep, R
<1>3. CASE D(k)' # D(k)
  <2>1. stopping' = stopping /\ Doomed' = stopping /\ Doomed = stopping \cup (inflight \cap running)
    BY <1>1, <1>3 DEF D, Doomed
  <2>2. PICK c : inflight = {c}
    BY <1>1, <1>3, <2>1 DEF D
  <2>3. c \in D(k) /\ c \in Members(k) /\ D(k)' = D(k) \ {c}
    BY <1>3, <2>1, <2>2 DEF D
  <2>4. QED
    BY <2>3 DEF ClassStep, R
<1>4. QED
  BY <1>2, <1>3

\* Every step of the daemon and of docker is one of them, or changes nothing.
LEMMA ClassStepLemma ==
    ASSUME IInv, [Next]_vars, NEW k \in Class
    PROVE  ClassStep(k)
<1>1. /\ launched \subseteq Container /\ running \subseteq launched /\ stopping \subseteq running
      /\ inflight \subseteq launched /\ lost \in [Class -> Nat]
      /\ (pc = "stop" \/ inflight = {})
  BY DEF IInv, TypeInv, TypeOK, Shape
<1> USE DEF R, D, Doomed, world
<1>2. ASSUME NEW c \in Container, Launch(c) PROVE ClassStep(k)
  BY <1>1, <1>2 DEF Launch, ClassStep
<1>3. ASSUME NEW c \in Container, Crash(c) PROVE ClassStep(k)
  <2>1. c \in running /\ c \notin Doomed /\ running' = running \ {c} /\ Doomed' = Doomed
        /\ lost' = [lost EXCEPT ![ClassOf(c)] = @ + 1]
    BY <1>3 DEF Crash, Healthy
  <2>2. CASE c \in Members(k)
    <3>1. lost'[k] = lost[k] + 1
      BY <1>1, <2>1, <2>2, ClassOfMember
    <3>2. QED
      BY <2>1, <2>2, <3>1 DEF ClassStep
  <2>3. CASE c \notin Members(k)
    <3>1. lost'[k] = lost[k]
      BY <1>1, <2>1, <2>3, ClassFacts
    <3>2. QED
      BY <2>1, <2>3, <3>1 DEF ClassStep
  <2>4. QED
    BY <2>2, <2>3
<1>4. ASSUME NEW c \in Container, Exit(c) PROVE ClassStep(k)
  <2>1. running' = running \ {c} /\ Doomed' = Doomed \ {c} /\ c \in Doomed /\ lost' = lost
    BY <1>4 DEF Exit
  <2>2. CASE c \in Members(k)
    BY <2>1, <2>2 DEF ClassStep
  <2>3. CASE c \notin Members(k)
    BY <2>1, <2>3 DEF ClassStep
  <2>4. QED
    BY <2>2, <2>3
<1>5. CASE Wake
  BY <1>5 DEF Wake, ClassStep
<1>6. CASE List
  <2>1. running' = running /\ Doomed' = Doomed
        /\ lost' = IF Doomed \cap Members(pass) = {} THEN [lost EXCEPT ![pass] = 0] ELSE lost
    BY <1>6 DEF List
  <2>2. CASE k = pass /\ Doomed \cap Members(pass) = {}
    BY <1>1, <2>1, <2>2 DEF ClassStep
  <2>3. CASE ~(k = pass /\ Doomed \cap Members(pass) = {})
    <3>1. lost'[k] = lost[k]
      BY <1>1, <2>1, <2>3
    <3>2. QED
      BY <2>1, <3>1 DEF ClassStep
  <2>4. QED
    BY <2>2, <2>3
<1>7. CASE ListFails
  BY <1>7 DEF ListFails, ClassStep
<1>8. ASSUME NEW c \in Container, KillNext(c) PROVE ClassStep(k)
  <2>1. running' = running /\ lost' = lost /\ Doomed' = Doomed \cup ({c} \cap running)
    BY <1>1, <1>8 DEF KillNext
  <2>2. CASE c \in Members(k) /\ c \in running \ Doomed
    <3>1. pass = k /\ Behind(c) \subseteq Members(k)
      BY <1>8, <2>2, KillLeavesHeirs, ClassOfMember, ClassFacts
    <3>2. (R(k) \ D(k)) \cap Behind(c) = Healthy \cap Behind(c)
      BY <3>1 DEF Healthy
    <3>3. Cardinality((R(k) \ D(k)) \cap Behind(c)) + lost[k] >= Desired(k)
      BY <1>8, <3>1, <3>2, KillLeavesHeirs
    <3>4. c \in R(k) \ D(k) /\ R(k)' = R(k) /\ D(k)' = D(k) \cup {c}
      BY <2>1, <2>2
    <3>5. QED
      BY <2>1, <2>2, <3>3, <3>4 DEF ClassStep
  <2>3. CASE ~(c \in Members(k) /\ c \in running \ Doomed)
    BY <2>1, <2>3 DEF ClassStep
  <2>4. QED
    BY <2>2, <2>3
<1>9. CASE StopEnds
  BY <1>9, Withdrawal DEF StopEnds, Resume
<1>10. CASE StopTimesOut
  <2>1. stopping' = stopping \cup (inflight \cap running)
    BY <1>10 DEF StopTimesOut
  <2>2. QED
    BY <1>10, <2>1, Withdrawal DEF StopTimesOut, Resume
<1>11. CASE StopRefused
  BY <1>11, Withdrawal DEF StopRefused, Resume
<1>12. CASE EndPass
  BY <1>12 DEF EndPass, ClassStep
<1>13. CASE Restart
  BY <1>13, Withdrawal DEF Restart
<1>14. CASE UNCHANGED vars
  BY <1>14 DEF vars, ClassStep
<1>15. QED
  BY <1>2, <1>3, <1>4, <1>5, <1>6, <1>7, <1>8, <1>9, <1>10, <1>11, <1>12, <1>13, <1>14
  DEF Next, Daemon, Docker, StopReturns

\* The high pass implements the abstract controller of the high class.
THEOREM HighImplementsQuotaControl == Spec => ControlsHigh
<1>1. Init => HighControl!Init
  BY DEF Init, HighControl!Init, Doomed, Class
<1>2. IInv /\ [Next]_vars => [HighControl!Next]_HighControl!vars
  <2>1. SUFFICES ASSUME IInv, [Next]_vars PROVE [HighControl!Next]_HighControl!vars
    OBVIOUS
  <2>2. "high" \in Class
    BY DEF Class
  <2>3. ClassStep("high")
    BY <2>1, <2>2, ClassStepLemma
  <2>4. \A S : HighControl!Cardinality(S) = Cardinality(S)
    BY DEF HighControl!Cardinality, Cardinality
  <2>5. QED
    BY <2>3, <2>4 DEF ClassStep, R, D, HighControl!Next, HighControl!vars, HighControl!Arrive,
       HighControl!Die, HighControl!Doom, HighControl!Spare, HighControl!Leave,
       HighControl!Settle
<1>3. QED
  BY <1>1, <1>2, IInvInit, IInvStep, PTL DEF Spec, ControlsHigh, HighControl!Spec

\* The low pass implements the abstract controller of the low class.
THEOREM LowImplementsQuotaControl == Spec => ControlsLow
<1>1. Init => LowControl!Init
  BY DEF Init, LowControl!Init, Doomed, Class
<1>2. IInv /\ [Next]_vars => [LowControl!Next]_LowControl!vars
  <2>1. SUFFICES ASSUME IInv, [Next]_vars PROVE [LowControl!Next]_LowControl!vars
    OBVIOUS
  <2>2. "low" \in Class
    BY DEF Class
  <2>3. ClassStep("low")
    BY <2>1, <2>2, ClassStepLemma
  <2>4. \A S : LowControl!Cardinality(S) = Cardinality(S)
    BY DEF LowControl!Cardinality, Cardinality
  <2>5. QED
    BY <2>3, <2>4 DEF ClassStep, R, D, LowControl!Next, LowControl!vars, LowControl!Arrive,
       LowControl!Die, LowControl!Doom, LowControl!Spare, LowControl!Leave,
       LowControl!Settle
<1>3. QED
  BY <1>1, <1>2, IInvInit, IInvStep, PTL DEF Spec, ControlsLow, LowControl!Spec
=============================================================================
