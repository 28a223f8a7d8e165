----------------------- MODULE MonitorContainersProofs -----------------------
(***************************************************************************)
(* Theorems about the half of the containers in MonitorCycle: what the     *)
(* sums over the processes of a command line add up to, and that what is   *)
(* recorded is of the interval between two reads, for any machine.         *)
(***************************************************************************)
EXTENDS MonitorCycleProofs

-----------------------------------------------------------------------------
(* Induction, as membership in a set.                                      *)

LEMMA Counting ==
    ASSUME NEW N, 0 \in N, \A k \in Nat : k \in N => k + 1 \in N
    PROVE  Nat \subseteq N
<1> DEFINE Less == OpToRel(<, Nat)
           Missing == Nat \ N
<1> SUFFICES ASSUME Missing # {} PROVE FALSE
  OBVIOUS
<1>1. IsWellFoundedOn(Less, Nat)
  BY NatLessThanWellFounded, Zenon
<1>2. \A k, n \in Nat : k < n => <<k, n>> \in Less
  BY DEF OpToRel
<1> HIDE DEF Less
<1>3. PICK n \in Missing : \A k \in Missing : <<k, n>> \notin Less
  BY <1>1, WFMin
<1>4. n \in Nat /\ n # 0 /\ n - 1 \in Nat /\ n - 1 < n /\ (n - 1) + 1 = n
  BY <1>3
<1>5. n - 1 \notin N
  BY <1>3, <1>4
<1>6. QED
  BY <1>2, <1>3, <1>4, <1>5

\* What holds of a subset when it holds of all smaller ones, holds of all.
LEMMA SubsetInduction ==
    ASSUME NEW S, IsFiniteSet(S), NEW Good,
           \A A \in SUBSET S : (\A B \in SUBSET A : B # A => B \in Good) => A \in Good
    PROVE  SUBSET S \subseteq Good
<1> DEFINE Smaller == StrictSubsetOrdering(S)
           Bad == (SUBSET S) \ Good
<1> SUFFICES ASSUME Bad # {} PROVE FALSE
  OBVIOUS
<1>1. IsWellFoundedOn(Smaller, SUBSET S)
  <2>1. FiniteSubsetsOf(S) = SUBSET S
    BY FS_FiniteSubsetsOfFinite
  <2>2. IsWellFoundedOn(StrictSubsetOrdering(S), FiniteSubsetsOf(S))
    BY FS_StrictSubsetOrderingWellFounded
  <2>3. QED
    BY <2>1, <2>2
<1>2. \A A, B \in SUBSET S : B \subseteq A /\ B # A => <<B, A>> \in Smaller
  BY DEF StrictSubsetOrdering
<1>3. Bad \subseteq SUBSET S /\ \A B \in SUBSET S : B \in Bad <=> B \notin Good
  OBVIOUS
<1> HIDE DEF Smaller, Bad
<1>4. PICK A \in Bad : \A B \in Bad : <<B, A>> \notin Smaller
  BY <1>1, <1>3, WFMin
<1>5. \A B \in SUBSET A : B # A => B \in Good
  <2> TAKE B \in SUBSET A
  <2>1. A \in SUBSET S /\ B \in SUBSET S
    BY <1>3, <1>4
  <2>2. ASSUME B # A PROVE B \in Good
    <3>1. <<B, A>> \in Smaller
      BY <1>2, <2>1, <2>2
    <3>2. QED
      BY <1>3, <1>4, <2>1, <3>1
  <2>3. QED
    BY <2>2
<1>6. QED
  BY <1>3, <1>4, <1>5

-----------------------------------------------------------------------------
(* Sums of CPU time.                                                       *)

\* The CPU time of the processes A of the table ps.
Cpu(ps, A) == MapThenSumSet(LAMBDA p : ps[p].cpu, A)

First(B) == CHOOSE x \in B : TRUE

\* A function that sums like MapThenSumSet, on the subsets of S with up to n elements.
SumsUpTo(ps, S, n) ==
    {h \in [SUBSET S -> Nat] :
        \A B \in SUBSET S : Cardinality(B) <= n =>
            h[B] = IF B = {} THEN 0 ELSE ps[First(B)].cpu + h[B \ {First(B)}]}

HasCpu(ps, A) == \A p \in A : ps[p].cpu \in Nat

\* h is one, whatever the number of elements.
IsSum(ps, S, h) ==
    \A B \in SUBSET S :
        h[B] = IF B = {} THEN 0 ELSE ps[First(B)].cpu + h[B \ {First(B)}]

Sums(ps, S) == {h \in [SUBSET S -> Nat] : IsSum(ps, S, h)}

LEMMA SumsExist ==
    ASSUME NEW S, IsFiniteSet(S), NEW ps, HasCpu(ps, S)
    PROVE  \A n \in Nat : SumsUpTo(ps, S, n) # {}
<1> DEFINE N == {n \in Nat : SumsUpTo(ps, S, n) # {}}
<1>0. /\ \A B \in SUBSET S : IsFiniteSet(B) /\ Cardinality(B) \in Nat
      /\ \A B \in SUBSET S : Cardinality(B) = 0 <=> B = {}
  BY FS_Subset, FS_CardinalityType, FS_EmptySet
<1>1. 0 \in N
  <2> DEFINE h == [B \in SUBSET S |-> 0]
  <2>1. h \in [SUBSET S -> Nat] /\ h[{}] = 0
    OBVIOUS
  <2>2. \A B \in SUBSET S : Cardinality(B) <= 0 => B = {}
    BY <1>0
  <2> HIDE DEF h
  <2>3. h \in SumsUpTo(ps, S, 0)
    BY <2>1, <2>2 DEF SumsUpTo
  <2>4. QED
    BY <2>3
<1>2. ASSUME NEW n \in Nat, n \in N
      PROVE  n + 1 \in N
  <2>1. PICK h \in SumsUpTo(ps, S, n) : TRUE
    BY <1>2
  <2>2. /\ h \in [SUBSET S -> Nat]
        /\ \A B \in SUBSET S : Cardinality(B) <= n =>
              h[B] = IF B = {} THEN 0 ELSE ps[First(B)].cpu + h[B \ {First(B)}]
    BY <2>1 DEF SumsUpTo
  <2>3. \A B \in SUBSET S : B # {} =>
           /\ First(B) \in B
           /\ B \ {First(B)} \in SUBSET S
           /\ Cardinality(B \ {First(B)}) = Cardinality(B) - 1
    BY <1>0, FS_RemoveElement DEF First
  <2> DEFINE Value(B) == IF B = {} THEN 0 ELSE ps[First(B)].cpu + h[B \ {First(B)}]
             g == [B \in SUBSET S |-> Value(B)]
  <2>4. \A B \in SUBSET S : Value(B) \in Nat
    <3> TAKE B \in SUBSET S
    <3>1. CASE B = {}
      BY <3>1
    <3>2. CASE B # {}
      <4>1. First(B) \in B /\ B \ {First(B)} \in SUBSET S
        BY <2>3, <3>2
      <4>2. ps[First(B)].cpu \in Nat /\ h[B \ {First(B)}] \in Nat
        BY <2>2, <4>1 DEF HasCpu
      <4>3. QED
        BY <3>2, <4>2
    <3>3. QED
      BY <3>1, <3>2
  <2>5. \A B \in SUBSET S : Cardinality(B) <= n => g[B] = h[B]
    BY <2>2
  <2>6. \A B \in SUBSET S : g[B] = Value(B)
    OBVIOUS
  <2>7. ASSUME NEW B \in SUBSET S, Cardinality(B) <= n + 1
        PROVE  g[B] = IF B = {} THEN 0 ELSE ps[First(B)].cpu + g[B \ {First(B)}]
    <3> HIDE DEF g
    <3>1. CASE B = {}
      BY <2>6, <3>1
    <3>2. CASE B # {}
      <4>1. g[B \ {First(B)}] = h[B \ {First(B)}]
        BY <1>0, <2>3, <2>5, <2>7, <3>2
      <4>2. QED
        BY <2>6, <3>2, <4>1
    <3>3. QED
      BY <3>1, <3>2
  <2>8. g \in [SUBSET S -> Nat]
    BY <2>4
  <2> HIDE DEF g
  <2>9. g \in SumsUpTo(ps, S, n + 1)
    BY <2>7, <2>8 DEF SumsUpTo
  <2>10. QED
    BY <2>9
<1> HIDE DEF N
<1>3. Nat \subseteq N
  BY <1>1, <1>2, Counting
<1>4. QED
  BY <1>3 DEF N

\* Two functions that sum on the subsets of S agree on them.
LEMMA SumsAgree ==
    ASSUME NEW S, IsFiniteSet(S), NEW ps, NEW h, IsSum(ps, S, h), NEW g, IsSum(ps, S, g)
    PROVE  \A B \in SUBSET S : h[B] = g[B]
<1> DEFINE Good == {B \in SUBSET S : h[B] = g[B]}
<1>1. ASSUME NEW A \in SUBSET S, \A B \in SUBSET A : B # A => B \in Good
      PROVE  A \in Good
  <2>1. CASE A = {}
    BY <2>1 DEF IsSum
  <2>2. CASE A # {}
    <3>1. First(A) \in A
      BY <2>2 DEF First
    <3>2. A \ {First(A)} \in Good
      BY <1>1, <3>1
    <3>3. QED
      BY <2>2, <3>2 DEF IsSum
  <2>3. QED
    BY <2>1, <2>2
<1> HIDE DEF Good
<1>2. SUBSET S \subseteq Good
  BY <1>1, SubsetInduction
<1>3. QED
  BY <1>2 DEF Good

\* MapThenSumSet is such a function's value, whatever the number of elements.
LEMMA CpuIsSum ==
    ASSUME NEW S, IsFiniteSet(S), NEW ps, HasCpu(ps, S)
    PROVE  \E h \in Sums(ps, S) : Cpu(ps, S) = h[S]
<1> DEFINE Value(h, B) == IF B = {} THEN 0 ELSE ps[First(B)].cpu + h[B \ {First(B)}]
           iter == CHOOSE h : h = [B \in SUBSET S |-> Value(h, B)]
<1>1. PICK h \in SumsUpTo(ps, S, Cardinality(S)) : TRUE
  BY SumsExist, FS_CardinalityType
<1>2. h \in [SUBSET S -> Nat] /\ IsSum(ps, S, h)
  BY <1>1, FS_Subset DEF SumsUpTo, IsSum
<1>3. h = [B \in SUBSET S |-> Value(h, B)]
  BY <1>2 DEF IsSum
<1>4. iter = [B \in SUBSET S |-> Value(iter, B)]
  BY <1>3
<1>5. Cpu(ps, S) = iter[S]
  BY DEF Cpu, MapThenSumSet, MapThenFoldSet, First
<1> HIDE DEF iter
<1>6. IsSum(ps, S, iter)
  BY <1>4 DEF IsSum
<1>7. iter[S] = h[S]
  BY <1>2, <1>6, SumsAgree
<1>8. QED
  BY <1>2, <1>5, <1>7 DEF Sums

\* The elements may be taken in any order.
LEMMA AnyFirst ==
    ASSUME NEW S, IsFiniteSet(S), NEW ps, HasCpu(ps, S), NEW h \in Sums(ps, S),
           NEW C \in SUBSET S, NEW z \in C
    PROVE  h[C] = ps[z].cpu + h[C \ {z}]
<1> DEFINE Good == {B \in SUBSET S : \A y \in B : h[B] = ps[y].cpu + h[B \ {y}]}
<1>1. ASSUME NEW A \in SUBSET S, \A B \in SUBSET A : B # A => B \in Good, NEW y \in A
      PROVE  h[A] = ps[y].cpu + h[A \ {y}]
  <2> DEFINE x == First(A)
  <2>1. x \in A /\ h[A] = ps[x].cpu + h[A \ {x}]
    BY DEF First, Sums, IsSum
  <2> HIDE DEF x
  <2>2. CASE x = y
    BY <2>1, <2>2
  <2>3. CASE x # y
    <3>1. h[A \ {x}] = ps[y].cpu + h[(A \ {x}) \ {y}]
      BY <1>1, <2>1, <2>3
    <3>2. h[A \ {y}] = ps[x].cpu + h[(A \ {y}) \ {x}]
      BY <1>1, <2>1, <2>3
    <3>3. h[(A \ {x}) \ {y}] = h[(A \ {y}) \ {x}]
      <4>1. (A \ {x}) \ {y} = (A \ {y}) \ {x}
        OBVIOUS
      <4>2. QED
        BY <4>1, Zenon
    <3>4. ps[x].cpu \in Nat /\ ps[y].cpu \in Nat /\ h[(A \ {x}) \ {y}] \in Nat
      BY <2>1 DEF HasCpu, Sums
    <3>5. QED
      BY <2>1, <3>1, <3>2, <3>3, <3>4
  <2>4. QED
    BY <2>2, <2>3
<1>2. ASSUME NEW A \in SUBSET S, \A B \in SUBSET A : B # A => B \in Good
      PROVE  A \in Good
  BY <1>1, <1>2
<1> HIDE DEF Good
<1>3. SUBSET S \subseteq Good
  BY <1>2, SubsetInduction
<1>4. QED
  BY <1>3 DEF Good

\* What is summed, and that each element can be taken out of the sum.
LEMMA CpuFacts ==
    ASSUME NEW S, IsFiniteSet(S), NEW ps, HasCpu(ps, S)
    PROVE  /\ Cpu(ps, S) \in Nat
           /\ S = {} => Cpu(ps, S) = 0
           /\ \A y \in S : Cpu(ps, S) = ps[y].cpu + Cpu(ps, S \ {y})
<1>1. PICK h \in Sums(ps, S) : Cpu(ps, S) = h[S]
  BY CpuIsSum
<1>2. ASSUME NEW y \in S
      PROVE  Cpu(ps, S) = ps[y].cpu + Cpu(ps, S \ {y})
  <2> DEFINE R == S \ {y}
  <2>1. IsFiniteSet(R) /\ HasCpu(ps, R) /\ R \in SUBSET S
    BY FS_Subset DEF HasCpu
  <2> HIDE DEF R
  <2>2. PICK g \in Sums(ps, R) : Cpu(ps, R) = g[R]
    BY <2>1, CpuIsSum
  <2>3. IsSum(ps, R, h) /\ IsSum(ps, R, g)
    BY <2>1 DEF Sums, IsSum
  <2>4. h[R] = g[R]
    BY <2>1, <2>3, SumsAgree
  <2>5. h[S] = ps[y].cpu + h[R]
    BY AnyFirst DEF R
  <2>6. QED
    BY <1>1, <2>2, <2>4, <2>5 DEF R
<1>3. S = {} => Cpu(ps, S) = 0
  BY <1>1 DEF Sums, IsSum
<1>4. QED
  BY <1>1, <1>2, <1>3 DEF Sums

\* The sum depends on the CPU times only.
LEMMA CpuSame ==
    ASSUME NEW S, IsFiniteSet(S), NEW ps, HasCpu(ps, S), NEW qs,
           \A p \in S : qs[p].cpu = ps[p].cpu
    PROVE  Cpu(qs, S) = Cpu(ps, S)
<1> DEFINE Good == {A \in SUBSET S : Cpu(qs, A) = Cpu(ps, A)}
<1>1. ASSUME NEW A \in SUBSET S, \A B \in SUBSET A : B # A => B \in Good
      PROVE  A \in Good
  <2>1. IsFiniteSet(A) /\ HasCpu(ps, A) /\ HasCpu(qs, A)
    BY FS_Subset DEF HasCpu
  <2>2. CASE A = {}
    BY <2>1, <2>2, CpuFacts
  <2>3. CASE A # {}
    <3>1. PICK y \in A : TRUE
      BY <2>3
    <3>2. Cpu(qs, A \ {y}) = Cpu(ps, A \ {y})
      BY <1>1, <3>1
    <3>3. /\ Cpu(qs, A) = qs[y].cpu + Cpu(qs, A \ {y})
          /\ Cpu(ps, A) = ps[y].cpu + Cpu(ps, A \ {y})
      BY <2>1, <3>1, CpuFacts
    <3>4. QED
      BY <3>1, <3>2, <3>3
  <2>4. QED
    BY <2>2, <2>3
<1> HIDE DEF Good
<1>2. SUBSET S \subseteq Good
  BY <1>1, SubsetInduction
<1>3. QED
  BY <1>2 DEF Good

\* A second in which the processes of busy have the CPU.
Ticks(ps, qs, S, busy) ==
    \A p \in S : qs[p].cpu = ps[p].cpu + IF p \in busy THEN Second ELSE 0

LEMMA CpuTick ==
    ASSUME NEW S, IsFiniteSet(S), NEW ps, HasCpu(ps, S), NEW qs, NEW busy,
           Ticks(ps, qs, S, busy)
    PROVE  Cpu(qs, S) = Cpu(ps, S) + Second * Cardinality(S \cap busy)
<1> DEFINE Extra(A) == Second * Cardinality(A \cap busy)
           Good == {A \in SUBSET S : Cpu(qs, A) = Cpu(ps, A) + Extra(A)}
<1>1. ASSUME NEW A \in SUBSET S, \A B \in SUBSET A : B # A => B \in Good
      PROVE  A \in Good
  <2>1. IsFiniteSet(A) /\ HasCpu(ps, A) /\ HasCpu(qs, A)
    BY FS_Subset, UnitsAssumption DEF HasCpu, Ticks
  <2>2. CASE A = {}
    <3>1. Cardinality(A \cap busy) = 0
      BY <2>2, FS_EmptySet
    <3>2. Cpu(qs, A) = 0 /\ Cpu(ps, A) = 0
      BY <2>1, <2>2, CpuFacts
    <3>3. QED
      BY <3>1, <3>2, UnitsAssumption
  <2>3. CASE A # {}
    <3>1. PICK y \in A : TRUE
      BY <2>3
    <3> DEFINE B == A \ {y}
    <3>2. Cpu(qs, B) = Cpu(ps, B) + Extra(B)
      BY <1>1, <3>1
    <3>3. /\ Cpu(qs, A) = qs[y].cpu + Cpu(qs, B)
          /\ Cpu(ps, A) = ps[y].cpu + Cpu(ps, B)
      BY <2>1, <3>1, CpuFacts
    <3>4. Extra(A) = Extra(B) + (IF y \in busy THEN Second ELSE 0) /\ Extra(B) \in Nat
      <4> DEFINE n == Cardinality(B \cap busy)
      <4>1. IsFiniteSet(B \cap busy) /\ n \in Nat
        BY <2>1, FS_Subset, FS_CardinalityType
      <4>2. A \cap busy = IF y \in busy THEN (B \cap busy) \cup {y} ELSE B \cap busy
        BY <3>1
      <4>3. Cardinality(A \cap busy) = n + IF y \in busy THEN 1 ELSE 0
        <5>1. y \notin B \cap busy
          OBVIOUS
        <5>2. Cardinality((B \cap busy) \cup {y}) = n + 1
          BY <4>1, <5>1, FS_AddElement
        <5>3. CASE y \in busy
          <6>1. A \cap busy = (B \cap busy) \cup {y}
            BY <4>2, <5>3
          <6>2. QED
            BY <5>2, <5>3, <6>1
        <5>4. CASE y \notin busy
          <6>1. A \cap busy = B \cap busy
            BY <4>2, <5>4
          <6>2. Cardinality(A \cap busy) = n
            BY <6>1, Zenon
          <6> HIDE DEF n
          <6>3. QED
            BY <4>1, <5>4, <6>2
        <5>5. QED
          BY <5>3, <5>4
      <4> HIDE DEF n
      <4>4. Second * n \in Nat /\ Second * (n + 1) = Second * n + Second
        BY <4>1, UnitsAssumption
      <4>5. QED
        BY <4>1, <4>3, <4>4, UnitsAssumption DEF n
    <3>5. /\ qs[y].cpu = ps[y].cpu + IF y \in busy THEN Second ELSE 0
          /\ ps[y].cpu \in Nat /\ Second \in Nat
      BY <3>1, UnitsAssumption DEF HasCpu, Ticks
    <3>6. Cpu(ps, B) \in Nat
      BY <2>1, FS_Subset, CpuFacts DEF HasCpu
    <3> HIDE DEF Extra, B
    <3>7. Cpu(qs, A) = Cpu(ps, A) + Extra(A)
      BY <3>2, <3>3, <3>4, <3>5, <3>6
    <3>8. QED
      BY <3>7
  <2>4. QED
    BY <2>2, <2>3
<1> HIDE DEF Good
<1>2. SUBSET S \subseteq Good
  BY <1>1, SubsetInduction
<1>3. QED
  BY <1>2 DEF Good

-----------------------------------------------------------------------------
(* The processes of a command line.                                        *)

\* Those of the table ps that run the program g, and the CPU time they have.
Runs(ps, g) == {p \in DOMAIN ps : ~ps[p].zombie /\ ps[p].program = g}
TimeOf(ps, g) == Cpu(ps, Runs(ps, g))

\* A table in the form that is easiest to use.
LEMMA TableFacts ==
    ASSUME NEW ps, IsTable(ps)
    PROVE  /\ DOMAIN ps \in SUBSET Pid
           /\ \A p \in DOMAIN ps : /\ ps[p] \in Process /\ ps[p].program \in Program
                                   /\ ps[p].cpu \in Nat /\ ps[p].zombie \in BOOLEAN
  BY DEF IsTable, Process

LEMMA RunsFacts ==
    ASSUME NEW ps, IsTable(ps), NEW g
    PROVE  /\ IsFiniteSet(Runs(ps, g)) /\ HasCpu(ps, Runs(ps, g))
           /\ TimeOf(ps, g) \in Nat
<1>1. Runs(ps, g) \in SUBSET Pid
  BY TableFacts DEF Runs
<1>2. IsFiniteSet(Runs(ps, g))
  BY <1>1, PidAssumption, FS_Subset
<1>3. HasCpu(ps, Runs(ps, g))
  BY TableFacts DEF Runs, HasCpu
<1>4. QED
  BY <1>2, <1>3, CpuFacts DEF TimeOf

\* The same processes with the same time.
LEMMA TimeKept ==
    ASSUME NEW ps, IsTable(ps), NEW qs, NEW g, Runs(qs, g) = Runs(ps, g),
           \A p \in Runs(ps, g) : qs[p].cpu = ps[p].cpu
    PROVE  TimeOf(qs, g) = TimeOf(ps, g)
  BY RunsFacts, CpuSame DEF TimeOf

\* One process less.
LEMMA TimeWithout ==
    ASSUME NEW ps, IsTable(ps), NEW qs, NEW g, NEW p \in Runs(ps, g),
           Runs(qs, g) = Runs(ps, g) \ {p},
           \A q \in Runs(qs, g) : qs[q].cpu = ps[q].cpu
    PROVE  TimeOf(qs, g) <= TimeOf(ps, g)
<1> DEFINE R == Runs(ps, g) \ {p}
<1>1. IsFiniteSet(R) /\ HasCpu(ps, R)
  BY RunsFacts, FS_Subset DEF HasCpu
<1>2. Cpu(qs, R) = Cpu(ps, R) /\ Cpu(ps, R) \in Nat
  BY <1>1, CpuSame, CpuFacts
<1>3. TimeOf(ps, g) = ps[p].cpu + Cpu(ps, R)
  BY RunsFacts, CpuFacts DEF TimeOf
<1>4. ps[p].cpu \in Nat
  BY RunsFacts DEF HasCpu
<1> HIDE DEF R
<1>5. TimeOf(qs, g) = Cpu(qs, R)
  BY DEF TimeOf, R
<1>6. QED
  BY <1>2, <1>3, <1>4, <1>5

\* One process more, which has not had the CPU.
LEMMA TimeWithNew ==
    ASSUME NEW ps, IsTable(ps), NEW qs, NEW g, NEW p, p \notin Runs(ps, g),
           Runs(qs, g) = Runs(ps, g) \cup {p}, qs[p].cpu = 0,
           \A q \in Runs(ps, g) : qs[q].cpu = ps[q].cpu
    PROVE  TimeOf(qs, g) = TimeOf(ps, g)
<1> DEFINE R == Runs(ps, g)
<1>1. IsFiniteSet(R) /\ HasCpu(ps, R) /\ TimeOf(ps, g) \in Nat
  BY RunsFacts
<1>2. Cpu(qs, R) = TimeOf(ps, g)
  BY <1>1, CpuSame DEF TimeOf
<1>3. IsFiniteSet(R \cup {p}) /\ HasCpu(qs, R \cup {p})
  BY <1>1, FS_AddElement DEF HasCpu
<1>4. (R \cup {p}) \ {p} = R
  OBVIOUS
<1>5. Cpu(qs, R \cup {p}) = 0 + Cpu(qs, R)
  BY <1>3, <1>4, CpuFacts
<1> HIDE DEF R
<1>6. TimeOf(qs, g) = Cpu(qs, R \cup {p})
  BY DEF TimeOf, R
<1>7. QED
  BY <1>1, <1>2, <1>5, <1>6

\* TimeOfId is this sum, for what is kept in the snapshot.
LEMMA TimeOfIdIs ==
    ASSUME NEW s, NEW g \in Docker
    PROVE  TimeOfId(s, g) = TimeOf(s.procs, g)
<1>1. {p \in Related(s) : s.procs[p].program = g} = Runs(s.procs, g)
  BY DEF Related, Runs
<1>2. TimeOfId(s, g) = Cpu(s.procs, {p \in Related(s) : s.procs[p].program = g})
  BY DEF TimeOfId, Cpu
<1>3. QED
  BY <1>1, <1>2 DEF TimeOf

\* What BuildContainerCpuPct returns, in these terms.
LEMMA ContShareLemma ==
    ASSUME NEW prev, IsSnapshot(prev), NEW curr, IsSnapshot(curr),
           NEW pct, pct = BuildContainerCpuPct(prev, curr)
    PROVE  \A g \in DOMAIN pct :
              /\ g \in Docker /\ pct[g] \in Share
              /\ pct[g].used = TimeOf(curr.procs, g) - TimeOf(prev.procs, g)
              /\ pct[g].of = Second * (curr.ts - prev.ts) * NumCPUs
<1> DEFINE secs == curr.ts - prev.ts
           Used(g) == TimeOfId(curr, g) - TimeOfId(prev, g)
           busy == {g \in Ids(curr) \cap Ids(prev) : Used(g) > 0}
           dom == IF secs > 0 THEN busy ELSE {}
<1>1. pct = [g \in dom |-> [used |-> Used(g), of |-> Second * secs * NumCPUs]]
  BY DEF BuildContainerCpuPct
<1>2. IsTable(curr.procs) /\ IsTable(prev.procs) /\ secs \in Int
  BY DEF IsSnapshot, IsTable
<1>3. \A g \in dom : g \in Docker /\ Used(g) > 0 /\ secs > 0
  BY DEF Ids, Related
<1>4. \A g \in dom : pct[g] = [used |-> Used(g), of |-> Second * secs * NumCPUs]
  BY <1>1
<1>5. DOMAIN pct = dom
  BY <1>1
<1> HIDE DEF secs, Used, dom
<1>6. ASSUME NEW g \in dom
      PROVE  /\ g \in Docker /\ pct[g] \in Share
             /\ pct[g].used = TimeOf(curr.procs, g) - TimeOf(prev.procs, g)
             /\ pct[g].of = Second * secs * NumCPUs
  <2> DEFINE used == TimeOf(curr.procs, g) - TimeOf(prev.procs, g)
             of == Second * secs * NumCPUs
  <2>1. g \in Docker
    BY <1>3
  <2>2. Used(g) = used
    BY <2>1, TimeOfIdIs DEF Used
  <2>3. TimeOf(curr.procs, g) \in Nat /\ TimeOf(prev.procs, g) \in Nat
    BY <1>2, RunsFacts
  <2>4. used \in Nat
    BY <1>3, <2>2, <2>3
  <2>5. of \in Nat \ {0}
    <3>1. secs \in Nat \ {0}
      BY <1>2, <1>3
    <3>2. Second * secs \in Nat \ {0}
      BY <3>1, UnitsAssumption, PositiveProduct
    <3>3. QED
      BY <3>2, UnitsAssumption, PositiveProduct
  <2>6. pct[g] = [used |-> used, of |-> of]
    BY <1>4, <2>2
  <2> HIDE DEF used, of
  <2>7. pct[g] \in Share /\ pct[g].used = used /\ pct[g].of = of
    BY <2>4, <2>5, <2>6 DEF Share
  <2>8. QED
    BY <2>1, <2>7 DEF used, of
<1>7. QED
  BY <1>5, <1>6 DEF secs

-----------------------------------------------------------------------------
(* The interval under way.                                                 *)

\* In the interval i from the snapshot prev to the processes ps at time now: what the
\* running processes of a docker command add up to is what they added up to before,
\* and what they have used since, unless a process has come or gone with its time.
ContFollows(prev, ps, now, i) ==
    /\ \A g \in Docker :
          /\ g \notin i.joined => TimeOf(ps, g) <= TimeOf(prev.procs, g) + i.used[g]
          /\ g \notin i.joined \cup i.left =>
                TimeOf(ps, g) = TimeOf(prev.procs, g) + i.used[g]
    /\ ~i.set => now = prev.ts + i.elapsed

\* No command that is not in joins gets more time, and none that is not in leaves less.
TimesKept(ps, qs, joins, leaves) ==
    /\ \A g \in Docker \ joins : TimeOf(qs, g) <= TimeOf(ps, g)
    /\ \A g \in Docker \ (joins \cup leaves) : TimeOf(qs, g) = TimeOf(ps, g)

\* A change of the processes in which no second passes.
LEMMA ContFollowsChange ==
    ASSUME TypeOK, IsTable(procs'), NEW prev, IsSnapshot(prev),
           ContFollows(prev, procs, clock, sinceCont),
           clock' = clock, NEW joins, NEW leaves,
           sinceCont' = [sinceCont EXCEPT !.left = @ \cup leaves, !.joined = @ \cup joins],
           TimesKept(procs, procs', joins, leaves)
    PROVE  ContFollows(prev, procs', clock', sinceCont')
<1>1. sinceCont \in ContInterval /\ \A g \in Docker : sinceCont.used[g] \in Nat
  BY DEF TypeOK, ContInterval
<1>2. sinceCont' = [read |-> sinceCont.read, used |-> sinceCont.used,
                    elapsed |-> sinceCont.elapsed, set |-> sinceCont.set,
                    left |-> sinceCont.left \cup leaves, joined |-> sinceCont.joined \cup joins]
  BY <1>1 DEF ContInterval
<1>3. /\ sinceCont'.used = sinceCont.used /\ sinceCont'.elapsed = sinceCont.elapsed
      /\ sinceCont'.set = sinceCont.set
      /\ sinceCont'.left = sinceCont.left \cup leaves
      /\ sinceCont'.joined = sinceCont.joined \cup joins
  BY <1>2
<1>4. IsTable(procs) /\ IsTable(prev.procs)
  BY DEF TypeOK, IsSnapshot, IsTable
<1>5. ASSUME NEW g \in Docker
      PROVE  /\ g \notin sinceCont'.joined =>
                    TimeOf(procs', g) <= TimeOf(prev.procs, g) + sinceCont'.used[g]
             /\ g \notin sinceCont'.joined \cup sinceCont'.left =>
                    TimeOf(procs', g) = TimeOf(prev.procs, g) + sinceCont'.used[g]
  <2>1. /\ TimeOf(procs', g) \in Nat /\ TimeOf(procs, g) \in Nat
        /\ TimeOf(prev.procs, g) \in Nat
    BY <1>4, RunsFacts
  <2>2. /\ g \notin sinceCont.joined =>
               TimeOf(procs, g) <= TimeOf(prev.procs, g) + sinceCont.used[g]
        /\ g \notin sinceCont.joined \cup sinceCont.left =>
               TimeOf(procs, g) = TimeOf(prev.procs, g) + sinceCont.used[g]
    BY DEF ContFollows
  <2>3. CASE g \in joins
    BY <1>3, <2>3
  <2>4. CASE g \in leaves \ joins
    BY <1>1, <1>3, <2>1, <2>2, <2>4 DEF TimesKept
  <2>5. CASE g \notin joins \cup leaves
    BY <1>3, <2>2, <2>5 DEF TimesKept
  <2>6. QED
    BY <2>3, <2>4, <2>5
<1>6. ~sinceCont'.set => clock' = prev.ts + sinceCont'.elapsed
  BY <1>3 DEF ContFollows
<1>7. QED
  BY <1>5, <1>6 DEF ContFollows

\* The processes that a command has, and the CPU time of each, decide its time.
LEMMA SameRuns ==
    ASSUME NEW ps, IsTable(ps), NEW qs, NEW g,
           \A p : p \in Runs(qs, g) <=> p \in Runs(ps, g),
           \A p \in Runs(ps, g) : qs[p].cpu = ps[p].cpu
    PROVE  TimeOf(qs, g) = TimeOf(ps, g)
<1>1. Runs(qs, g) = Runs(ps, g)
  OBVIOUS
<1>2. QED
  BY <1>1, TimeKept

\* A process that leaves its command, of which only that command loses time.
Gone(ps, qs, p, joins) ==
    /\ p \in DOMAIN ps /\ ~ps[p].zombie
    /\ \A g \in Docker \ joins : \A q : q \in Runs(qs, g) <=> q \in Runs(ps, g) /\ q # p
    /\ \A q \in DOMAIN ps \ {p} : qs[q].cpu = ps[q].cpu

LEMMA Leaves ==
    ASSUME NEW ps, IsTable(ps), NEW qs, NEW p, NEW joins, Gone(ps, qs, p, joins)
    PROVE  TimesKept(ps, qs, joins, Docker \cap {ps[p].program})
<1>1. ASSUME NEW g \in Docker \ joins, g = ps[p].program
      PROVE  TimeOf(qs, g) <= TimeOf(ps, g)
  <2>1. p \in Runs(ps, g)
    BY <1>1 DEF Runs, Gone
  <2>2. Runs(qs, g) = Runs(ps, g) \ {p}
    BY DEF Gone
  <2>3. \A q \in Runs(qs, g) : qs[q].cpu = ps[q].cpu
    BY <2>2 DEF Runs, Gone
  <2>4. QED
    BY <2>1, <2>2, <2>3, TimeWithout
<1>2. ASSUME NEW g \in Docker \ joins, g # ps[p].program
      PROVE  TimeOf(qs, g) = TimeOf(ps, g) /\ TimeOf(ps, g) \in Nat
  <2>1. p \notin Runs(ps, g)
    BY <1>2 DEF Runs
  <2>2. \A q : q \in Runs(qs, g) <=> q \in Runs(ps, g)
    BY <2>1 DEF Gone
  <2>3. \A q \in Runs(ps, g) : qs[q].cpu = ps[q].cpu
    BY <2>1 DEF Runs, Gone
  <2>4. QED
    BY <2>2, <2>3, SameRuns, RunsFacts
<1>3. QED
  BY <1>1, <1>2 DEF TimesKept

\* What the machine does is counted.
LEMMA MachineContFollows ==
    ASSUME TypeOK, NEW prev, IsSnapshot(prev),
           ContFollows(prev, procs, clock, sinceCont), Machine
    PROVE  ContFollows(prev, procs', clock', sinceCont')
<1>1. /\ IsTable(procs) /\ IsTable(procs') /\ IsTable(prev.procs)
      /\ sinceCont \in ContInterval /\ clock \in Nat /\ prev.ts \in Nat
      /\ \A g \in Docker : sinceCont.used[g] \in Nat
  BY MachineType DEF TypeOK, IsSnapshot, IsTable, ContInterval
<1>2. /\ DOMAIN procs \in SUBSET Pid
      /\ \A p \in DOMAIN procs : /\ procs[p] \in Process /\ procs[p].program \in Program
                                 /\ procs[p].cpu \in Nat /\ procs[p].zombie \in BOOLEAN
  BY <1>1, TableFacts
<1>3. ASSUME NEW busy \in SUBSET Running, Tick(busy)
      PROVE  ContFollows(prev, procs', clock', sinceCont')
  <2> DEFINE many(g) == Cardinality({p \in busy : procs[p].program = g})
             used == [g \in Docker |-> sinceCont.used[g] + Second * many(g)]
  <2>1. /\ DOMAIN procs' = DOMAIN procs /\ clock' = clock + 1
        /\ \A p \in DOMAIN procs :
              /\ procs'[p].cpu = procs[p].cpu + IF p \in busy THEN Second ELSE 0
              /\ procs'[p].program = procs[p].program /\ procs'[p].zombie = procs[p].zombie
    <3>1. /\ procs' = [p \in DOMAIN procs |->
                 IF p \in busy THEN [procs[p] EXCEPT !.cpu = @ + Second] ELSE procs[p]]
          /\ clock' = clock + 1
      BY <1>3 DEF Tick
    <3>2. \A p \in DOMAIN procs :
             LET q == [procs[p] EXCEPT !.cpu = @ + Second]
             IN  /\ q.cpu = procs[p].cpu + Second
                 /\ q.program = procs[p].program /\ q.zombie = procs[p].zombie
      BY <1>2 DEF Process
    <3>3. QED
      BY <1>2, <3>1, <3>2
  <2>2. /\ sinceCont'.elapsed = sinceCont.elapsed + 1 /\ sinceCont'.set = sinceCont.set
        /\ sinceCont'.left = sinceCont.left /\ sinceCont'.joined = sinceCont.joined
        /\ \A g \in Docker : sinceCont'.used[g] = sinceCont.used[g] + Second * many(g)
    <3>1. sinceCont' = [sinceCont EXCEPT !.elapsed = @ + 1, !.used = used]
      BY <1>3 DEF Tick
    <3>2. \A g \in Docker : used[g] = sinceCont.used[g] + Second * many(g)
      OBVIOUS
    <3> HIDE DEF used
    <3>3. sinceCont' = [read |-> sinceCont.read, used |-> used,
                        elapsed |-> sinceCont.elapsed + 1, set |-> sinceCont.set,
                        left |-> sinceCont.left, joined |-> sinceCont.joined]
      BY <1>1, <3>1 DEF ContInterval
    <3>4. QED
      BY <3>2, <3>3
  <2>3. ASSUME NEW g \in Docker
        PROVE  /\ TimeOf(procs', g) = TimeOf(procs, g) + Second * many(g)
               /\ TimeOf(procs, g) \in Nat /\ Second * many(g) \in Nat
    <3> DEFINE R == Runs(procs, g)
    <3>1. Runs(procs', g) = R
      BY <2>1 DEF Runs
    <3>2. R \cap busy = {p \in busy : procs[p].program = g}
      BY DEF Runs, Running
    <3>3. Cardinality(R \cap busy) = many(g)
      BY <3>2, Zenon
    <3>4. Ticks(procs, procs', R, busy)
      BY <2>1 DEF Runs, Ticks
    <3>5. IsFiniteSet(R) /\ HasCpu(procs, R) /\ TimeOf(procs, g) \in Nat
      BY <1>1, RunsFacts
    <3>6. Cardinality(R \cap busy) \in Nat
      BY <3>5, FS_Intersection, FS_CardinalityType
    <3> HIDE DEF R, many
    <3>7. Cpu(procs', R) = Cpu(procs, R) + Second * Cardinality(R \cap busy)
      BY <3>4, <3>5, CpuTick
    <3>8. Second * many(g) \in Nat
      BY <3>3, <3>6, UnitsAssumption
    <3>9. QED
      BY <3>1, <3>3, <3>5, <3>7, <3>8 DEF TimeOf, R
  <2> HIDE DEF many
  <2>4. \A g \in Docker : TimeOf(prev.procs, g) \in Nat
    BY <1>1, RunsFacts
  <2>5. sinceCont.elapsed \in Nat
    BY <1>1 DEF ContInterval
  <2>6. ~sinceCont'.set => clock' = prev.ts + sinceCont'.elapsed
    BY <1>1, <2>1, <2>2, <2>5 DEF ContFollows
  <2>7. ASSUME NEW g \in Docker
        PROVE  /\ g \notin sinceCont'.joined =>
                      TimeOf(procs', g) <= TimeOf(prev.procs, g) + sinceCont'.used[g]
               /\ g \notin sinceCont'.joined \cup sinceCont'.left =>
                      TimeOf(procs', g) = TimeOf(prev.procs, g) + sinceCont'.used[g]
    <3>1. /\ g \notin sinceCont.joined =>
                 TimeOf(procs, g) <= TimeOf(prev.procs, g) + sinceCont.used[g]
          /\ g \notin sinceCont.joined \cup sinceCont.left =>
                 TimeOf(procs, g) = TimeOf(prev.procs, g) + sinceCont.used[g]
      BY DEF ContFollows
    <3>2. /\ TimeOf(procs', g) = TimeOf(procs, g) + Second * many(g)
          /\ sinceCont'.used[g] = sinceCont.used[g] + Second * many(g)
          /\ sinceCont'.left = sinceCont.left /\ sinceCont'.joined = sinceCont.joined
          /\ TimeOf(procs, g) \in Nat /\ Second * many(g) \in Nat
          /\ TimeOf(prev.procs, g) \in Nat /\ sinceCont.used[g] \in Nat
      BY <1>1, <2>2, <2>3, <2>4
    <3> DEFINE more == Second * many(g)
    <3> HIDE DEF more
    <3>3. /\ TimeOf(procs', g) = TimeOf(procs, g) + more
          /\ sinceCont'.used[g] = sinceCont.used[g] + more /\ more \in Nat
      BY <3>2 DEF more
    <3>4. QED
      BY <3>1, <3>2, <3>3
  <2>8. QED
    BY <2>6, <2>7 DEF ContFollows
<1>4. ASSUME NEW t \in 0..MaxTime, SetClock(t)
      PROVE  ContFollows(prev, procs', clock', sinceCont')
  <2>1. procs' = procs /\ sinceCont' = [sinceCont EXCEPT !.set = TRUE]
    BY <1>4 DEF SetClock
  <2>2. /\ sinceCont'.set /\ sinceCont'.used = sinceCont.used
        /\ sinceCont'.left = sinceCont.left /\ sinceCont'.joined = sinceCont.joined
    BY <1>1, <2>1 DEF ContInterval
  <2>3. QED
    BY <2>1, <2>2 DEF ContFollows
<1>5. ASSUME UNCHANGED <<clock, sinceCont>>,
             \A g \in Docker : TimeOf(procs', g) = TimeOf(procs, g)
      PROVE  ContFollows(prev, procs', clock', sinceCont')
  BY <1>5 DEF ContFollows
<1>6. ASSUME NEW p \in Pid, NEW g \in Program, Start(p, g)
      PROVE  ContFollows(prev, procs', clock', sinceCont')
  <2>1. /\ p \notin DOMAIN procs /\ UNCHANGED <<clock, sinceCont>>
        /\ procs' = [q \in DOMAIN procs \cup {p} |-> IF q = p THEN New(g) ELSE procs[q]]
    BY <1>6 DEF Start
  <2>2. /\ DOMAIN procs' = DOMAIN procs \cup {p} /\ procs'[p] = New(g)
        /\ \A q \in DOMAIN procs : procs'[q] = procs[q]
    BY <2>1
  <2>3. procs'[p].cpu = 0 /\ procs'[p].program = g /\ procs'[p].zombie = FALSE
    BY <2>2 DEF New
  <2>4. ASSUME NEW h \in Docker
        PROVE  TimeOf(procs', h) = TimeOf(procs, h)
    <3>1. \A q \in Runs(procs, h) : procs'[q].cpu = procs[q].cpu
      BY <2>2 DEF Runs
    <3>2. CASE h = g
      <4>1. Runs(procs', h) = Runs(procs, h) \cup {p}
        BY <2>2, <2>3, <3>2 DEF Runs
      <4>2. p \notin Runs(procs, h)
        BY <2>1 DEF Runs
      <4>3. QED
        BY <1>1, <2>3, <3>1, <4>1, <4>2, TimeWithNew
    <3>3. CASE h # g
      <4>1. \A q : q \in Runs(procs', h) <=> q \in Runs(procs, h)
        BY <2>1, <2>2, <2>3, <3>3 DEF Runs
      <4>2. QED
        BY <1>1, <3>1, <4>1, SameRuns
    <3>4. QED
      BY <3>2, <3>3
  <2>5. QED
    BY <1>5, <2>1, <2>4
<1>7. ASSUME NEW p \in Pid, NEW g \in Program, Exec(p, g)
      PROVE  ContFollows(prev, procs', clock', sinceCont')
  <2> DEFINE joins == Docker \cap {g}
             leaves == Docker \cap {procs[p].program}
  <2>1. /\ p \in DOMAIN procs /\ ~procs[p].zombie /\ clock' = clock
        /\ procs' = [procs EXCEPT ![p].program = g]
        /\ sinceCont' = [sinceCont EXCEPT !.left = @ \cup leaves, !.joined = @ \cup joins]
    BY <1>7 DEF Exec, Running
  <2>2. /\ DOMAIN procs' = DOMAIN procs /\ procs'[p].program = g
        /\ \A q \in DOMAIN procs \ {p} : procs'[q] = procs[q]
    <3>1. [procs[p] EXCEPT !.program = g].program = g
      BY <1>2, <2>1 DEF Process
    <3>2. QED
      BY <2>1, <3>1
  <2>3. Gone(procs, procs', p, joins)
    BY <2>1, <2>2 DEF Runs, Gone
  <2>4. TimesKept(procs, procs', joins, leaves)
    BY <1>1, <2>3, Leaves
  <2> HIDE DEF joins, leaves
  <2>5. QED
    BY <1>1, <2>1, <2>4, ContFollowsChange
<1>8. ASSUME NEW p \in Pid, End(p)
      PROVE  ContFollows(prev, procs', clock', sinceCont')
  <2> DEFINE joins == {}
             leaves == Docker \cap {procs[p].program}
  <2>1. /\ p \in DOMAIN procs /\ ~procs[p].zombie /\ clock' = clock
        /\ procs' = [procs EXCEPT ![p].zombie = TRUE] \/ procs' = Without(p)
        /\ sinceCont' = [sinceCont EXCEPT !.left = @ \cup leaves]
    BY <1>8 DEF End, Running
  <2>2. \A q \in DOMAIN procs \ {p} : q \in DOMAIN procs' /\ procs'[q] = procs[q]
    BY <2>1 DEF Without
  <2>3. DOMAIN procs' \subseteq DOMAIN procs /\ (p \in DOMAIN procs' => procs'[p].zombie)
    <3>1. [procs[p] EXCEPT !.zombie = TRUE].zombie
      BY <1>2, <2>1 DEF Process
    <3>2. QED
      BY <2>1, <3>1 DEF Without
  <2>4. Gone(procs, procs', p, joins)
    BY <2>1, <2>2, <2>3 DEF Runs, Gone
  <2>5. sinceCont' = [sinceCont EXCEPT !.left = @ \cup leaves, !.joined = @ \cup joins]
    BY <1>1, <2>1 DEF ContInterval
  <2> HIDE DEF joins
  <2>6. TimesKept(procs, procs', joins, leaves)
    BY <1>1, <2>4, Leaves
  <2> HIDE DEF leaves
  <2>7. QED
    BY <1>1, <2>1, <2>5, <2>6, ContFollowsChange
<1>9. ASSUME NEW p \in Pid, Reap(p)
      PROVE  ContFollows(prev, procs', clock', sinceCont')
  <2>1. /\ p \in DOMAIN procs /\ procs[p].zombie /\ procs' = Without(p)
        /\ UNCHANGED <<clock, sinceCont>>
    BY <1>9 DEF Reap, Running, since
  <2>2. /\ DOMAIN procs' = DOMAIN procs \ {p}
        /\ \A q \in DOMAIN procs \ {p} : procs'[q] = procs[q]
    BY <2>1 DEF Without
  <2>3. ASSUME NEW h \in Docker
        PROVE  TimeOf(procs', h) = TimeOf(procs, h)
    <3>1. \A q : q \in Runs(procs', h) <=> q \in Runs(procs, h)
      BY <2>1, <2>2 DEF Runs
    <3>2. \A q \in Runs(procs, h) : procs'[q].cpu = procs[q].cpu
      BY <2>1, <2>2 DEF Runs
    <3>3. QED
      BY <1>1, <3>1, <3>2, SameRuns
  <2>4. QED
    BY <1>5, <2>1, <2>3
<1>10. QED
  BY <1>3, <1>4, <1>6, <1>7, <1>8, <1>9 DEF Machine

-----------------------------------------------------------------------------
(* The invariant.                                                          *)

\* The last snapshot of continfo that was read.
LastCont == IF pc = "conts" THEN snap ELSE prevCont

\* What the half knows of the interval under way.
ContSinceOK ==
    /\ pc = "conts" => IsSnapshot(snap)
    /\ sinceCont.read <=> LastCont # None
    /\ sinceCont.read => ContFollows(LastCont, procs, clock, sinceCont)

\* And of the one it is comparing, until the rows are written.
ContOverOK ==
    /\ pc = "conts" =>
          /\ overCont \in ContInterval
          /\ overCont.read <=> prevCont # None
          /\ overCont.read => ContFollows(prevCont, snap.procs, snap.ts, overCont)
    /\ recorded.conts # None => pc = "rules"

ContIInv == ContSinceOK /\ ContOverOK /\ ContShareIsOfInterval

\* The rows of container_metrics have a percentage of the interval, or 0.0.
LEMMA ContRowsLemma ==
    ASSUME TypeOK, ContSinceOK, ContOverOK, pc = "conts",
           NEW rows, rows = ContRows(snap, CpuPctCont), NEW p \in DOMAIN rows,
           NEW g, g = rows[p].program, NEW share, share = rows[p].pct, share # Zero
    PROVE  /\ share \in Share /\ overCont.read /\ g \in Docker
           /\ g \notin overCont.joined => share.used <= overCont.used[g]
           /\ g \notin overCont.joined \cup overCont.left => share.used = overCont.used[g]
           /\ ~overCont.set => share.of = Second * overCont.elapsed * NumCPUs
<1> DEFINE pct == CpuPctCont
<1>1. /\ IsSnapshot(snap) /\ overCont \in ContInterval
      /\ overCont.read <=> prevCont # None
      /\ overCont.read => ContFollows(prevCont, snap.procs, snap.ts, overCont)
      /\ prevCont = None \/ IsSnapshot(prevCont)
  BY DEF ContSinceOK, ContOverOK, TypeOK
<1>2. /\ g = snap.procs[p].program
      /\ share = IF g \in DOMAIN pct THEN pct[g] ELSE Zero
  BY DEF ContRows
<1>3. g \in DOMAIN pct /\ share = pct[g]
  BY <1>2
<1>4. overCont.read /\ IsSnapshot(prevCont) /\ pct = BuildContainerCpuPct(prevCont, snap)
  <2>1. ASSUME prevCont = None PROVE FALSE
    <3>1. pct = NoShares
      BY <2>1 DEF CpuPctCont
    <3>2. QED
      BY <1>3, <3>1 DEF NoShares
  <2>2. QED
    BY <1>1, <2>1 DEF CpuPctCont
<1> HIDE DEF pct
<1>5. /\ g \in Docker /\ share \in Share
      /\ share.used = TimeOf(snap.procs, g) - TimeOf(prevCont.procs, g)
      /\ share.of = Second * (snap.ts - prevCont.ts) * NumCPUs
  BY <1>1, <1>3, <1>4, ContShareLemma
<1>6. /\ g \notin overCont.joined =>
             TimeOf(snap.procs, g) <= TimeOf(prevCont.procs, g) + overCont.used[g]
      /\ g \notin overCont.joined \cup overCont.left =>
             TimeOf(snap.procs, g) = TimeOf(prevCont.procs, g) + overCont.used[g]
      /\ ~overCont.set => snap.ts = prevCont.ts + overCont.elapsed
  BY <1>1, <1>4, <1>5 DEF ContFollows
<1>7. /\ TimeOf(snap.procs, g) \in Nat /\ TimeOf(prevCont.procs, g) \in Nat
      /\ overCont.used[g] \in Nat
  <2>1. IsTable(snap.procs) /\ IsTable(prevCont.procs)
    BY <1>1, <1>4 DEF IsSnapshot, IsTable
  <2>2. QED
    BY <1>1, <1>5, <2>1, RunsFacts DEF ContInterval
<1>8. snap.ts \in Nat /\ prevCont.ts \in Nat /\ overCont.elapsed \in Nat
  BY <1>1, <1>4 DEF IsSnapshot, ContInterval
<1>9. ~overCont.set => snap.ts - prevCont.ts = overCont.elapsed
  BY <1>6, <1>8
<1>10. ~overCont.set => share.of = Second * overCont.elapsed * NumCPUs
  BY <1>5, <1>9
<1>11. QED
  BY <1>4, <1>5, <1>6, <1>7, <1>10

\* ContSinceOK is kept by every step.
LEMMA ContSinceStep ==
    ASSUME TypeOK, ContSinceOK, Next
    PROVE  ContSinceOK'
<1> USE DEF machine, ofSys, ofCont, since
<1>1. CASE Machine
  <2>1. UNCHANGED <<pc, snap, prevCont>> /\ LastCont' = LastCont
    BY <1>1 DEF Machine, Tick, SetClock, Start, Exec, End, Reap, LastCont
  <2>2. sinceCont.read => IsSnapshot(LastCont)
    BY DEF ContSinceOK, LastCont, TypeOK
  <2>3. sinceCont.read => ContFollows(LastCont, procs', clock', sinceCont')
    BY <1>1, <2>2, MachineContFollows DEF ContSinceOK
  <2>4. sinceCont'.read = sinceCont.read
    <3>1. sinceCont \in ContInterval
      BY DEF TypeOK
    <3>2. QED
      BY <1>1, <3>1 DEF Machine, Tick, SetClock, Start, Exec, End, Reap, ContInterval
  <2>5. QED
    BY <2>1, <2>3, <2>4 DEF ContSinceOK, ContFollows, IsSnapshot
<1>2. CASE ReadContInfo
  <2>1. /\ snap' = [ts |-> clock, procs |-> procs] /\ pc' = "conts"
        /\ sinceCont' = ContTime(TRUE) /\ UNCHANGED <<procs, clock>>
    BY <1>2 DEF ReadContInfo
  <2>2. IsSnapshot(snap') /\ snap' # None /\ LastCont' = snap'
    BY <2>1, NoneAssumption DEF TypeOK, IsTable, IsSnapshot, LastCont
  <2>3. /\ sinceCont'.read /\ sinceCont'.elapsed = 0 /\ snap'.ts = clock
        /\ snap'.procs = procs /\ \A g \in Docker : sinceCont'.used[g] = 0
    BY <2>1 DEF ContTime
  <2>4. IsTable(procs) /\ clock \in Nat
    BY DEF TypeOK
  <2>5. \A g \in Docker : TimeOf(procs', g) = TimeOf(snap'.procs, g) + sinceCont'.used[g]
    <3> TAKE g \in Docker
    <3>1. TimeOf(procs, g) \in Nat
      BY <2>4, RunsFacts
    <3>2. TimeOf(procs, g) = TimeOf(procs, g) + 0
      BY <3>1
    <3>3. procs' = procs /\ sinceCont'.used[g] = 0
      BY <2>1, <2>3
    <3>4. QED
      BY <2>3, <3>2, <3>3, Zenon
  <2>6. clock' = snap'.ts + sinceCont'.elapsed
    <3>1. clock = clock + 0
      BY <2>4
    <3>2. clock' = clock
      BY <2>1
    <3>3. QED
      BY <2>3, <3>1, <3>2, Zenon
  <2>7. \A g \in Docker : TimeOf(procs', g) \in Nat
    BY <2>1, <2>4, RunsFacts
  <2>8. ContFollows(snap', procs', clock', sinceCont')
    BY <2>5, <2>6, <2>7 DEF ContFollows
  <2>9. QED
    BY <2>2, <2>3, <2>8 DEF ContSinceOK, ContFollows, IsSnapshot
<1>3. ASSUME UNCHANGED <<procs, clock, sinceCont>>, LastCont' = LastCont, pc' # "conts"
      PROVE  ContSinceOK'
  <2>1. /\ sinceCont'.read <=> LastCont' # None
        /\ sinceCont'.read => ContFollows(LastCont', procs', clock', sinceCont')
    BY <1>3 DEF ContSinceOK
  <2>2. QED
    BY <1>3, <2>1 DEF ContSinceOK, ContFollows, IsSnapshot
<1>4. CASE \/ ReadSysinfo \/ ReadSysinfoFails \/ InsertSystemMetrics
           \/ InsertProcessMetricsBulk \/ InsertProcessMetricsFails
           \/ InsertProcessStateSummary \/ InsertProcessStateFails
           \/ ReadContInfoFails \/ EndTurn
  <2>1. UNCHANGED <<procs, clock, sinceCont, prevCont>>
    BY <1>4 DEF ReadSysinfo, ReadSysinfoFails, InsertSystemMetrics, InsertProcessMetricsBulk,
                InsertProcessMetricsFails, InsertProcessStateSummary, InsertProcessStateFails,
                KeepSys, ReadContInfoFails, EndTurn
  <2>2. pc # "conts" /\ pc' # "conts"
    BY <1>4 DEF ReadSysinfo, ReadSysinfoFails, InsertSystemMetrics, InsertProcessMetricsBulk,
                InsertProcessMetricsFails, InsertProcessStateSummary, InsertProcessStateFails,
                KeepSys, ReadContInfoFails, EndTurn
  <2>3. QED
    BY <1>3, <2>1, <2>2 DEF LastCont
<1>5. CASE InsertContainerMetricsBulk \/ InsertContainerMetricsFails
  <2>1. KeepCont
    BY <1>5 DEF InsertContainerMetricsBulk, InsertContainerMetricsFails
  <2>2. QED
    BY <1>3, <2>1 DEF KeepCont, LastCont
<1>6. CASE Restart
  <2>1. /\ pc' = "sysinfo" /\ prevCont' = None /\ sinceCont' = ContTime(FALSE)
    BY <1>6 DEF Restart
  <2>2. LastCont' = None /\ ~sinceCont'.read
    BY <2>1 DEF LastCont, ContTime
  <2>3. QED
    BY <2>1, <2>2 DEF ContSinceOK
<1>7. QED
  BY <1>1, <1>2, <1>4, <1>5, <1>6 DEF Next, Turn

\* ContOverOK and the property of the rows.
ContRecorded == ContOverOK /\ ContShareIsOfInterval

\* They depend on nothing else.
LEMMA ContRecordedKept ==
    ASSUME ContRecorded, UNCHANGED <<overCont, prevCont, snap>>,
           recorded'.conts = recorded.conts, pc' = "conts" => pc = "conts",
           pc = "rules" => pc' = "rules"
    PROVE  ContRecorded'
<1>1. ContOverOK'
  <2>1. /\ pc' = "conts" =>
              /\ overCont' \in ContInterval
              /\ overCont'.read <=> prevCont' # None
              /\ overCont'.read => ContFollows(prevCont', snap'.procs, snap'.ts, overCont')
        /\ recorded'.conts # None => pc' = "rules"
    BY DEF ContRecorded, ContOverOK
  <2>2. QED
    BY <2>1 DEF ContOverOK, ContFollows, ContInterval
<1>2. ContShareIsOfInterval'
  BY DEF ContRecorded, ContShareIsOfInterval
<1>3. QED
  BY <1>1, <1>2 DEF ContRecorded

LEMMA ContRecordedStep ==
    ASSUME TypeOK, ContSinceOK, ContRecorded, Next
    PROVE  ContRecorded'
<1> USE DEF machine, ofSys, ofCont, since
<1>1. CASE Machine
  BY <1>1, ContRecordedKept DEF Machine, Tick, SetClock, Start, Exec, End, Reap
<1>2. CASE \/ ReadSysinfo \/ ReadSysinfoFails \/ InsertSystemMetrics
           \/ InsertProcessMetricsBulk \/ InsertProcessMetricsFails
           \/ InsertProcessStateSummary \/ InsertProcessStateFails \/ ReadContInfoFails
  <2>1. UNCHANGED <<overCont, prevCont, snap>>
    BY <1>2 DEF ReadSysinfo, ReadSysinfoFails, InsertSystemMetrics, InsertProcessMetricsBulk,
                InsertProcessMetricsFails, InsertProcessStateSummary, InsertProcessStateFails,
                KeepSys, ReadContInfoFails
  <2>2. pc # "rules" /\ pc' # "conts"
    BY <1>2 DEF ReadSysinfo, ReadSysinfoFails, InsertSystemMetrics, InsertProcessMetricsBulk,
                InsertProcessMetricsFails, InsertProcessStateSummary, InsertProcessStateFails,
                KeepSys, ReadContInfoFails
  <2>3. CASE recorded' = recorded
    BY <2>1, <2>2, <2>3, ContRecordedKept
  <2>4. CASE InsertProcessMetricsBulk \/ InsertProcessStateSummary
    <3>1. recorded'.conts = recorded.conts
      <4>1. InsertProcessMetricsBulk => recorded'.conts = recorded.conts
        BY DEF InsertProcessMetricsBulk
      <4>2. InsertProcessStateSummary => recorded'.conts = recorded.conts
        BY DEF InsertProcessStateSummary
      <4>3. QED
        BY <2>4, <4>1, <4>2
    <3>2. QED
      BY <2>1, <2>2, <3>1, ContRecordedKept
  <2>5. QED
    BY <1>2, <2>3, <2>4
       DEF ReadSysinfo, ReadSysinfoFails, InsertSystemMetrics, InsertProcessMetricsFails,
           InsertProcessStateFails, ReadContInfoFails
<1>3. CASE ReadContInfo
  <2>1. /\ pc = "continfo" /\ pc' = "conts" /\ overCont' = sinceCont
        /\ snap' = [ts |-> clock, procs |-> procs] /\ UNCHANGED <<prevCont, recorded>>
    BY <1>3 DEF ReadContInfo
  <2>2. recorded'.conts = None /\ LastCont = prevCont
    BY <2>1 DEF ContRecorded, ContOverOK, LastCont
  <2>3. snap'.procs = procs /\ snap'.ts = clock
    BY <2>1
  <2>4. /\ overCont' \in ContInterval
        /\ overCont'.read <=> prevCont' # None
        /\ overCont'.read => ContFollows(prevCont', snap'.procs, snap'.ts, overCont')
    BY <2>1, <2>2, <2>3 DEF ContSinceOK, TypeOK
  <2>5. ContOverOK'
    BY <2>2, <2>4 DEF ContOverOK, ContFollows, ContInterval
  <2>6. QED
    BY <2>2, <2>5 DEF ContRecorded, ContShareIsOfInterval
<1>4. ASSUME recorded'.conts = None, pc' # "conts"
      PROVE  ContRecorded'
  BY <1>4 DEF ContRecorded, ContOverOK, ContShareIsOfInterval
<1>5. CASE InsertContainerMetricsBulk
  <2> DEFINE rows == ContRows(snap, CpuPctCont)
  <2>1. /\ pc = "conts" /\ pc' = "rules" /\ UNCHANGED overCont
        /\ recorded' = [recorded EXCEPT !.conts = rows]
    BY <1>5 DEF InsertContainerMetricsBulk, KeepCont
  <2>2. ContOverOK'
    BY <2>1 DEF ContOverOK
  <2>3. recorded'.conts = rows \/ recorded'.conts = recorded.conts
    BY <2>1
  <2>4. \A p \in DOMAIN rows :
           LET g == rows[p].program
               share == rows[p].pct
           IN  share # Zero =>
                   /\ share \in Share /\ overCont.read /\ g \in Docker
                   /\ g \notin overCont.joined => share.used <= overCont.used[g]
                   /\ g \notin overCont.joined \cup overCont.left =>
                         share.used = overCont.used[g]
                   /\ ~overCont.set => share.of = Second * overCont.elapsed * NumCPUs
    BY <2>1, ContRowsLemma DEF ContRecorded
  <2> HIDE DEF rows
  <2>5. recorded.conts = None
    BY <2>1 DEF ContRecorded, ContOverOK
  <2>6. CASE recorded'.conts = rows
    <3>1. ContShareIsOfInterval'
      BY <2>1, <2>4, <2>6 DEF ContShareIsOfInterval
    <3>2. QED
      BY <2>2, <3>1 DEF ContRecorded
  <2>7. CASE recorded'.conts = recorded.conts
    BY <1>4, <2>1, <2>5, <2>7
  <2>8. QED
    BY <2>3, <2>6, <2>7
<1>6. CASE InsertContainerMetricsFails
  <2>1. pc = "conts" /\ pc' = "rules" /\ recorded' = recorded
    BY <1>6 DEF InsertContainerMetricsFails, KeepCont
  <2>2. recorded'.conts = None
    BY <2>1 DEF ContRecorded, ContOverOK
  <2>3. QED
    BY <1>4, <2>1, <2>2
<1>7. CASE EndTurn \/ Restart
  <2>1. recorded' = Nothing /\ pc' = "sysinfo"
    BY <1>7 DEF EndTurn, Restart
  <2>2. QED
    BY <1>4, <2>1 DEF Nothing
<1>8. QED
  BY <1>1, <1>2, <1>3, <1>5, <1>6, <1>7 DEF Next, Turn

-----------------------------------------------------------------------------
(* The theorem.                                                            *)

\* Whatever is recorded of a docker command is of what its processes used between the
\* last two reads of continfo (src/Daemon/main.go:232-244), for any reads and inserts
\* that fail between, and any processes that come and go.
THEOREM ContSharesAreOfInterval == Spec => []ContShareIsOfInterval
<1>1. Init => ContIInv
  <2> SUFFICES ASSUME Init PROVE ContIInv
    OBVIOUS
  <2>1. /\ pc = "sysinfo" /\ LastCont = None /\ ~sinceCont.read
        /\ recorded.conts = None
    BY DEF Init, LastCont, Nothing, ContTime
  <2>2. QED
    BY <2>1 DEF ContIInv, ContSinceOK, ContOverOK, ContShareIsOfInterval
<1>2. TypeOK /\ ContIInv /\ [Next]_vars => ContIInv'
  <2> SUFFICES ASSUME TypeOK, ContIInv, [Next]_vars PROVE ContIInv'
    OBVIOUS
  <2>1. CASE Next
    BY <2>1, ContSinceStep, ContRecordedStep DEF ContIInv, ContRecorded
  <2>2. CASE UNCHANGED vars
    <3>1. UNCHANGED <<procs, clock, pc, snap, prevCont, overCont, recorded, sinceCont>>
      BY <2>2 DEF vars, machine, ofCont, since
    <3>2. LastCont' = LastCont
      BY <3>1 DEF LastCont
    <3>3. ContSinceOK'
      <4>1. /\ pc' = "conts" => IsSnapshot(snap')
            /\ sinceCont'.read <=> LastCont' # None
            /\ sinceCont'.read => ContFollows(LastCont', procs', clock', sinceCont')
        BY <3>1, <3>2 DEF ContIInv, ContSinceOK
      <4>2. QED
        BY <4>1 DEF ContSinceOK, ContFollows, IsSnapshot
    <3>4. ContRecorded'
      BY <3>1, ContRecordedKept DEF ContIInv, ContRecorded
    <3>5. QED
      BY <3>3, <3>4 DEF ContIInv, ContRecorded
  <2>3. QED
    BY <2>1, <2>2
<1>3. ContIInv => ContShareIsOfInterval
  BY DEF ContIInv
<1>4. QED
  BY <1>1, <1>2, <1>3, TypeCorrect, PTL DEF Spec

-----------------------------------------------------------------------------
(* Percentages of a command line.                                          *)

\* The processes of a command line use no more than the CPUs give.
ContInUse(i) == \A g \in Docker : i.used[g] <= NumCPUs * (Second * i.elapsed)

\* Shares are computed of overCont, or have been.
ContComparing == pc = "conts" \/ recorded.conts # None

ContUseOK ==
    /\ ContInUse(sinceCont)
    /\ ContComparing => overCont \in ContInterval /\ ContInUse(overCont)

LEMMA NothingInUseByCont == \A read \in BOOLEAN : ContInUse(ContTime(read))
<1>1. NumCPUs * (Second * 0) = 0
  BY UnitsAssumption
<1>2. QED
  BY <1>1 DEF ContInUse, ContTime

\* In a second, the processes of busy that run a program have at most the CPUs.
LEMMA ContUseTick ==
    ASSUME TypeOK, ContInUse(sinceCont), NEW busy \in SUBSET Running, Tick(busy)
    PROVE  ContInUse(sinceCont')
<1> DEFINE Of(g) == {p \in busy : procs[p].program = g}
           used == [g \in Docker |-> sinceCont.used[g] + Second * Cardinality(Of(g))]
           e == sinceCont.elapsed
<1>1. /\ sinceCont \in ContInterval /\ e \in Nat
      /\ \A g \in Docker : sinceCont.used[g] \in Nat
  BY DEF TypeOK, ContInterval
<1>2. sinceCont'.elapsed = e + 1 /\ sinceCont'.used = used
  <2>1. sinceCont' = [sinceCont EXCEPT !.elapsed = @ + 1, !.used = used]
    BY DEF Tick
  <2>2. sinceCont' = [read |-> sinceCont.read, used |-> used, elapsed |-> e + 1,
                      set |-> sinceCont.set, left |-> sinceCont.left,
                      joined |-> sinceCont.joined]
    BY <1>1, <2>1 DEF ContInterval
  <2>3. QED
    BY <2>2
<1>3. IsFiniteSet(busy) /\ Cardinality(busy) <= NumCPUs
  <2>1. busy \subseteq Pid
    BY DEF Running, TypeOK, IsTable
  <2>2. QED
    BY <2>1, PidAssumption, FS_Subset DEF Tick
<1>4. ASSUME NEW g \in Docker
      PROVE  sinceCont'.used[g] <= NumCPUs * (Second * sinceCont'.elapsed)
  <2> DEFINE n == Cardinality(Of(g))
             most == NumCPUs * (Second * e)
  <2>1. n \in Nat /\ n <= NumCPUs
    <3>1. Of(g) \subseteq busy
      OBVIOUS
    <3>2. /\ IsFiniteSet(Of(g)) /\ n <= Cardinality(busy)
          /\ n \in Nat /\ Cardinality(busy) \in Nat
      BY <1>3, <3>1, FS_Subset, FS_CardinalityType
    <3>3. QED
      BY <1>3, <3>2, UnitsAssumption
  <2>2. sinceCont'.used[g] = sinceCont.used[g] + Second * n
    BY <1>2
  <2> HIDE DEF n
  <2>3. n * Second <= NumCPUs * Second
    BY <2>1, UnitsAssumption, Times
  <2>4. sinceCont.used[g] <= most /\ most \in Nat
    BY <1>1, UnitsAssumption DEF ContInUse
  <2>5. NumCPUs * (Second * (e + 1)) = most + NumCPUs * Second
    BY <1>1, UnitsAssumption
  <2>6. Second * n = n * Second /\ n * Second \in Nat /\ NumCPUs * Second \in Nat
    BY <2>1, UnitsAssumption
  <2> HIDE DEF most, e
  <2>7. sinceCont.used[g] + Second * n <= most + NumCPUs * Second
    BY <1>1, <2>3, <2>4, <2>6
  <2>8. QED
    BY <1>2, <2>2, <2>5, <2>7
<1>5. QED
  BY <1>4 DEF ContInUse

LEMMA ContUseStep ==
    ASSUME TypeOK, ContUseOK, Next
    PROVE  ContUseOK'
<1> USE DEF ofSys, ofCont, since
<1>1. sinceCont \in ContInterval
  BY DEF TypeOK
<1>2. ASSUME NEW busy \in SUBSET Running, Tick(busy)
      PROVE  ContUseOK'
  <2>1. ContInUse(sinceCont')
    BY <1>2, ContUseTick DEF ContUseOK
  <2>2. overCont' = overCont /\ ContComparing' = ContComparing
    BY <1>2 DEF Tick, ContComparing
  <2>3. QED
    BY <2>1, <2>2 DEF ContUseOK, ContInUse, ContInterval
<1>3. ASSUME sinceCont'.used = sinceCont.used, sinceCont'.elapsed = sinceCont.elapsed,
             ContComparing' => ContComparing /\ overCont' = overCont
      PROVE  ContUseOK'
  BY <1>3 DEF ContUseOK, ContInUse, ContInterval
<1>4. CASE \/ \E t \in 0..MaxTime : SetClock(t)
           \/ \E p \in Pid, g \in Program : Start(p, g) \/ Exec(p, g)
           \/ \E p \in Pid : End(p) \/ Reap(p)
  <2>1. UNCHANGED <<pc, overCont, recorded>>
    BY <1>4 DEF SetClock, Start, Exec, End, Reap
  <2>2. sinceCont'.used = sinceCont.used /\ sinceCont'.elapsed = sinceCont.elapsed
    BY <1>1, <1>4 DEF SetClock, Start, Exec, End, Reap, ContInterval
  <2>3. QED
    BY <1>3, <2>1, <2>2 DEF ContComparing
<1>5. CASE ReadContInfo
  <2>1. overCont' = sinceCont /\ sinceCont' = ContTime(TRUE)
    BY <1>5 DEF ReadContInfo
  <2>2. ContInUse(ContTime(TRUE)) /\ ContInUse(sinceCont)
    BY NothingInUseByCont DEF ContUseOK
  <2>3. QED
    BY <1>1, <2>1, <2>2 DEF ContUseOK, ContInUse, ContInterval
<1>6. CASE EndTurn \/ Restart
  <2>1. recorded' = Nothing /\ pc' = "sysinfo" /\ sinceCont' \in {sinceCont, ContTime(FALSE)}
    BY <1>6 DEF EndTurn, Restart
  <2>2. ~ContComparing'
    BY <2>1 DEF ContComparing, Nothing
  <2>3. ContInUse(sinceCont')
    BY <2>1, NothingInUseByCont DEF ContUseOK
  <2>4. QED
    BY <2>2, <2>3 DEF ContUseOK
<1>7. CASE InsertContainerMetricsBulk \/ InsertContainerMetricsFails
  <2>1. ContComparing /\ UNCHANGED <<overCont, sinceCont>>
    BY <1>7 DEF InsertContainerMetricsBulk, InsertContainerMetricsFails, KeepCont,
                ContComparing
  <2>2. QED
    BY <1>3, <2>1
<1>8. ASSUME recorded'.conts = recorded.conts, pc' # "conts",
             UNCHANGED <<overCont, sinceCont>>
      PROVE  ContUseOK'
  BY <1>3, <1>8 DEF ContComparing
<1>9. CASE \/ ReadSysinfo \/ ReadSysinfoFails \/ InsertSystemMetrics
           \/ InsertProcessMetricsFails \/ InsertProcessStateFails \/ ReadContInfoFails
  BY <1>8, <1>9 DEF ReadSysinfo, ReadSysinfoFails, InsertSystemMetrics,
                    InsertProcessMetricsFails, InsertProcessStateFails, KeepSys,
                    ReadContInfoFails
<1>10. CASE InsertProcessMetricsBulk
  <2>1. recorded'.conts = recorded.conts
    BY <1>10 DEF InsertProcessMetricsBulk
  <2>2. QED
    BY <1>8, <1>10, <2>1 DEF InsertProcessMetricsBulk
<1>11. CASE InsertProcessStateSummary
  <2>1. recorded'.conts = recorded.conts
    BY <1>11 DEF InsertProcessStateSummary
  <2>2. QED
    BY <1>8, <1>11, <2>1 DEF InsertProcessStateSummary, KeepSys
<1>12. QED
  BY <1>2, <1>4, <1>5, <1>6, <1>7, <1>9, <1>10, <1>11 DEF Next, Turn, Machine

LEMMA ContShareFits ==
    ASSUME ContShareIsOfInterval, ContUseOK
    PROVE  ContShareIsPercentage
<1> SUFFICES ASSUME recorded.conts # None, ~overCont.set, NEW p \in DOMAIN recorded.conts,
                    recorded.conts[p].program \notin overCont.joined
             PROVE  recorded.conts[p].pct.used <= recorded.conts[p].pct.of
  BY DEF ContShareIsPercentage
<1> DEFINE g == recorded.conts[p].program
           share == recorded.conts[p].pct
           e == overCont.elapsed
<1>1. CASE share = Zero
  BY <1>1 DEF Zero
<1>2. CASE share # Zero
  <2>1. /\ share \in Share /\ g \in Docker /\ share.used <= overCont.used[g]
        /\ share.of = Second * e * NumCPUs
    BY <1>2 DEF ContShareIsOfInterval
  <2>2. overCont \in ContInterval /\ ContInUse(overCont)
    BY DEF ContUseOK, ContComparing
  <2>3. share.used \in Nat /\ overCont.used[g] \in Nat /\ e \in Nat
    BY <2>1, <2>2 DEF Share, ContInterval
  <2>4. overCont.used[g] <= NumCPUs * (Second * e)
    BY <2>1, <2>2 DEF ContInUse
  <2> HIDE DEF share, e, g
  <2>5. NumCPUs * (Second * e) = share.of /\ share.of \in Nat
    BY <2>1, <2>3, UnitsAssumption
  <2>6. share.used <= share.of
    BY <2>1, <2>3, <2>4, <2>5
  <2>7. QED
    BY <2>6 DEF share
<1>3. QED
  BY <1>1, <1>2

\* What is recorded of a docker command is at most 100 percent of the machine
\* (src/Daemon/insert_cont.go:422-431), whatever number of processes have it, unless the
\* clock is set or a process comes to it by execve.
THEOREM ContSharesArePercentages == Spec => []ContShareIsPercentage
<1>1. Init => ContUseOK
  <2> SUFFICES ASSUME Init PROVE ContUseOK
    OBVIOUS
  <2>1. /\ sinceCont = ContTime(FALSE) /\ ~ContComparing
    BY DEF Init, ContComparing, Nothing
  <2>2. ContInUse(sinceCont)
    BY <2>1, NothingInUseByCont
  <2>3. QED
    BY <2>1, <2>2 DEF ContUseOK
<1>2. TypeOK /\ ContUseOK /\ [Next]_vars => ContUseOK'
  <2> SUFFICES ASSUME TypeOK, ContUseOK, [Next]_vars PROVE ContUseOK'
    OBVIOUS
  <2>1. CASE Next
    BY <2>1, ContUseStep
  <2>2. CASE UNCHANGED vars
    BY <2>2 DEF vars, ofCont, since, ContUseOK, ContInUse, ContComparing, ContInterval
  <2>3. QED
    BY <2>1, <2>2
<1>3. ContShareIsOfInterval /\ ContUseOK => ContShareIsPercentage
  BY ContShareFits
<1>4. QED
  BY <1>1, <1>2, <1>3, TypeCorrect, ContSharesAreOfInterval, PTL DEF Spec

=============================================================================
