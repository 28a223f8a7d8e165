------------------------- MODULE SysinfoProcProofs -------------------------
(***************************************************************************)
(* Theorems about SysinfoProc, for any readers and any number of ticks.    *)
(***************************************************************************)
EXTENDS SysinfoProc, TLAPS

-----------------------------------------------------------------------------
(* No tick escapes.                                                        *)

\* The counters are numbers, and prev, stat and the samples have both.
Numbers ==
    /\ stat \in [Counter -> Nat] /\ prev \in [Counter -> Nat]
    /\ sample \in [Reader -> [Counter -> Nat]]
    /\ todo \in [Reader -> SUBSET Counter]
    /\ pc \in [Reader -> {"closed", "show", "load", "store", "output"}]

\* The total of r has been compared with prev_total, and is not yet out of use.
Compared(r) == pc[r] = "store" \/ (pc[r] = "load" /\ "total" \notin todo[r])

\* What a run is about to store lies within what has been measured.
SamplesMeasured ==
    \A r \in Reader : Compared(r) => 1..sample[r]["total"] \subseteq measured

IInv == Numbers /\ SamplesMeasured /\ NoTickEscapes

LEMMA IInvInit == Init => IInv
BY DEF Init, IInv, Numbers, SamplesMeasured, Compared, NoTickEscapes, Zero, Counter

\* A load measures up to the sample what the globals had not reached.
LEMMA LoadStep ==
    ASSUME IInv, NEW r \in Reader, NEW v \in Counter, Load(r, v)
    PROVE  IInv'
<1>1. /\ pc[r] = "load" /\ v \in todo[r] /\ prev' = prev /\ sample' = sample /\ stat' = stat
      /\ measured \subseteq measured'
      /\ v = "total" => (prev["total"] + 1)..sample[r]["total"] \subseteq measured'
  BY DEF Load, globals
<1>2. /\ pc' \in [Reader -> {"closed", "show", "load", "store", "output"}]
      /\ todo' \in [Reader -> SUBSET Counter]
      /\ \/ pc'[r] = "store" /\ todo[r] = {v}
         \/ pc'[r] = "load" /\ todo'[r] = todo[r] \ {v}
      /\ \A q \in Reader \ {r} : pc'[q] = pc[q] /\ todo'[q] = todo[q]
  <2>1. /\ pc \in [Reader -> {"closed", "show", "load", "store", "output"}]
        /\ todo \in [Reader -> SUBSET Counter] /\ pc[r] = "load"
    BY <1>1 DEF IInv, Numbers
  <2>2. CASE todo[r] = {v}
    <3>1. pc' = [pc EXCEPT ![r] = "store"] /\ todo' = [todo EXCEPT ![r] = Counter]
      BY <2>2 DEF Load
    <3>2. QED
      BY <2>1, <2>2, <3>1
  <2>3. CASE todo[r] # {v}
    <3>1. pc' = pc /\ todo' = [todo EXCEPT ![r] = @ \ {v}]
      BY <2>3 DEF Load
    <3>2. QED
      BY <2>1, <3>1
  <2>4. QED
    BY <2>2, <2>3
<1>3. Numbers'
  BY <1>1, <1>2 DEF IInv, Numbers
<1>4. NoTickEscapes'
  BY <1>1 DEF IInv, NoTickEscapes
<1>5. ASSUME NEW q \in Reader, Compared(q)' PROVE 1..sample'[q]["total"] \subseteq measured'
  <2>1. CASE q # r \/ v # "total"
    <3>1. Compared(q)
      BY <1>1, <1>2, <1>5, <2>1 DEF Compared, Counter
    <3>2. QED
      BY <1>1, <3>1 DEF IInv, SamplesMeasured
  <2>2. CASE q = r /\ v = "total"
    <3>1. prev["total"] \in Nat /\ sample[r]["total"] \in Nat
      BY DEF IInv, Numbers, Counter
    <3>2. 1..prev["total"] \subseteq measured'
      BY <1>1 DEF IInv, NoTickEscapes
    <3>3. 1..sample[r]["total"] \subseteq
              1..prev["total"] \cup (prev["total"] + 1)..sample[r]["total"]
      BY <3>1
    <3>4. QED
      BY <1>1, <2>2, <3>2, <3>3
  <2>3. QED
    BY <2>1, <2>2
<1>6. QED
  BY <1>3, <1>4, <1>5 DEF IInv, SamplesMeasured

\* A store leaves in prev_total a sample that has been measured.
LEMMA StoreStep ==
    ASSUME IInv, NEW r \in Reader, NEW v \in Counter, Store(r, v)
    PROVE  IInv'
<1>1. /\ pc[r] = "store" /\ prev' = [prev EXCEPT ![v] = sample[r][v]] /\ sample' = sample
      /\ stat' = stat /\ measured' = measured
  BY DEF Store
<1>2. /\ pc' \in [Reader -> {"closed", "show", "load", "store", "output"}]
      /\ todo' \in [Reader -> SUBSET Counter]
      /\ pc'[r] \in {"store", "output"}
      /\ \A q \in Reader \ {r} : pc'[q] = pc[q] /\ todo'[q] = todo[q]
  BY DEF Store, IInv, Numbers
<1>3. Numbers'
  BY <1>1, <1>2 DEF IInv, Numbers, Counter
<1>4. SamplesMeasured'
  BY <1>1, <1>2 DEF IInv, SamplesMeasured, Compared
<1>5. prev'["total"] = IF v = "total" THEN sample[r]["total"] ELSE prev["total"]
  BY <1>1 DEF IInv, Numbers, Counter
<1>6. NoTickEscapes'
  BY <1>1, <1>5 DEF IInv, SamplesMeasured, Compared, NoTickEscapes
<1>7. QED
  BY <1>3, <1>4, <1>6 DEF IInv

LEMMA IInvStep == IInv /\ [Next]_vars => IInv'
<1> SUFFICES ASSUME IInv, [Next]_vars PROVE IInv'
  OBVIOUS
<1> USE DEF IInv, Numbers, SamplesMeasured, Compared, NoTickEscapes, globals, history
<1>1. CASE Tick
  <2>1. stat' \in [Counter -> Nat]
    BY <1>1 DEF Tick, Counter
  <2>2. QED
    BY <1>1, <2>1 DEF Tick
<1>2. ASSUME NEW r \in Reader, Open(r) PROVE IInv'
  BY <1>2 DEF Open
<1>3. ASSUME NEW r \in Reader, ReadStat(r) PROVE IInv'
  BY <1>3 DEF ReadStat, Counter
<1>4. ASSUME NEW r \in Reader, ReadStatFails(r) PROVE IInv'
  BY <1>4 DEF ReadStatFails
<1>5. ASSUME NEW r \in Reader, Return(r), \E s \in {"show", "closed"} : pc' = [pc EXCEPT ![r] = s]
      PROVE  IInv'
  BY <1>5 DEF Return, Zero, Counter
<1>6. CASE UNCHANGED vars
  BY <1>6 DEF vars
<1>7. QED
  BY <1>1, <1>2, <1>3, <1>4, <1>5, <1>6, LoadStep, StoreStep DEF Next, Run, Retry, Close

\* No tick of the CPU escapes every figure, however many readers race
\* (sysinfo_so1_201801521.c:67-74).
THEOREM NoTickEverEscapes == Spec => []NoTickEscapes
<1>1. IInv => NoTickEscapes
  BY DEF IInv
<1>2. QED
  BY <1>1, IInvInit, IInvStep, PTL DEF Spec

-----------------------------------------------------------------------------
(* The arithmetic of a percentage.                                         *)

\* A remainder is less than its divisor, and a number that is less is its own.
LEMMA Remainder ==
    ASSUME NEW a \in Int, NEW w \in Nat \ {0}
    PROVE  /\ a % w \in 0..(w - 1)
           /\ a \in 0..(w - 1) => a % w = a
OBVIOUS

\* What a division does.
LEMMA Quotient ==
    ASSUME NEW a \in Nat, NEW d \in Nat \ {0}
    PROVE  /\ a \div d \in Nat
           /\ d * (a \div d) <= a /\ a < d * (a \div d) + d
OBVIOUS

\* A division by ten after five is added.
LEMMA Rounding ==
    ASSUME NEW q \in Nat
    PROVE  /\ (q + 5) \div 10 \in Nat
           /\ 10 * ((q + 5) \div 10) <= q + 5 /\ q + 1 <= 10 * ((q + 5) \div 10) + 5
OBVIOUS

\* The quotient of a thousandfold, rounded to tens, is the nearest percent.
LEMMA Nearest ==
    ASSUME NEW b \in Nat, NEW d \in Nat \ {0}, NEW q \in Nat, NEW p \in Nat,
           d * q <= 1000 * b, 1000 * b < d * q + d, 10 * p <= q + 5, q + 1 <= 10 * p + 5
    PROVE  IsNearestPercent(p, b, d)
<1>1. d * (10 * p) <= d * (q + 5) /\ d * (q + 1) <= d * (10 * p + 5)
  <2>1. \A x, y \in Nat : x <= y => d * x <= d * y
    OBVIOUS
  <2>2. QED
    BY <2>1
<1>2. /\ d * (10 * p) = 10 * (p * d) /\ d * (q + 5) = d * q + 5 * d
      /\ d * (q + 1) = d * q + d /\ d * (10 * p + 5) = 10 * (p * d) + 5 * d
  OBVIOUS
<1>3. p * d \in Nat /\ d * q \in Nat
  OBVIOUS
<1>4. -d <= 2 * (100 * b - p * d) /\ 2 * (100 * b - p * d) < d
  BY <1>1, <1>2, <1>3
<1>5. QED
  BY <1>4 DEF IsNearestPercent

\* Of differences that do not wrap, Percent is the nearest percent.
LEMMA PercentIsNearest ==
    ASSUME NEW d \in [Counter -> 0..MaxTicks], d["idle"] <= d["total"]
    PROVE  IsNearestPercent(Percent(d), d["total"] - d["idle"], d["total"])
<1> DEFINE b == d["total"] - d["idle"]
<1>1. d["total"] \in 0..MaxTicks /\ d["idle"] \in 0..MaxTicks
  BY DEF Counter
<1>2. Word \in Nat \ {0} /\ b \in Nat /\ b \in 0..(Word - 1) /\ 1000 * b \in 0..(Word - 1)
  BY <1>1, BoundsAssumption, WordAssumption
<1>3. CASE d["total"] = 0
  BY <1>3 DEF Percent, IsNearestPercent
<1>4. CASE d["total"] # 0
  <2> DEFINE t == d["total"]
             n == 1000 * b
             q == n \div t
  <2>1. t \in Nat \ {0}
    BY <1>1, <1>4, BoundsAssumption
  <2>2. b \in Nat /\ b \in Int /\ n \in Nat /\ n \in Int
    BY <1>2
  <2>3. b \in 0..(Word - 1) /\ n \in 0..(Word - 1) /\ Word \in Nat \ {0}
    BY <1>2
  <2>4. /\ Percent(d) = (((1000 * (b % Word)) % Word) \div t + 5) \div 10
        /\ n = 1000 * b
    BY <1>4 DEF Percent
  <2> HIDE DEF b, t, n
  <2>5. b % Word = b /\ n % Word = n
    <3>1. b % Word = b
      BY <2>2, <2>3, Remainder
    <3>2. n % Word = n
      BY <2>2, <2>3, Remainder
    <3>3. QED
      BY <3>1, <3>2
  <2>6. Percent(d) = (q + 5) \div 10
    BY <2>2, <2>4, <2>5
  <2>7. q \in Nat /\ t * q <= n /\ n < t * q + t
    <3>1. n \div t \in Nat /\ t * (n \div t) <= n /\ n < t * (n \div t) + t
      BY <2>1, <2>2, Quotient
    <3>2. QED
      BY <3>1
  <2> HIDE DEF q
  <2>8. IsNearestPercent((q + 5) \div 10, b, t)
    BY <2>1, <2>2, <2>4, <2>7, Rounding, Nearest
  <2>9. QED
    BY <2>6, <2>8 DEF b, t
<1>5. QED
  BY <1>3, <1>4

-----------------------------------------------------------------------------
(* Types, and what loading and storing do.                                 *)

\* Of two samples, the second is not earlier: neither count falls, and no more
\* ticks are idle than there are.
Grows(a, b) == a["idle"] <= b["idle"] /\ b["idle"] - a["idle"] <= b["total"] - a["total"]

TypeInv == TypeOK /\ Grows(Zero, stat)

PC == {"closed", "show", "load", "store", "output"}

\* The percentage is a number.
LEMMA PercentType ==
    ASSUME NEW d \in [Counter -> 0..(Word - 1)]
    PROVE  Percent(d) \in Nat
<1>1. Word \in Nat \ {0} /\ d["total"] \in Nat /\ d["idle"] \in Nat
  BY BoundsAssumption, WordAssumption DEF Counter
<1>2. CASE d["total"] = 0
  BY <1>2 DEF Percent
<1>3. CASE d["total"] # 0
  <2> DEFINE n == (1000 * ((d["total"] - d["idle"]) % Word)) % Word
             t == d["total"]
             x == (d["total"] - d["idle"]) % Word
  <2>1. n \in Nat /\ t \in Nat \ {0}
    <3> DEFINE y == d["total"] - d["idle"]
               m == 1000 * x
    <3>1. y \in Int
      BY <1>1
    <3> HIDE DEF y
    <3>2. y % Word \in 0..(Word - 1)
      BY <1>1, <3>1, Remainder
    <3>3. x \in 0..(Word - 1)
      BY <3>2 DEF y
    <3> HIDE DEF x
    <3>4. m \in Int
      BY <1>1, <3>3
    <3> HIDE DEF m
    <3>5. m % Word \in 0..(Word - 1)
      BY <1>1, <3>4, Remainder
    <3>6. n \in 0..(Word - 1)
      BY <3>5 DEF m, x
    <3> HIDE DEF n
    <3>7. QED
      BY <1>1, <1>3, <3>6
  <2>2. Percent(d) = (n \div t + 5) \div 10
    BY <1>3 DEF Percent
  <2> HIDE DEF n, t
  <2>3. n \div t \in Nat
    BY <2>1, Quotient
  <2>4. QED
    BY <2>2, <2>3, Rounding
<1>4. QED
  BY <1>2, <1>3

\* The effect of a load.
LEMMA LoadEffect ==
    ASSUME TypeInv, NEW r \in Reader, NEW v \in Counter, Load(r, v)
    PROVE  /\ pc[r] = "load" /\ v \in todo[r]
           /\ diff'[r][v] = (sample[r][v] - prev[v]) % Word
           /\ \A u \in Counter \ {v} : diff'[r][u] = diff[r][u]
           /\ \A q \in Reader \ {r} : /\ diff'[q] = diff[q] /\ pc'[q] = pc[q]
                                      /\ todo'[q] = todo[q] /\ pct'[q] = pct[q]
           /\ \/ /\ todo[r] = {v} /\ pc'[r] = "store" /\ todo'[r] = Counter
                 /\ pct'[r] = Percent(diff'[r])
              \/ /\ todo[r] # {v} /\ pc'[r] = "load" /\ todo'[r] = todo[r] \ {v}
                 /\ pct'[r] = pct[r]
           /\ DOMAIN diff' = Reader /\ DOMAIN diff'[r] = Counter
           /\ diff' = [q \in Reader |-> diff'[q]] /\ diff'[r] = [u \in Counter |-> diff'[r][u]]
           /\ pc' = [q \in Reader |-> pc'[q]] /\ todo' = [q \in Reader |-> todo'[q]]
           /\ pct' = [q \in Reader |-> pct'[q]]
<1>1. /\ pc \in [Reader -> PC] /\ todo \in [Reader -> SUBSET Counter]
      /\ diff \in [Reader -> [Counter -> 0..(Word - 1)]] /\ pct \in [Reader -> Nat]
  BY DEF TypeInv, TypeOK, PC
<1>2. /\ pc[r] = "load" /\ v \in todo[r]
      /\ diff' = [diff EXCEPT ![r][v] = (sample[r][v] - prev[v]) % Word]
  BY DEF Load
<1>3. \/ /\ todo[r] = {v} /\ pc' = [pc EXCEPT ![r] = "store"]
         /\ todo' = [todo EXCEPT ![r] = Counter]
         /\ pct' = [pct EXCEPT ![r] = Percent(diff'[r])]
      \/ /\ todo[r] # {v} /\ pc' = pc /\ pct' = pct
         /\ todo' = [todo EXCEPT ![r] = @ \ {v}]
  BY DEF Load
<1>4. /\ diff'[r][v] = (sample[r][v] - prev[v]) % Word
      /\ \A u \in Counter \ {v} : diff'[r][u] = diff[r][u]
      /\ \A q \in Reader \ {r} : diff'[q] = diff[q]
      /\ DOMAIN diff' = Reader /\ DOMAIN diff'[r] = Counter
      /\ diff' = [q \in Reader |-> diff'[q]] /\ diff'[r] = [u \in Counter |-> diff'[r][u]]
  BY <1>1, <1>2
<1>5. QED
  BY <1>1, <1>2, <1>3, <1>4

\* What a load leaves has its type.
LEMMA LoadType ==
    ASSUME TypeInv, NEW r \in Reader, NEW v \in Counter, Load(r, v)
    PROVE  /\ pc' \in [Reader -> PC] /\ todo' \in [Reader -> SUBSET Counter]
           /\ diff' \in [Reader -> [Counter -> 0..(Word - 1)]] /\ pct' \in [Reader -> Nat]
           /\ measured' \subseteq 1..MaxTicks
<1>1. /\ pc \in [Reader -> PC] /\ todo \in [Reader -> SUBSET Counter]
      /\ diff \in [Reader -> [Counter -> 0..(Word - 1)]] /\ pct \in [Reader -> Nat]
      /\ measured \subseteq 1..MaxTicks
      /\ sample[r][v] \in 0..MaxTicks /\ prev[v] \in 0..MaxTicks
  BY DEF TypeInv, TypeOK, PC, Sample
<1>2. Word \in Nat \ {0} /\ MaxTicks \in Nat
  BY BoundsAssumption, WordAssumption
<1>3. (sample[r][v] - prev[v]) % Word \in 0..(Word - 1)
  <2>1. sample[r][v] - prev[v] \in Int
    BY <1>1, <1>2
  <2>2. QED
    BY <1>2, <2>1, Remainder
<1>4. diff'[r] \in [Counter -> 0..(Word - 1)]
  <2>1. \A u \in Counter : diff'[r][u] \in 0..(Word - 1)
    <3>1. \A u \in Counter \ {v} : diff'[r][u] = diff[r][u]
      BY LoadEffect
    <3>2. diff'[r][v] \in 0..(Word - 1)
      BY <1>3, LoadEffect
    <3>3. QED
      BY <1>1, <3>1, <3>2
  <2>2. diff'[r] = [u \in Counter |-> diff'[r][u]]
    BY LoadEffect
  <2>3. QED
    BY <2>1, <2>2
<1>5. /\ pc' = [q \in Reader |-> pc'[q]] /\ todo' = [q \in Reader |-> todo'[q]]
      /\ diff' = [q \in Reader |-> diff'[q]] /\ pct' = [q \in Reader |-> pct'[q]]
  BY LoadEffect
<1>6. \A q \in Reader \ {r} : /\ diff'[q] = diff[q] /\ pc'[q] = pc[q]
                              /\ todo'[q] = todo[q] /\ pct'[q] = pct[q]
  BY LoadEffect
<1>7. /\ pc'[r] \in PC /\ todo'[r] \in SUBSET Counter /\ pct'[r] \in Nat
  BY <1>1, <1>4, LoadEffect, PercentType DEF PC
<1>8. measured' \subseteq 1..MaxTicks
  <2>1. (prev[v] + 1)..sample[r][v] \subseteq 1..MaxTicks
    BY <1>1, <1>2
  <2>2. QED
    BY <1>1, <2>1 DEF Load
<1>9. /\ pc' \in [Reader -> PC] /\ todo' \in [Reader -> SUBSET Counter]
      /\ pct' \in [Reader -> Nat]
  BY <1>1, <1>5, <1>6, <1>7
<1>10. diff' \in [Reader -> [Counter -> 0..(Word - 1)]]
  BY <1>1, <1>4, <1>5, <1>6
<1>11. QED
  BY <1>8, <1>9, <1>10

\* The effect of a store.
LEMMA StoreEffect ==
    ASSUME TypeInv, NEW r \in Reader, NEW v \in Counter, Store(r, v)
    PROVE  /\ pc[r] = "store" /\ v \in todo[r]
           /\ prev' = [u \in Counter |-> IF u = v THEN sample[r][v] ELSE prev[u]]
           /\ todo'[r] = todo[r] \ {v}
           /\ \A q \in Reader \ {r} : pc'[q] = pc[q] /\ todo'[q] = todo[q]
           /\ \/ /\ todo[r] = {v} /\ pc'[r] = "output"
                 /\ base' = IF r \in disturbed THEN Torn ELSE sample[r]
              \/ todo[r] # {v} /\ pc'[r] = "store" /\ base' = base
           /\ pc' = [q \in Reader |-> pc'[q]] /\ todo' = [q \in Reader |-> todo'[q]]
<1>1. /\ pc \in [Reader -> PC] /\ todo \in [Reader -> SUBSET Counter]
      /\ prev \in [Counter -> 0..MaxTicks]
  BY DEF TypeInv, TypeOK, PC, Sample
<1>2. /\ pc[r] = "store" /\ v \in todo[r]
      /\ prev' = [prev EXCEPT ![v] = sample[r][v]]
      /\ todo' = [todo EXCEPT ![r] = @ \ {v}]
  BY DEF Store
<1>3. \/ /\ todo[r] = {v} /\ pc' = [pc EXCEPT ![r] = "output"]
         /\ base' = IF r \in disturbed THEN Torn ELSE sample[r]
      \/ todo[r] # {v} /\ pc' = pc /\ base' = base
  BY DEF Store
<1>4. prev' = [u \in Counter |-> IF u = v THEN sample[r][v] ELSE prev[u]]
  BY <1>1, <1>2
<1>5. QED
  BY <1>1, <1>2, <1>3, <1>4

\* What a store leaves has its type.
LEMMA StoreType ==
    ASSUME TypeInv, NEW r \in Reader, NEW v \in Counter, Store(r, v)
    PROVE  /\ prev' \in Sample /\ base' \in Sample \cup {Torn}
           /\ pc' \in [Reader -> PC] /\ todo' \in [Reader -> SUBSET Counter]
<1>1. /\ pc \in [Reader -> PC] /\ todo \in [Reader -> SUBSET Counter]
      /\ base \in Sample \cup {Torn} /\ sample[r] \in Sample /\ prev \in Sample
  BY DEF TypeInv, TypeOK, PC
<1>2. \A u \in Counter : sample[r][v] \in 0..MaxTicks /\ prev[u] \in 0..MaxTicks
  BY <1>1 DEF Sample
<1>3. prev' = [u \in Counter |-> IF u = v THEN sample[r][v] ELSE prev[u]]
  BY StoreEffect
<1>4. prev' \in Sample
  BY <1>2, <1>3 DEF Sample
<1>5. base' \in Sample \cup {Torn}
  BY <1>1, StoreEffect
<1>6. /\ pc' \in [Reader -> PC] /\ todo' \in [Reader -> SUBSET Counter]
  BY <1>1, StoreEffect DEF PC
<1>7. QED
  BY <1>4, <1>5, <1>6

LEMMA TypeInvInit == Init => TypeInv
BY BoundsAssumption, WordAssumption
DEF Init, TypeInv, TypeOK, Sample, Grows, Zero, Counter

LEMMA TypeInvStep == TypeInv /\ [Next]_vars => TypeInv'
<1> SUFFICES ASSUME TypeInv, [Next]_vars PROVE TypeInv'
  OBVIOUS
<1> USE DEF TypeInv, TypeOK, globals, history
<1>1. CASE Tick
  <2>1. PICK x \in {0, 1} : stat' = [total |-> stat["total"] + 1, idle |-> stat["idle"] + x]
    BY <1>1 DEF Tick
  <2>2. stat["total"] \in 0..MaxTicks /\ stat["idle"] \in 0..MaxTicks /\ stat["total"] < MaxTicks
        /\ stat["idle"] <= stat["total"]
    BY <1>1 DEF Tick, Sample, Counter, Grows, Zero
  <2>3. stat' \in Sample
    BY <2>1, <2>2, BoundsAssumption DEF Sample, Counter
  <2>4. Grows(Zero, stat)'
    BY <2>1, <2>2, BoundsAssumption DEF Grows, Zero, Counter
  <2>5. QED
    BY <1>1, <2>3, <2>4 DEF Tick
<1>2. ASSUME NEW r \in Reader, Open(r) PROVE TypeInv'
  BY <1>2 DEF Open, Grows
<1>3. ASSUME NEW r \in Reader, ReadStat(r) PROVE TypeInv'
  <2>1. disturbed' \subseteq Reader
    BY <1>3 DEF ReadStat, UsingGlobals
  <2>2. /\ sample' = [sample EXCEPT ![r] = stat] /\ pc' = [pc EXCEPT ![r] = "load"]
        /\ todo' = [todo EXCEPT ![r] = Counter] /\ from' = [from EXCEPT ![r] = base]
    BY <1>3 DEF ReadStat
  <2>3. QED
    BY <1>3, <2>1, <2>2 DEF ReadStat, Grows
<1>4. ASSUME NEW r \in Reader, ReadStatFails(r) PROVE TypeInv'
  BY <1>4, BoundsAssumption DEF ReadStatFails, Grows
<1>5. ASSUME NEW r \in Reader, NEW v \in Counter, Load(r, v) PROVE TypeInv'
  <2>1. /\ stat' = stat /\ prev' = prev /\ sample' = sample /\ retries' = retries
        /\ faults' = faults /\ disturbed' = disturbed /\ base' = base /\ from' = from
    BY <1>5 DEF Load
  <2>2. QED
    BY <1>5, <2>1, LoadType DEF PC, Grows
<1>6. ASSUME NEW r \in Reader, NEW v \in Counter, Store(r, v) PROVE TypeInv'
  <2>1. /\ stat' = stat /\ sample' = sample /\ diff' = diff /\ pct' = pct
        /\ retries' = retries /\ faults' = faults /\ disturbed' = disturbed
        /\ from' = from /\ measured' = measured
    BY <1>6 DEF Store
  <2>2. QED
    BY <1>6, <2>1, StoreType DEF PC, Grows
<1>7. ASSUME NEW r \in Reader, Return(r), Retry(r) \/ Close(r) PROVE TypeInv'
  <2>1. Zero \in Sample /\ Zero \in [Counter -> 0..(Word - 1)]
    BY BoundsAssumption, WordAssumption DEF Zero, Sample
  <2>2. /\ sample' = [sample EXCEPT ![r] = Zero] /\ diff' = [diff EXCEPT ![r] = Zero]
        /\ pct' = [pct EXCEPT ![r] = 0] /\ from' = [from EXCEPT ![r] = Zero]
        /\ disturbed' = disturbed \ {r}
        /\ UNCHANGED <<stat, prev, todo, faults, base, measured>>
    BY <1>7 DEF Return
  <2>3. /\ pc' \in [Reader -> {"closed", "show", "load", "store", "output"}]
        /\ retries' \in [Reader -> 0..MaxRetries]
    <3>1. CASE Retry(r)
      <4>1. retries[r] < MaxRetries /\ retries' = [retries EXCEPT ![r] = retries[r] + 1]
            /\ pc' = [pc EXCEPT ![r] = "show"]
        BY <3>1 DEF Retry
      <4>2. retries[r] + 1 \in 0..MaxRetries
        BY <4>1, BoundsAssumption
      <4>3. QED
        BY <4>1, <4>2
    <3>2. CASE Close(r)
      BY <3>2, BoundsAssumption DEF Close
    <3>3. QED
      BY <1>7, <3>1, <3>2
  <2>4. QED
    BY <2>1, <2>2, <2>3 DEF Grows
<1>8. CASE UNCHANGED vars
  BY <1>8 DEF vars, Grows
<1>9. QED
  BY <1>1, <1>2, <1>3, <1>4, <1>5, <1>6, <1>7, <1>8 DEF Next, Run, Retry, Close

LEMMA TypeInvAlways == Spec => []TypeInv
BY TypeInvInit, TypeInvStep, PTL DEF Spec

\* The variables have their types: the globals never hold a wrapped value, however
\* runs race (sysinfo_so1_201801521.c:66-74).
THEOREM TypeCorrect == Spec => []TypeOK
<1>1. TypeInv => TypeOK
  BY DEF TypeInv
<1>2. QED
  BY <1>1, TypeInvAlways, PTL

-----------------------------------------------------------------------------
(* A run that has the globals to itself.                                   *)

Using(r) == pc[r] \in {"load", "store"}
Alone(r) == Using(r) /\ r \notin disturbed

\* Whoever is undisturbed is the only one at the globals.
Exclusive == \A r, q \in Reader : Alone(r) /\ Using(q) => q = r

\* With nobody there, they hold the sample of the last undisturbed run, or it is torn.
Settled == base # Torn /\ (\A q \in Reader : ~Using(q)) => prev = base

\* The samples are in the order in which they were taken.
Ordered ==
    /\ base # Torn => Grows(base, stat)
    /\ \A r \in Reader : Using(r) => /\ Grows(sample[r], stat)
                                     /\ from[r] # Torn => Grows(from[r], sample[r])

\* What such a run has loaded so far are the differences to where it began.
Loaded ==
    \A r \in Reader : Alone(r) /\ pc[r] = "load" /\ from[r] # Torn =>
        prev = from[r] /\ \A v \in Counter \ todo[r] : diff[r][v] = sample[r][v] - from[r][v]

\* What it has stored so far is still there.
Stored ==
    \A r \in Reader : Alone(r) /\ pc[r] = "store" =>
        \A v \in Counter \ todo[r] : prev[v] = sample[r][v]

AloneInv == Exclusive /\ Settled /\ Ordered /\ Loaded /\ Stored /\ AloneIsExact

LEMMA GrowsReflexive == ASSUME NEW a \in Sample PROVE Grows(a, a)
BY BoundsAssumption DEF Sample, Counter, Grows

LEMMA GrowsTransitive ==
    ASSUME NEW a \in Sample, NEW b \in Sample, NEW c \in Sample, Grows(a, b), Grows(b, c)
    PROVE  Grows(a, c)
BY BoundsAssumption DEF Sample, Counter, Grows

LEMMA AloneInvInit == Init => AloneInv
BY BoundsAssumption
DEF Init, AloneInv, Exclusive, Settled, Ordered, Loaded, Stored, AloneIsExact, Alone, Using,
    Grows, Zero, Counter

\* Time passes: only the last sample gets older.
LEMMA AloneTick == TypeInv /\ AloneInv /\ Tick => AloneInv'
<1> SUFFICES ASSUME TypeInv, AloneInv, Tick PROVE AloneInv'
  OBVIOUS
<1>1. UNCHANGED <<prev, pc, todo, sample, diff, pct, retries, faults, history>>
  BY DEF Tick
<1>2. PICK x \in {0, 1} : stat' = [total |-> stat["total"] + 1, idle |-> stat["idle"] + x]
  BY DEF Tick
<1>3. stat \in Sample /\ stat' \in Sample
  <2>1. [Next]_vars
    BY DEF Next
  <2>2. QED
    BY <2>1, TypeInvStep DEF TypeInv, TypeOK
<1>4. Grows(stat, stat')
  BY <1>2, <1>3, BoundsAssumption DEF Grows, Sample, Counter
<1>5. \A a \in Sample : Grows(a, stat) => Grows(a, stat')
  BY <1>3, <1>4, GrowsTransitive
<1>6. base \in Sample \cup {Torn} /\ \A r \in Reader : sample[r] \in Sample
  BY DEF TypeInv, TypeOK
<1>7. Ordered'
  BY <1>1, <1>5, <1>6 DEF AloneInv, Ordered, Using, history
<1>8. QED
  BY <1>1, <1>7
  DEF AloneInv, Exclusive, Settled, Loaded, Stored, AloneIsExact, Alone, Using, history

\* A run that neither was nor gets to the globals.
LEMMA AloneElsewhere ==
    ASSUME TypeInv, AloneInv, NEW r \in Reader, ~Using(r), ~Using(r)',
           \A q \in Reader \ {r} : /\ pc'[q] = pc[q] /\ sample'[q] = sample[q]
                                   /\ diff'[q] = diff[q] /\ pct'[q] = pct[q] /\ from'[q] = from[q],
           disturbed' \in {disturbed, disturbed \ {r}},
           UNCHANGED <<globals, base, todo>>
    PROVE  AloneInv'
<1>1. \A q \in Reader : Using(q)' => q # r /\ Using(q)
  BY DEF Using
<1>2. \A q \in Reader : Alone(q)' => q # r /\ Alone(q)
  BY <1>1 DEF Alone
<1>3. \A q \in Reader : Using(q) => Using(q)'
  BY DEF Using
<1>4. prev' = prev /\ stat' = stat /\ base' = base /\ todo' = todo
  BY DEF globals
<1>5. Exclusive'
  BY <1>1, <1>2 DEF AloneInv, Exclusive
<1>6. Settled'
  BY <1>3, <1>4 DEF AloneInv, Settled
<1>7. Ordered'
  BY <1>1, <1>4 DEF AloneInv, Ordered
<1>8. Loaded' /\ Stored'
  BY <1>2, <1>4 DEF AloneInv, Loaded, Stored
<1>9. AloneIsExact'
  <2>1. ASSUME NEW q \in Reader, pc'[q] = "store", q \notin disturbed', from'[q] # Torn
        PROVE  q # r /\ pc[q] = "store" /\ q \notin disturbed
    BY <1>2, <2>1 DEF Alone, Using
  <2>2. QED
    BY <2>1 DEF AloneInv, AloneIsExact
<1>10. QED
  BY <1>5, <1>6, <1>7, <1>8, <1>9 DEF AloneInv

\* A run gets to the globals: it is alone only if nobody else is there.
LEMMA AloneReadStat ==
    ASSUME TypeInv, AloneInv, NEW r \in Reader, ReadStat(r)
    PROVE  AloneInv'
<1>1. /\ pc[r] = "show" /\ sample' = [sample EXCEPT ![r] = stat]
      /\ pc' = [pc EXCEPT ![r] = "load"] /\ todo' = [todo EXCEPT ![r] = Counter]
      /\ from' = [from EXCEPT ![r] = base]
      /\ stat' = stat /\ prev' = prev /\ base' = base /\ diff' = diff /\ pct' = pct
  BY DEF ReadStat, globals
<1>2. /\ pc'[r] = "load" /\ sample'[r] = stat /\ from'[r] = base /\ todo'[r] = Counter
      /\ \A q \in Reader \ {r} : /\ pc'[q] = pc[q] /\ sample'[q] = sample[q]
                                 /\ from'[q] = from[q] /\ todo'[q] = todo[q]
  BY <1>1 DEF TypeInv, TypeOK
<1>3. \A q \in Reader : Using(q)' <=> q = r \/ Using(q)
  BY <1>2 DEF Using
<1>4. ASSUME NEW q \in Reader, Alone(q)'
      PROVE  q = r /\ \A p \in Reader : ~Using(p)
  <2>1. CASE UsingGlobals = {}
    BY <1>3, <1>4, <2>1 DEF UsingGlobals, Using, Alone
  <2>2. CASE UsingGlobals # {}
    <3>1. disturbed' = disturbed \cup UsingGlobals \cup {r}
      BY <2>2 DEF ReadStat
    <3>2. q \in disturbed'
      BY <1>3, <1>4, <3>1 DEF UsingGlobals, Using, Alone
    <3>3. QED
      BY <1>4, <3>2 DEF Alone
  <2>3. QED
    BY <2>1, <2>2
<1>5. Exclusive'
  BY <1>3, <1>4 DEF Exclusive
<1>6. Settled'
  BY <1>3 DEF Settled
<1>7. Ordered'
  <2>1. stat \in Sample
    BY DEF TypeInv, TypeOK
  <2>2. Grows(stat, stat)
    BY <2>1, GrowsReflexive
  <2>3. QED
    BY <1>1, <1>2, <1>3, <2>2 DEF AloneInv, Ordered
<1>8. Loaded' /\ Stored'
  BY <1>1, <1>2, <1>4 DEF AloneInv, Loaded, Stored, Settled
<1>9. AloneIsExact'
  <2>1. ASSUME NEW q \in Reader, pc'[q] = "store", q \notin disturbed' PROVE FALSE
    BY <1>2, <1>4, <2>1 DEF Alone, Using
  <2>2. QED
    BY <2>1 DEF AloneIsExact
<1>10. QED
  BY <1>5, <1>6, <1>7, <1>8, <1>9 DEF AloneInv

\* A load of a run that is alone finds what it began with, and the difference does
\* not wrap.
LEMMA AloneLoad ==
    ASSUME TypeInv, AloneInv, NEW r \in Reader, NEW v \in Counter, Load(r, v)
    PROVE  AloneInv'
<1>1. /\ stat' = stat /\ prev' = prev /\ sample' = sample /\ base' = base
      /\ from' = from /\ disturbed' = disturbed
  BY DEF Load, globals
<1>2. \A q \in Reader \ {r} : /\ diff'[q] = diff[q] /\ pc'[q] = pc[q]
                              /\ todo'[q] = todo[q] /\ pct'[q] = pct[q]
  BY LoadEffect
<1>3. pc[r] = "load" /\ pc'[r] \in {"load", "store"}
  BY LoadEffect
<1>4. \A q \in Reader : (Using(q)' <=> Using(q)) /\ (Alone(q)' <=> Alone(q))
  BY <1>1, <1>2, <1>3 DEF Using, Alone
<1>5. Exclusive' /\ Settled' /\ Ordered'
  BY <1>1, <1>4 DEF AloneInv, Exclusive, Settled, Ordered
<1>6. ASSUME Alone(r), from[r] # Torn
      PROVE  /\ prev = from[r] /\ from[r] \in Sample /\ sample[r] \in Sample
             /\ Grows(from[r], sample[r])
             /\ \A u \in Counter \ (todo[r] \ {v}) :
                   /\ diff'[r][u] = sample[r][u] - from[r][u]
                   /\ diff'[r][u] \in 0..MaxTicks
  <2>1. /\ prev = from[r] /\ from[r] \in Sample /\ sample[r] \in Sample
        /\ Grows(from[r], sample[r])
    BY <1>3, <1>6 DEF AloneInv, Loaded, Ordered, Alone, Using, TypeInv, TypeOK
  <2>2. \A u \in Counter : sample[r][u] - from[r][u] \in 0..MaxTicks
    BY <2>1, BoundsAssumption DEF Sample, Counter, Grows
  <2>3. sample[r][v] - from[r][v] \in 0..(Word - 1) /\ Word \in Nat \ {0}
    BY <2>2, BoundsAssumption, WordAssumption
  <2>4. (sample[r][v] - from[r][v]) % Word = sample[r][v] - from[r][v]
    <3> DEFINE a == sample[r][v] - from[r][v]
    <3>1. a \in Int /\ a \in 0..(Word - 1)
      BY <2>3
    <3> HIDE DEF a
    <3>2. a % Word = a
      BY <2>3, <3>1, Remainder
    <3>3. QED
      BY <3>2 DEF a
  <2>5. diff'[r][v] = sample[r][v] - from[r][v]
    BY <2>1, <2>4, LoadEffect
  <2>6. \A u \in Counter \ todo[r] : diff[r][u] = sample[r][u] - from[r][u]
    BY <1>3, <1>6 DEF AloneInv, Loaded
  <2>7. v \in todo[r] /\ \A u \in Counter \ {v} : diff'[r][u] = diff[r][u]
    BY LoadEffect
  <2>8. \A u \in Counter \ (todo[r] \ {v}) : diff'[r][u] = sample[r][u] - from[r][u]
    BY <2>5, <2>6, <2>7
  <2>9. QED
    BY <2>1, <2>2, <2>8
<1>7. CASE pc'[r] = "load"
  <2>1. todo'[r] = todo[r] \ {v}
    BY <1>7, LoadEffect
  <2>2. Loaded'
    BY <1>1, <1>2, <1>4, <1>6, <2>1 DEF AloneInv, Loaded
  <2>3. Stored'
    BY <1>1, <1>2, <1>4, <1>7 DEF AloneInv, Stored
  <2>4. AloneIsExact'
    BY <1>1, <1>2, <1>7 DEF AloneInv, AloneIsExact
  <2>5. QED
    BY <1>5, <2>2, <2>3, <2>4 DEF AloneInv
<1>8. CASE pc'[r] = "store"
  <2>1. todo[r] = {v} /\ todo'[r] = Counter /\ pct'[r] = Percent(diff'[r])
    BY <1>8, LoadEffect
  <2>2. Loaded'
    BY <1>1, <1>2, <1>4, <1>8 DEF AloneInv, Loaded
  <2>3. Stored'
    BY <1>1, <1>2, <1>4, <2>1 DEF AloneInv, Stored
  <2>4. ASSUME r \notin disturbed, from[r] # Torn
        PROVE  IsNearestPercent(pct'[r],
                   (sample[r]["total"] - from[r]["total"])
                       - (sample[r]["idle"] - from[r]["idle"]),
                   sample[r]["total"] - from[r]["total"])
    <3>1. Alone(r)
      BY <1>3, <2>4 DEF Alone, Using
    <3>2. \A u \in Counter : /\ diff'[r][u] = sample[r][u] - from[r][u]
                            /\ diff'[r][u] \in 0..MaxTicks
      BY <1>6, <2>1, <2>4, <3>1
    <3>3. diff'[r] = [u \in Counter |-> diff'[r][u]]
      BY LoadEffect
    <3>4. diff'[r] \in [Counter -> 0..MaxTicks]
      BY <3>2, <3>3
    <3>5. /\ diff'[r]["total"] = sample[r]["total"] - from[r]["total"]
          /\ diff'[r]["idle"] = sample[r]["idle"] - from[r]["idle"]
      BY <3>2 DEF Counter
    <3>6. diff'[r]["idle"] <= diff'[r]["total"]
      BY <1>6, <2>4, <3>1, <3>5 DEF Grows
    <3>7. IsNearestPercent(Percent(diff'[r]), diff'[r]["total"] - diff'[r]["idle"],
                           diff'[r]["total"])
      BY <3>4, <3>6, PercentIsNearest
    <3>8. QED
      BY <2>1, <3>5, <3>7
  <2>5. AloneIsExact'
    <3>1. ASSUME NEW q \in Reader \ {r}, pc'[q] = "store", q \notin disturbed', from'[q] # Torn
          PROVE  IsNearestPercent(pct'[q],
                   (sample'[q]["total"] - from'[q]["total"])
                       - (sample'[q]["idle"] - from'[q]["idle"]),
                   sample'[q]["total"] - from'[q]["total"])
      BY <1>1, <1>2, <3>1 DEF AloneInv, AloneIsExact
    <3>2. QED
      BY <1>1, <2>4, <3>1 DEF AloneIsExact
  <2>6. QED
    BY <1>5, <2>2, <2>3, <2>5 DEF AloneInv
<1>9. QED
  BY <1>3, <1>7, <1>8

\* After the last store of a run that is alone the globals are its sample.
LEMMA AloneStore ==
    ASSUME TypeInv, AloneInv, NEW r \in Reader, NEW v \in Counter, Store(r, v)
    PROVE  AloneInv'
<1>1. /\ stat' = stat /\ sample' = sample /\ diff' = diff /\ pct' = pct /\ from' = from
      /\ disturbed' = disturbed
  BY DEF Store
<1>2. /\ pc[r] = "store" /\ todo'[r] = todo[r] \ {v}
      /\ prev' = [u \in Counter |-> IF u = v THEN sample[r][v] ELSE prev[u]]
      /\ \A q \in Reader \ {r} : pc'[q] = pc[q] /\ todo'[q] = todo[q]
  BY StoreEffect
<1>3. \/ todo[r] = {v} /\ pc'[r] = "output" /\ base' = IF r \in disturbed THEN Torn ELSE sample[r]
      \/ todo[r] # {v} /\ pc'[r] = "store" /\ base' = base
  BY StoreEffect
<1>4. \A q \in Reader : /\ Using(q)' => Using(q)
                        /\ Alone(q)' => Alone(q)
                        /\ pc'[q] = "store" => pc[q] = "store"
                        /\ pc'[q] = "load" => q # r /\ pc[q] = "load"
  BY <1>1, <1>2, <1>3 DEF Using, Alone
<1>5. \A q \in Reader : Alone(q) => q = r
  BY <1>2 DEF AloneInv, Exclusive, Using
<1>6. Exclusive'
  BY <1>4 DEF AloneInv, Exclusive
<1>7. Settled'
  <2> SUFFICES ASSUME base' # Torn, \A q \in Reader : ~Using(q)' PROVE prev' = base'
    BY DEF Settled
  <2>1. pc'[r] # "store"
    BY DEF Using
  <2>2. todo[r] = {v} /\ r \notin disturbed /\ base' = sample[r]
    BY <1>3, <2>1
  <2>3. \A u \in Counter \ {v} : prev[u] = sample[r][u]
    BY <1>2, <2>2 DEF AloneInv, Stored, Alone, Using
  <2>4. sample[r] = [u \in Counter |-> sample[r][u]]
    BY DEF TypeInv, TypeOK, Sample
  <2>5. QED
    BY <1>2, <2>2, <2>3, <2>4
<1>8. Ordered'
  BY <1>1, <1>2, <1>3, <1>4 DEF AloneInv, Ordered, Using
<1>9. Loaded'
  BY <1>4, <1>5 DEF Loaded
<1>10. Stored'
  BY <1>1, <1>2, <1>4, <1>5 DEF AloneInv, Stored
<1>11. AloneIsExact'
  BY <1>1, <1>4 DEF AloneInv, AloneIsExact
<1>12. QED
  BY <1>6, <1>7, <1>8, <1>9, <1>10, <1>11 DEF AloneInv

LEMMA AloneInvStep == TypeInv /\ AloneInv /\ [Next]_vars => AloneInv'
<1> SUFFICES ASSUME TypeInv, AloneInv, [Next]_vars PROVE AloneInv'
  OBVIOUS
<1>1. CASE Tick
  BY <1>1, AloneTick
<1>2. ASSUME NEW r \in Reader, Open(r) \/ ReadStatFails(r) PROVE AloneInv'
  <2>1. /\ UNCHANGED <<globals, todo, sample, diff, pct, history>>
        /\ pc[r] \in {"closed", "show"}
        /\ \E x \in {"show", "output"} : pc' = [pc EXCEPT ![r] = x]
    BY <1>2 DEF Open, ReadStatFails
  <2>2. ~Using(r) /\ ~Using(r)' /\ \A q \in Reader \ {r} : pc'[q] = pc[q]
    BY <2>1 DEF Using, TypeInv, TypeOK
  <2>3. sample' = sample /\ diff' = diff /\ pct' = pct /\ from' = from
        /\ disturbed' = disturbed /\ UNCHANGED <<globals, base, todo>>
    BY <2>1 DEF history
  <2>4. QED
    BY <2>2, <2>3, AloneElsewhere
<1>3. ASSUME NEW r \in Reader, Retry(r) \/ Close(r) PROVE AloneInv'
  <2>1. Return(r) /\ \E x \in {"show", "closed"} : pc' = [pc EXCEPT ![r] = x]
    BY <1>3 DEF Retry, Close
  <2>2. /\ pc[r] = "output" /\ ~Using(r) /\ ~Using(r)'
        /\ \A q \in Reader \ {r} : pc'[q] = pc[q]
    BY <2>1 DEF Return, Using, TypeInv, TypeOK
  <2>3. \A q \in Reader \ {r} : /\ sample'[q] = sample[q] /\ diff'[q] = diff[q]
                                /\ pct'[q] = pct[q] /\ from'[q] = from[q]
    BY <2>1 DEF Return, TypeInv, TypeOK
  <2>4. disturbed' = disturbed \ {r} /\ UNCHANGED <<globals, base, todo>>
    BY <2>1 DEF Return
  <2>5. QED
    BY <2>2, <2>3, <2>4, AloneElsewhere
<1>4. CASE UNCHANGED vars
  BY <1>4
  DEF vars, globals, history, AloneInv, Exclusive, Settled, Ordered, Loaded, Stored,
      AloneIsExact, Alone, Using
<1>5. QED
  BY <1>1, <1>2, <1>3, <1>4, AloneReadStat, AloneLoad, AloneStore DEF Next, Run

\* A run that has the globals to itself, after one that had, reports the busy share
\* of exactly the ticks between the two (sysinfo_so1_201801521.c:66-74).
THEOREM AloneRunsAreExact == Spec => []AloneIsExact
<1>1. AloneInv => AloneIsExact
  BY DEF AloneInv
<1>2. QED
  BY <1>1, AloneInvInit, AloneInvStep, TypeInvAlways, PTL DEF Spec

-----------------------------------------------------------------------------
(* What is reported as a percentage.                                       *)

\* A share of b in d, rounded, is at most 100 percent.
LEMMA NearestOfPart ==
    ASSUME NEW p \in Nat, NEW b \in Int, NEW d \in Int, 0 <= d, b <= d,
           IsNearestPercent(p, b, d)
    PROVE  p <= 100
<1>1. CASE d = 0
  BY <1>1 DEF IsNearestPercent
<1>2. CASE d # 0
  <2> SUFFICES ASSUME p >= 101 PROVE FALSE
    OBVIOUS
  <2> DEFINE pd == p * d
  <2>1. pd \in Int /\ pd >= 101 * d
    <3>1. (p - 101) * d >= 0
      OBVIOUS
    <3>2. (p - 101) * d = p * d - 101 * d
      OBVIOUS
    <3>3. p * d \in Int /\ 101 * d \in Int
      OBVIOUS
    <3>4. QED
      BY <3>1, <3>2, <3>3
  <2>2. -d <= 2 * (100 * b - pd)
    BY <1>2 DEF IsNearestPercent
  <2> HIDE DEF pd
  <2>3. QED
    BY <1>2, <2>1, <2>2
<1>3. QED
  BY <1>1, <1>2

\* Whoever is undisturbed, and began after one who was, has a percentage; and 0 as long
\* as there is nothing to report.
Sound ==
    \A r \in Reader :
        /\ r \notin disturbed /\ from[r] # Torn => pct[r] <= 100
        /\ pc[r] \in {"closed", "show", "load"} => pct[r] = 0

\* The load that completes the differences leaves a percentage, if it is undisturbed.
LEMMA SoundLoad ==
    ASSUME TypeInv, AloneInv, AloneInv', Sound, NEW r \in Reader, NEW v \in Counter, Load(r, v)
    PROVE  Sound'
<1>1. sample' = sample /\ from' = from /\ disturbed' = disturbed /\ stat' = stat
  BY DEF Load, globals
<1>2. \A q \in Reader \ {r} : pc'[q] = pc[q] /\ pct'[q] = pct[q]
  BY LoadEffect
<1>3. CASE pc'[r] = "load"
  <2>1. pc[r] = "load" /\ pct'[r] = pct[r]
    BY <1>3, LoadEffect
  <2>2. QED
    BY <1>1, <1>2, <1>3, <2>1 DEF Sound
<1>4. CASE pc'[r] = "store"
  <2>1. ASSUME r \notin disturbed, from[r] # Torn
        PROVE  pct'[r] <= 100
    <3> DEFINE ticks == sample[r]["total"] - from[r]["total"]
               idle == sample[r]["idle"] - from[r]["idle"]
    <3>1. IsNearestPercent(pct'[r], ticks - idle, ticks)
      BY <1>1, <1>4, <2>1 DEF AloneInv, AloneIsExact
    <3>2. Grows(from[r], sample[r]) /\ from[r] \in Sample /\ sample[r] \in Sample
      <4>1. pc[r] = "load"
        BY LoadEffect
      <4>2. QED
        BY <2>1, <4>1 DEF AloneInv, Ordered, Using, TypeInv, TypeOK
    <3>3. ticks \in Int /\ idle \in Int /\ 0 <= idle /\ idle <= ticks
      BY <3>2, BoundsAssumption DEF Grows, Sample, Counter
    <3> HIDE DEF ticks, idle
    <3>4. ticks - idle \in Int /\ ticks - idle <= ticks /\ 0 <= ticks
      BY <3>3
    <3>5. pct'[r] \in Nat
      <4>1. pct' \in [Reader -> Nat]
        BY LoadType
      <4>2. QED
        BY <4>1
    <3>6. QED
      BY <3>1, <3>3, <3>4, <3>5, NearestOfPart
  <2>2. QED
    BY <1>1, <1>2, <1>4, <2>1 DEF Sound
<1>5. QED
  BY <1>3, <1>4, LoadEffect

LEMMA SoundStep ==
    ASSUME TypeInv, AloneInv, AloneInv', Sound, [Next]_vars
    PROVE  Sound'
<1>1. CASE Tick \/ UNCHANGED vars
  BY <1>1 DEF Tick, vars, history, Sound
<1>2. ASSUME NEW r \in Reader, Open(r) PROVE Sound'
  <2>1. /\ pc[r] = "closed" /\ pc' = [pc EXCEPT ![r] = "show"]
        /\ pct' = pct /\ from' = from /\ disturbed' = disturbed
    BY <1>2 DEF Open, history
  <2>2. QED
    BY <2>1 DEF Sound, TypeInv, TypeOK
<1>3. ASSUME NEW r \in Reader, ReadStat(r) PROVE Sound'
  <2>1. /\ pc[r] = "show" /\ pc' = [pc EXCEPT ![r] = "load"] /\ pct' = pct
        /\ from' = [from EXCEPT ![r] = base]
        /\ \A q \in Reader \ {r} : q \in disturbed => q \in disturbed'
    BY <1>3 DEF ReadStat
  <2>2. pct'[r] = 0
    BY <2>1 DEF Sound
  <2>3. \A q \in Reader \ {r} : pc'[q] = pc[q] /\ from'[q] = from[q] /\ pct'[q] = pct[q]
    BY <2>1 DEF TypeInv, TypeOK
  <2>4. QED
    BY <2>1, <2>2, <2>3 DEF Sound
<1>4. ASSUME NEW r \in Reader, ReadStatFails(r) PROVE Sound'
  <2>1. /\ pc[r] = "show" /\ pc' = [pc EXCEPT ![r] = "output"]
        /\ pct' = pct /\ from' = from /\ disturbed' = disturbed
    BY <1>4 DEF ReadStatFails, history
  <2>2. QED
    BY <2>1 DEF Sound, TypeInv, TypeOK
<1>5. ASSUME NEW r \in Reader, NEW v \in Counter, Store(r, v) PROVE Sound'
  <2>1. pct' = pct /\ from' = from /\ disturbed' = disturbed
    BY <1>5 DEF Store
  <2>2. /\ pc'[r] \in {"store", "output"}
        /\ \A q \in Reader \ {r} : pc'[q] = pc[q]
    BY <1>5, StoreEffect
  <2>3. QED
    BY <2>1, <2>2 DEF Sound
<1>6. ASSUME NEW r \in Reader, Retry(r) \/ Close(r) PROVE Sound'
  <2>1. Return(r) /\ \E x \in {"show", "closed"} : pc' = [pc EXCEPT ![r] = x]
    BY <1>6 DEF Retry, Close
  <2>2. /\ pct'[r] = 0
        /\ \A q \in Reader \ {r} : pc'[q] = pc[q] /\ from'[q] = from[q] /\ pct'[q] = pct[q]
        /\ \A q \in Reader \ {r} : q \in disturbed => q \in disturbed'
    BY <2>1 DEF Return, TypeInv, TypeOK
  <2>3. QED
    BY <2>2 DEF Sound
<1>7. QED
  BY <1>1, <1>2, <1>3, <1>4, <1>5, <1>6, SoundLoad DEF Next, Run

\* A single reader is disturbed by nobody.
Undisturbed == disturbed = {} /\ base # Torn /\ \A r \in Reader : from[r] # Torn

LEMMA UndisturbedStep ==
    ASSUME \A r, q \in Reader : r = q, TypeInv, Undisturbed, [Next]_vars
    PROVE  Undisturbed'
<1>1. \A r \in Reader : sample[r] \in Sample /\ sample[r] # Torn
  BY TornAssumption DEF TypeInv, TypeOK
<1>2. CASE Tick \/ UNCHANGED vars
  BY <1>2 DEF Tick, vars, history, Undisturbed
<1>3. ASSUME NEW r \in Reader, Open(r) \/ ReadStatFails(r) PROVE Undisturbed'
  BY <1>3 DEF Open, ReadStatFails, history, Undisturbed
<1>4. ASSUME NEW r \in Reader, ReadStat(r) PROVE Undisturbed'
  <2>1. UsingGlobals = {}
    BY <1>4 DEF ReadStat, UsingGlobals
  <2>2. disturbed' = disturbed \ {r} /\ from' = [from EXCEPT ![r] = base] /\ base' = base
    BY <1>4, <2>1 DEF ReadStat
  <2>3. QED
    BY <2>2 DEF Undisturbed, TypeInv, TypeOK
<1>5. ASSUME NEW r \in Reader, NEW v \in Counter, Load(r, v) PROVE Undisturbed'
  BY <1>5 DEF Load, Undisturbed
<1>6. ASSUME NEW r \in Reader, NEW v \in Counter, Store(r, v) PROVE Undisturbed'
  <2>1. disturbed' = disturbed /\ from' = from
    BY <1>6 DEF Store
  <2>2. base' = base \/ base' = sample[r]
    BY <1>6, StoreEffect DEF Undisturbed
  <2>3. QED
    BY <1>1, <2>1, <2>2 DEF Undisturbed
<1>7. ASSUME NEW r \in Reader, Return(r) PROVE Undisturbed'
  <2>1. Zero # Torn
    BY TornAssumption, BoundsAssumption DEF Zero, Sample
  <2>2. QED
    BY <1>7, <2>1 DEF Return, Undisturbed, TypeInv, TypeOK
<1>8. QED
  BY <1>2, <1>3, <1>4, <1>5, <1>6, <1>7 DEF Next, Run, Retry, Close

\* With a single reader, what is reported is a percentage, as the comment says
\* (sysinfo_so1_201801521.c:28): nothing but the globals that readers share breaks it.
THEOREM PercentageForASingleReader ==
    ASSUME \A r, q \in Reader : r = q
    PROVE  Spec => []IsPercentage
<1>1. Init => Sound /\ Undisturbed
  <2>1. Zero # Torn
    BY TornAssumption, BoundsAssumption DEF Zero, Sample
  <2>2. QED
    BY <2>1 DEF Init, Sound, Undisturbed
<1>2. TypeInv /\ AloneInv /\ AloneInv' /\ Sound /\ Undisturbed /\ [Next]_vars
         => Sound' /\ Undisturbed'
  BY SoundStep, UndisturbedStep
<1>3. Sound /\ Undisturbed => IsPercentage
  BY DEF Sound, Undisturbed, IsPercentage
<1>4. Spec => []AloneInv
  BY AloneInvInit, AloneInvStep, TypeInvAlways, PTL DEF Spec
<1>5. QED
  BY <1>1, <1>2, <1>3, <1>4, TypeInvAlways, PTL DEF Spec

=============================================================================
