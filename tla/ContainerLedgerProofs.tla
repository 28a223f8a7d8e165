----------------------- MODULE ContainerLedgerProofs -----------------------
(***************************************************************************)
(* Theorems about ContainerLedger, for any ids, times, faults and restarts.*)
(***************************************************************************)
EXTENDS ContainerLedger, FiniteSetTheorems, TLAPS

\* What the open transaction holds, at each point of the upsert.
DraftOK ==
    /\ pc \notin {"touch", "mark"} => draft = table
    /\ pc \in {"touch", "mark"} =>
          /\ DOMAIN table \subseteq DOMAIN draft
          /\ DOMAIN draft \subseteq DOMAIN table \cup snap.current
          /\ \A c \in RemovedIds(table) : draft[c].removed = table[c].removed
          /\ \A c \in DOMAIN draft \ snap.current : draft[c].last = table[c].last
    /\ pc = "touch" =>
          /\ todo \subseteq snap.current
          /\ \A c \in snap.current \ todo : c \in DOMAIN draft /\ draft[c].last = snap.ts
    /\ pc = "mark" =>
          /\ \A c \in snap.current : c \in DOMAIN draft /\ draft[c].last = snap.ts
          /\ todo = OpenIds(draft) \ snap.current

\* A total waiting to be recorded is a fresh one.
TotalOK == pc = "host" => total \in {0, Cardinality(RemovedIds(table))}

IInv == TypeOK /\ DraftOK /\ TotalOK

\* As many rows as ids, at most: a count of rows is in range.
LEMMA RemovedCount ==
    ASSUME TypeOK
    PROVE  Cardinality(RemovedIds(table)) \in 0..Cardinality(Cid)
<1>1. RemovedIds(table) \subseteq Cid
  BY DEF RemovedIds, TypeOK
<1>2. /\ Cardinality(RemovedIds(table)) \in Nat /\ Cardinality(Cid) \in Nat
      /\ Cardinality(RemovedIds(table)) <= Cardinality(Cid)
  BY <1>1, CidAssumption, FS_Subset, FS_CardinalityType
<1>3. QED
  BY <1>2

LEMMA TypeInit == Init => TypeOK
<1>1. Cardinality(Cid) \in Nat
  BY CidAssumption, FS_CardinalityType
<1>2. NoRows \in [{} -> Row] /\ DOMAIN NoRows = {}
  BY DEF NoRows
<1>3. NoSnapshot \in [ts : Time, current : SUBSET Cid]
  BY TimeAssumption DEF NoSnapshot
<1>4. QED
  BY <1>1, <1>2, <1>3, BoundsAssumption DEF Init, TypeOK

\* The steps that build the draft leave it well typed.
LEMMA DraftType ==
    ASSUME IInv, NEW c \in Cid, Touch(c) \/ Mark(c)
    PROVE  DOMAIN draft' \subseteq Cid /\ draft' \in [DOMAIN draft' -> Row]
<1>1. /\ draft \in [DOMAIN draft -> Row] /\ DOMAIN draft \subseteq Cid
      /\ snap.ts \in Time
  BY DEF IInv, TypeOK
<1>2. CASE Touch(c)
  <2>1. \A d \in DOMAIN draft : draft[d] \in Row
    BY <1>1
  <2>2. ASSUME NEW d \in DOMAIN draft \cup {c}
        PROVE  (IF d # c THEN draft[d]
                ELSE [last |-> snap.ts, removed |-> IF c \in DOMAIN draft THEN draft[c].removed
                                                                          ELSE Never]) \in Row
    <3>1. CASE d # c
      BY <2>1, <3>1
    <3>2. CASE d = c /\ c \in DOMAIN draft
      <4>1. draft[c].removed \in Time \cup {Never}
        BY <2>1, <3>2 DEF Row
      <4>2. QED
        BY <1>1, <3>2, <4>1 DEF Row
    <3>3. CASE d = c /\ c \notin DOMAIN draft
      BY <1>1, <3>3 DEF Row
    <3>4. QED
      BY <3>1, <3>2, <3>3
  <2>3. Touched(c) \in [DOMAIN draft \cup {c} -> Row]
    BY <2>2 DEF Touched
  <2>4. DOMAIN Touched(c) = DOMAIN draft \cup {c}
    BY DEF Touched
  <2>5. QED
    BY <1>1, <1>2, <2>3, <2>4 DEF Touch
<1>3. CASE Mark(c)
  <2>1. c \in DOMAIN draft /\ draft[c].removed = Never
    BY <1>3 DEF IInv, DraftOK, Mark, OpenIds, RemovedIds
  <2>2. [draft[c] EXCEPT !.removed = snap.ts] \in Row
    BY <1>1, <2>1 DEF Row
  <2>3. draft' = [draft EXCEPT ![c].removed = snap.ts]
    BY <1>3, <2>1 DEF Mark
  <2>4. draft' \in [DOMAIN draft -> Row] /\ DOMAIN draft' = DOMAIN draft
    BY <1>1, <2>1, <2>2, <2>3
  <2>5. QED
    BY <1>1, <2>4
<1>4. QED
  BY <1>2, <1>3

LEMMA TypeStep == IInv /\ [Next]_vars => TypeOK'
<1> SUFFICES ASSUME IInv, [Next]_vars PROVE TypeOK'
  OBVIOUS
<1>1. TypeOK
  BY DEF IInv
<1>2. Cardinality(Cid) \in Nat
  BY CidAssumption, FS_CardinalityType
<1> USE BoundsAssumption DEF TypeOK, db
<1>3. ASSUME NEW c \in Cid, Appear(c) \/ Vanish(c) PROVE TypeOK'
  BY <1>1, <1>3 DEF Appear, Vanish
<1>4. CASE Restart
  <2>1. NoSnapshot \in [ts : Time, current : SUBSET Cid]
    BY TimeAssumption DEF NoSnapshot
  <2>2. QED
    BY <1>1, <1>2, <1>4, <2>1 DEF Restart
<1>5. ASSUME NEW t \in Time, ReadSnapshot(t) PROVE TypeOK'
  BY <1>1, <1>5 DEF ReadSnapshot
<1>6. CASE ReadFails
  BY <1>1, <1>6 DEF ReadFails
<1>7. CASE Begin
  BY <1>1, <1>7 DEF Begin
<1>8. ASSUME NEW c \in Cid, Touch(c) PROVE TypeOK'
  BY <1>1, <1>8, DraftType DEF Touch
<1>9. ASSUME NEW c \in Cid, Mark(c) PROVE TypeOK'
  BY <1>1, <1>9, DraftType DEF Mark
<1>10. CASE SelectOpen
  BY <1>1, <1>10 DEF SelectOpen, OpenIds
<1>11. CASE Commit
  BY <1>1, <1>11 DEF Commit
<1>12. CASE UpsertFails
  BY <1>1, <1>12 DEF UpsertFails
<1>13. CASE Count
  BY <1>1, <1>13, RemovedCount DEF Count
<1>14. CASE CountFails
  BY <1>1, <1>2, <1>14 DEF CountFails
<1>15. CASE InsertHost
  BY <1>1, <1>15 DEF InsertHost
<1>16. CASE InsertHostFails
  BY <1>1, <1>16 DEF InsertHostFails
<1>17. CASE UNCHANGED vars
  BY <1>1, <1>17 DEF vars
<1>18. QED
  BY <1>3, <1>4, <1>5, <1>6, <1>7, <1>8, <1>9, <1>10, <1>11, <1>12, <1>13, <1>14, <1>15,
     <1>16, <1>17
  DEF Next, Turn, Upsert

-----------------------------------------------------------------------------
(* The draft.                                                              *)

\* A touched row: stamped, and as open or closed as it was.
LEMMA TouchStep ==
    ASSUME IInv, NEW c \in Cid, Touch(c)
    PROVE  DraftOK'
<1>1. /\ pc = "touch" /\ pc' = "touch" /\ c \in todo /\ todo' = todo \ {c}
      /\ table' = table /\ snap' = snap /\ draft' = Touched(c)
  BY DEF Touch, db
<1>2. /\ DOMAIN table \subseteq DOMAIN draft
      /\ DOMAIN draft \subseteq DOMAIN table \cup snap.current
      /\ \A d \in RemovedIds(table) : draft[d].removed = table[d].removed
      /\ \A d \in DOMAIN draft \ snap.current : draft[d].last = table[d].last
      /\ \A d \in snap.current \ todo : d \in DOMAIN draft /\ draft[d].last = snap.ts
      /\ RemovedIds(table) \subseteq DOMAIN table
  BY <1>1 DEF IInv, DraftOK, RemovedIds
<1>3. c \in snap.current
  BY <1>1 DEF IInv, DraftOK
<1>4. /\ DOMAIN draft' = DOMAIN draft \cup {c}
      /\ \A d \in DOMAIN draft \ {c} : draft'[d] = draft[d]
      /\ draft'[c].last = snap.ts
      /\ c \in DOMAIN draft => draft'[c].removed = draft[c].removed
  BY <1>1 DEF Touched
<1>5. /\ DOMAIN table \subseteq DOMAIN draft'
      /\ DOMAIN draft' \subseteq DOMAIN table \cup snap.current
  BY <1>2, <1>3, <1>4
<1>6. ASSUME NEW d \in RemovedIds(table) PROVE draft'[d].removed = table[d].removed
  <2>1. d \in DOMAIN draft /\ draft[d].removed = table[d].removed
    BY <1>2
  <2>2. CASE d = c
    BY <1>4, <2>1, <2>2
  <2>3. CASE d # c
    BY <1>4, <2>1, <2>3
  <2>4. QED
    BY <2>2, <2>3
<1>7. ASSUME NEW d \in DOMAIN draft' \ snap.current PROVE draft'[d].last = table[d].last
  BY <1>2, <1>3, <1>4
<1>8. /\ todo' \subseteq snap.current
      /\ \A d \in snap.current \ todo' : d \in DOMAIN draft' /\ draft'[d].last = snap.ts
  <2>1. todo \subseteq snap.current
    BY <1>1 DEF IInv, DraftOK
  <2>2. ASSUME NEW d \in snap.current \ todo'
        PROVE  d \in DOMAIN draft' /\ draft'[d].last = snap.ts
    <3>1. CASE d = c
      BY <1>4, <3>1
    <3>2. CASE d # c
      BY <1>1, <1>2, <1>4, <3>2
    <3>3. QED
      BY <3>1, <3>2
  <2>3. QED
    BY <1>1, <2>1, <2>2
<1>9. RemovedIds(table)' = RemovedIds(table)
  BY <1>1 DEF RemovedIds
<1>10. QED
  BY <1>1, <1>5, <1>6, <1>7, <1>8, <1>9 DEF DraftOK

\* A marked row was open and not of the snapshot.
LEMMA MarkStep ==
    ASSUME IInv, NEW c \in Cid, Mark(c)
    PROVE  DraftOK'
<1>1. pc = "mark" /\ pc' = "mark" /\ c \in todo /\ todo' = todo \ {c}
  BY DEF Mark
<1>2. /\ DOMAIN table \subseteq DOMAIN draft
      /\ DOMAIN draft \subseteq DOMAIN table \cup snap.current
      /\ \A d \in RemovedIds(table) : draft[d].removed = table[d].removed
      /\ \A d \in DOMAIN draft \ snap.current : draft[d].last = table[d].last
      /\ \A d \in snap.current : d \in DOMAIN draft /\ draft[d].last = snap.ts
      /\ todo = OpenIds(draft) \ snap.current
      /\ draft \in [DOMAIN draft -> Row] /\ snap.ts \in Time
  BY <1>1 DEF IInv, DraftOK, TypeOK
<1>3. c \in DOMAIN draft /\ draft[c].removed = Never /\ c \notin snap.current
  BY <1>1, <1>2 DEF OpenIds, RemovedIds
<1>4. table' = table /\ snap' = snap /\ draft' = [draft EXCEPT ![c].removed = snap.ts]
  BY <1>3 DEF Mark, db
<1>5. /\ DOMAIN draft' = DOMAIN draft
      /\ \A d \in DOMAIN draft \ {c} : draft'[d] = draft[d]
  BY <1>4
<1>6. draft'[c].removed = snap.ts /\ draft'[c].last = draft[c].last
  BY <1>4, <1>2, <1>3 DEF Row
<1>7. c \notin RemovedIds(table) /\ RemovedIds(table) \subseteq DOMAIN table
  BY <1>2, <1>3 DEF RemovedIds
<1>8. OpenIds(draft') = OpenIds(draft) \ {c}
  <2>1. snap.ts # Never
    BY <1>2, NeverAssumption
  <2>2. QED
    BY <1>3, <1>5, <1>6, <2>1 DEF OpenIds, RemovedIds
<1>9. \A d \in RemovedIds(table) : draft'[d].removed = table[d].removed
  BY <1>2, <1>5, <1>7
<1>10. \A d \in DOMAIN draft' : draft'[d].last = draft[d].last
  BY <1>5, <1>6
<1>11. todo' = OpenIds(draft') \ snap.current
  BY <1>1, <1>4, <1>2, <1>8
<1>12. OpenIds(draft)' = OpenIds(draft')
  BY DEF OpenIds, RemovedIds
<1>13. RemovedIds(table)' = RemovedIds(table)
  BY <1>4 DEF RemovedIds
<1>14. /\ pc' = "mark"
       /\ DOMAIN table' \subseteq DOMAIN draft'
       /\ DOMAIN draft' \subseteq DOMAIN table' \cup snap'.current
  BY <1>1, <1>2, <1>4, <1>5
<1>15. /\ \A d \in RemovedIds(table)' : draft'[d].removed = table'[d].removed
       /\ \A d \in DOMAIN draft' \ snap'.current : draft'[d].last = table'[d].last
  BY <1>2, <1>4, <1>5, <1>9, <1>10, <1>13
<1>16. /\ \A d \in snap'.current : d \in DOMAIN draft' /\ draft'[d].last = snap'.ts
       /\ todo' = OpenIds(draft)' \ snap'.current
  BY <1>2, <1>4, <1>5, <1>10, <1>11, <1>12
<1>17. QED
  BY <1>14, <1>15, <1>16 DEF DraftOK

LEMMA DraftStep == IInv /\ [Next]_vars => DraftOK'
<1> SUFFICES ASSUME IInv, [Next]_vars PROVE DraftOK'
  OBVIOUS
<1>1. DraftOK
  BY DEF IInv
<1> USE DEF DraftOK, db
<1>2. ASSUME NEW c \in Cid, Appear(c) \/ Vanish(c) PROVE DraftOK'
  BY <1>1, <1>2 DEF Appear, Vanish, OpenIds, RemovedIds
<1>3. CASE Restart
  BY <1>3 DEF Restart
<1>4. ASSUME NEW t \in Time, ReadSnapshot(t) PROVE DraftOK'
  BY <1>1, <1>4 DEF ReadSnapshot
<1>5. CASE ReadFails
  BY <1>1, <1>5 DEF ReadFails
<1>6. CASE Begin
  BY <1>6 DEF Begin, RemovedIds
<1>7. ASSUME NEW c \in Cid, Touch(c) PROVE DraftOK'
  BY <1>7, TouchStep
<1>8. ASSUME NEW c \in Cid, Mark(c) PROVE DraftOK'
  BY <1>8, MarkStep
<1>9. CASE SelectOpen
  BY <1>1, <1>9 DEF SelectOpen, OpenIds, RemovedIds
<1>10. CASE Commit
  BY <1>10 DEF Commit
<1>11. CASE UpsertFails
  BY <1>11 DEF UpsertFails
<1>12. CASE Count
  BY <1>1, <1>12 DEF Count
<1>13. CASE CountFails
  BY <1>1, <1>13 DEF CountFails
<1>14. CASE InsertHost
  BY <1>1, <1>14 DEF InsertHost
<1>15. CASE InsertHostFails
  BY <1>1, <1>15 DEF InsertHostFails
<1>16. CASE UNCHANGED vars
  BY <1>1, <1>16 DEF vars, OpenIds, RemovedIds
<1>17. QED
  BY <1>2, <1>3, <1>4, <1>5, <1>6, <1>7, <1>8, <1>9, <1>10, <1>11, <1>12, <1>13, <1>14,
     <1>15, <1>16
  DEF Next, Turn, Upsert

-----------------------------------------------------------------------------
(* The inductive invariant.                                                *)

LEMMA IInvInit == Init => IInv
<1> SUFFICES ASSUME Init PROVE IInv
  OBVIOUS
<1>1. pc = "read" /\ draft = table
  BY DEF Init
<1>2. DraftOK /\ TotalOK
  BY <1>1 DEF DraftOK, TotalOK
<1>3. QED
  BY <1>2, TypeInit DEF IInv

\* Only a count sets the total that is waiting; nothing changes the table meanwhile.
LEMMA TotalStep == IInv /\ [Next]_vars => TotalOK'
<1> SUFFICES ASSUME IInv, [Next]_vars, pc' = "host"
             PROVE  total' \in {0, Cardinality(RemovedIds(table))'}
  BY DEF TotalOK
<1>1. CASE Count
  <2>1. RemovedIds(table)' = RemovedIds(table)
    BY <1>1 DEF Count, db, RemovedIds
  <2>2. Cardinality(RemovedIds(table))' = Cardinality(RemovedIds(table))
    BY <2>1
  <2>3. QED
    BY <1>1, <2>2 DEF Count
<1>2. CASE CountFails
  BY <1>2 DEF CountFails
<1>3. CASE ~ Count /\ ~ CountFails
  <2>1. pc = "host" /\ total' = total /\ table' = table
    BY <1>3 DEF Next, Turn, Upsert, Restart, Appear, Vanish, ReadSnapshot, ReadFails, Begin,
       Touch, Mark, SelectOpen, Commit, UpsertFails, InsertHost, InsertHostFails, vars, db,
       IInv, TypeOK
  <2>2. RemovedIds(table)' = RemovedIds(table)
    BY <2>1 DEF RemovedIds
  <2>3. Cardinality(RemovedIds(table))' = Cardinality(RemovedIds(table))
    BY <2>2
  <2>4. QED
    BY <2>1, <2>3 DEF IInv, TotalOK
<1>4. QED
  BY <1>1, <1>2, <1>3

LEMMA IInvStep == IInv /\ [Next]_vars => IInv'
BY TypeStep, DraftStep, TotalStep DEF IInv

LEMMA IInvAlways == Spec => []IInv
BY IInvInit, IInvStep, PTL DEF Spec

\* The types of the ledger, for any ids and times (insert_cont.go:78-121).
THEOREM TypeCorrect == Spec => []TypeOK
<1>1. IInv => TypeOK
  BY DEF IInv
<1>2. QED
  BY <1>1, IInvAlways, PTL

-----------------------------------------------------------------------------
(* What a step may never do.                                               *)

\* The table changes in a commit alone.
LEMMA OnlyCommitWrites == [Next]_vars /\ ~ Commit => table' = table
BY DEF Next, Turn, Upsert, Restart, Appear, Vanish, ReadSnapshot, ReadFails, Begin, Touch, Mark,
   SelectOpen, UpsertFails, Count, CountFails, InsertHost, InsertHostFails, vars, db

\* A removal once recorded stays as it was recorded (insert_cont.go:181-207).
THEOREM RemovalsAreFinal == Spec => RemovalIsFinal
<1> DEFINE Final == \A c \in RemovedIds(table) :
                       c \in DOMAIN table' /\ table'[c].removed = table[c].removed
<1>1. IInv /\ [Next]_vars => [Final]_vars
  <2> SUFFICES ASSUME IInv, [Next]_vars PROVE Final
    OBVIOUS
  <2>1. CASE Commit
    BY <2>1 DEF IInv, DraftOK, Commit, RemovedIds
  <2>2. CASE ~ Commit
    BY <2>2, OnlyCommitWrites DEF RemovedIds
  <2>3. QED
    BY <2>1, <2>2
<1>2. QED
  BY <1>1, IInvAlways, PTL DEF Spec, RemovalIsFinal

\* A change of the table is one whole upsert of one snapshot (insert_cont.go:141-217).
THEOREM UpsertsAreWhole == Spec => UpsertIsWhole
<1> DEFINE Whole ==
      table' # table =>
          /\ \A c \in snap.current : c \in DOMAIN table' /\ table'[c].last = snap.ts
          /\ OpenIds(table') \subseteq snap.current
          /\ \A c \in DOMAIN table' \ snap.current :
                c \in DOMAIN table /\ table'[c].last = table[c].last
<1>1. IInv /\ [Next]_vars => [Whole]_vars
  <2> SUFFICES ASSUME IInv, [Next]_vars, table' # table PROVE Whole
    OBVIOUS
  <2>1. Commit
    BY OnlyCommitWrites
  <2>2. OpenIds(table') \subseteq snap.current
    BY <2>1 DEF IInv, DraftOK, Commit, OpenIds
  <2>3. QED
    BY <2>1, <2>2 DEF IInv, DraftOK, Commit
<1>2. QED
  BY <1>1, IInvAlways, PTL DEF Spec, UpsertIsWhole

\* Every total that is recorded, whatever the one before it, is of the table it is
\* recorded beside, or 0 (main.go:220-229).
THEOREM TotalsAreCurrent == Spec => TotalIsCurrent
<1>1. IInv /\ InsertHost => host' \in {0, Cardinality(RemovedIds(table))}
  BY DEF IInv, TotalOK, InsertHost
<1>2. QED
  BY <1>1, IInvAlways, PTL DEF Spec, TotalIsCurrent

-----------------------------------------------------------------------------
(* The atomic ledger.                                                      *)

Present(c) == Ledger!Present(c)
Absent(c) == Ledger!Absent(c)

\* What the draft is to become row by row, at each point of the upsert.
RowsOK ==
    /\ pc \in {"begin", "touch", "mark"} => snap.current # {}
    /\ pc = "touch" =>
          /\ DOMAIN draft = DOMAIN table \cup (snap.current \ todo)
          /\ \A c \in snap.current \ todo : draft[c] = Present(c)
          /\ \A c \in DOMAIN table \ (snap.current \ todo) : draft[c] = table[c]
    /\ pc = "mark" =>
          /\ DOMAIN draft = DOMAIN table \cup snap.current
          /\ \A c \in snap.current : draft[c] = Present(c)
          /\ \A c \in DOMAIN table \ snap.current :
                draft[c] = IF c \in todo THEN table[c] ELSE Absent(c)

\* The rows to come depend on the snapshot and the table alone.
LEMMA SameRowsToCome ==
    ASSUME UNCHANGED <<snap, table>>, NEW c
    PROVE  Present(c)' = Present(c) /\ Absent(c)' = Absent(c)
BY DEF Present, Absent, Ledger!Present, Ledger!Absent

LEMMA RowsTouch ==
    ASSUME IInv, RowsOK, NEW c \in Cid, Touch(c)
    PROVE  RowsOK'
<1>1. /\ pc = "touch" /\ pc' = "touch" /\ c \in todo /\ todo' = todo \ {c}
      /\ table' = table /\ snap' = snap /\ draft' = Touched(c)
      /\ todo \subseteq snap.current
  BY DEF Touch, db, IInv, DraftOK
<1>2. /\ DOMAIN draft = DOMAIN table \cup (snap.current \ todo)
      /\ \A d \in snap.current \ todo : draft[d] = Present(d)
      /\ \A d \in DOMAIN table \ (snap.current \ todo) : draft[d] = table[d]
  BY <1>1 DEF RowsOK
<1>3. /\ DOMAIN draft' = DOMAIN draft \cup {c}
      /\ \A d \in DOMAIN draft \ {c} : draft'[d] = draft[d]
      /\ draft'[c] = [last |-> snap.ts,
                      removed |-> IF c \in DOMAIN draft THEN draft[c].removed ELSE Never]
  BY <1>1 DEF Touched
<1>4. draft'[c] = Present(c)
  <2>1. c \in DOMAIN draft <=> c \in DOMAIN table
    BY <1>1, <1>2
  <2>2. c \in DOMAIN table => draft[c] = table[c]
    BY <1>1, <1>2
  <2>3. QED
    BY <1>3, <2>1, <2>2 DEF Present, Ledger!Present
<1>5. \A d : Present(d)' = Present(d)
  BY <1>1, SameRowsToCome
<1>6. DOMAIN draft' = DOMAIN table \cup (snap.current \ todo')
  BY <1>1, <1>2, <1>3
<1>7. \A d \in snap.current \ todo' : draft'[d] = Present(d)
  BY <1>1, <1>2, <1>3, <1>4
<1>8. \A d \in DOMAIN table \ (snap.current \ todo') : draft'[d] = table[d]
  BY <1>1, <1>2, <1>3
<1>9. snap.current # {}
  BY <1>1 DEF RowsOK
<1>10. QED
  BY <1>1, <1>5, <1>6, <1>7, <1>8, <1>9 DEF RowsOK

LEMMA RowsSelect ==
    ASSUME IInv, RowsOK, SelectOpen
    PROVE  RowsOK'
<1>1. /\ pc = "touch" /\ pc' = "mark" /\ todo = {} /\ todo' = OpenIds(draft) \ snap.current
      /\ UNCHANGED <<table, snap, draft>>
  BY DEF SelectOpen, db
<1>2. /\ DOMAIN draft = DOMAIN table \cup snap.current
      /\ \A c \in snap.current : draft[c] = Present(c)
      /\ \A c \in DOMAIN table \ snap.current : draft[c] = table[c]
      /\ snap.current # {}
  BY <1>1 DEF RowsOK
<1>3. ASSUME NEW c \in DOMAIN table \ snap.current, c \notin todo'
      PROVE  table[c] = Absent(c)
  <2>1. table[c].removed # Never
    BY <1>1, <1>2, <1>3 DEF OpenIds, RemovedIds
  <2>2. table[c] \in Row
    BY DEF IInv, TypeOK
  <2>3. QED
    BY <2>1, <2>2 DEF Absent, Ledger!Absent, Row
<1>4. \A c : Present(c)' = Present(c) /\ Absent(c)' = Absent(c)
  BY <1>1, SameRowsToCome
<1>5. QED
  BY <1>1, <1>2, <1>3, <1>4 DEF RowsOK

LEMMA RowsMark ==
    ASSUME IInv, RowsOK, NEW c \in Cid, Mark(c)
    PROVE  RowsOK'
<1>1. /\ pc = "mark" /\ pc' = "mark" /\ c \in todo /\ todo' = todo \ {c}
      /\ table' = table /\ snap' = snap /\ draft' = [draft EXCEPT ![c].removed = snap.ts]
      /\ todo = OpenIds(draft) \ snap.current
  BY DEF Mark, db, IInv, DraftOK, OpenIds, RemovedIds
<1>2. /\ DOMAIN draft = DOMAIN table \cup snap.current
      /\ \A d \in snap.current : draft[d] = Present(d)
      /\ \A d \in DOMAIN table \ snap.current :
            draft[d] = IF d \in todo THEN table[d] ELSE Absent(d)
      /\ snap.current # {}
  BY <1>1 DEF RowsOK
<1>3. /\ c \in DOMAIN table \ snap.current /\ draft[c] = table[c]
      /\ table[c].removed = Never
  BY <1>1, <1>2 DEF OpenIds, RemovedIds
<1>4. /\ DOMAIN draft' = DOMAIN draft
      /\ \A d \in DOMAIN draft \ {c} : draft'[d] = draft[d]
      /\ draft'[c] = [table[c] EXCEPT !.removed = snap.ts]
  BY <1>1, <1>2, <1>3
<1>5. draft'[c] = Absent(c)
  BY <1>3, <1>4 DEF Absent, Ledger!Absent
<1>6. \A d : Present(d)' = Present(d) /\ Absent(d)' = Absent(d)
  BY <1>1, SameRowsToCome
<1>7. \A d \in snap.current : draft'[d] = Present(d)
  BY <1>2, <1>3, <1>4
<1>8. \A d \in DOMAIN table \ snap.current :
         draft'[d] = IF d \in todo' THEN table[d] ELSE Absent(d)
  BY <1>1, <1>2, <1>4, <1>5
<1>9. QED
  BY <1>1, <1>2, <1>4, <1>6, <1>7, <1>8 DEF RowsOK

LEMMA RowsStep == IInv /\ RowsOK /\ [Next]_vars => RowsOK'
<1> SUFFICES ASSUME IInv, RowsOK, [Next]_vars PROVE RowsOK'
  OBVIOUS
<1> USE DEF db
<1>1. ASSUME UNCHANGED <<table, draft, pc, snap, todo>> PROVE RowsOK'
  <2>1. \A c : Present(c)' = Present(c) /\ Absent(c)' = Absent(c)
    BY <1>1, SameRowsToCome
  <2>2. QED
    BY <1>1, <2>1 DEF RowsOK
<1>2. ASSUME NEW c \in Cid, Appear(c) \/ Vanish(c) PROVE RowsOK'
  BY <1>1, <1>2 DEF Appear, Vanish
<1>3. ASSUME pc' \notin {"begin", "touch", "mark"} PROVE RowsOK'
  BY <1>3 DEF RowsOK
<1>4. ASSUME NEW t \in Time, ReadSnapshot(t) PROVE RowsOK'
  BY <1>4 DEF ReadSnapshot, RowsOK
<1>5. CASE Begin
  <2>1. /\ pc = "begin" /\ pc' = "touch" /\ draft' = table /\ todo' = snap.current
        /\ UNCHANGED <<table, snap>>
    BY <1>5 DEF Begin
  <2>2. snap.current # {}
    BY <2>1 DEF RowsOK
  <2>3. QED
    BY <2>1, <2>2 DEF RowsOK
<1>6. CASE Restart \/ Commit \/ UpsertFails \/ Count \/ CountFails \/ InsertHost \/ InsertHostFails
  BY <1>3, <1>6 DEF Restart, Commit, UpsertFails, Count, CountFails, InsertHost, InsertHostFails
<1>7. CASE ReadFails \/ UNCHANGED vars
  BY <1>1, <1>7 DEF ReadFails, vars
<1>8. QED
  BY <1>2, <1>4, <1>5, <1>6, <1>7, RowsTouch, RowsSelect, RowsMark DEF Next, Turn, Upsert

\* A commit enters the whole snapshot.
LEMMA CommitEnters == IInv /\ RowsOK /\ Commit => Ledger!Enter
<1> SUFFICES ASSUME IInv, RowsOK, Commit PROVE Ledger!Enter
  OBVIOUS
<1>1. pc = "mark" /\ todo = {} /\ table' = draft /\ UNCHANGED <<snap, host>>
  BY DEF Commit
<1>2. /\ DOMAIN draft = DOMAIN table \cup snap.current
      /\ \A c \in snap.current : draft[c] = Present(c)
      /\ \A c \in DOMAIN table \ snap.current : draft[c] = Absent(c)
      /\ snap.current # {}
  BY <1>1 DEF RowsOK
<1>3. draft = [c \in DOMAIN draft |-> draft[c]]
  BY DEF IInv, TypeOK
<1>4. draft = [c \in DOMAIN table \cup snap.current |->
                  IF c \in snap.current THEN Present(c) ELSE Absent(c)]
  BY <1>2, <1>3
<1>5. QED
  BY <1>1, <1>2, <1>4 DEF Ledger!Enter, Present, Absent

\* The transaction of many statements implements the atomic ledger: every snapshot enters
\* the table whole or not at all, with exactly the rows that the code means it to have,
\* and every total is of the table beside it (src/Daemon/insert_cont.go:123-220,
\* src/Daemon/main.go:208-229).
THEOREM ImplementsAtomicLedger == Spec => IsAtomicLedger
<1>1. Init => Ledger!Init
  BY TimeAssumption DEF Init, Ledger!Init, Ledger!Snapshot, NoSnapshot, NoRows
<1>2. Init => RowsOK
  BY DEF Init, RowsOK
<1>3. IInv /\ RowsOK /\ [Next]_vars => [Ledger!Next]_Ledger!vars
  <2> SUFFICES ASSUME IInv, RowsOK, [Next]_vars PROVE [Ledger!Next]_Ledger!vars
    OBVIOUS
  <2> USE DEF db
  <2>1. CASE Commit
    BY <2>1, CommitEnters DEF Ledger!Next
  <2>2. CASE InsertHost
    <3>1. Ledger!Removed = RemovedIds(table)
      BY DEF Ledger!Removed, RemovedIds
    <3>2. \A S : Ledger!Cardinality(S) = Cardinality(S)
      BY DEF Ledger!Cardinality, Cardinality
    <3>3. host' \in {0, Cardinality(RemovedIds(table))} /\ UNCHANGED <<table, snap>>
      BY <2>2 DEF InsertHost, IInv, TotalOK
    <3>4. QED
      BY <3>1, <3>2, <3>3 DEF Ledger!Next, Ledger!Record
  <2>3. ASSUME NEW t \in Time, ReadSnapshot(t) PROVE Ledger!Next
    <3>1. snap' \in Ledger!Snapshot
      BY <2>3 DEF ReadSnapshot, Ledger!Snapshot, IInv, TypeOK
    <3>2. QED
      BY <2>3, <3>1 DEF ReadSnapshot, Ledger!Next, Ledger!See
  <2>4. CASE Restart
    <3>1. snap' \in Ledger!Snapshot
      BY <2>4, TimeAssumption DEF Restart, NoSnapshot, Ledger!Snapshot
    <3>2. QED
      BY <2>4, <3>1 DEF Restart, Ledger!Next, Ledger!See
  <2>5. CASE UNCHANGED <<snap, table, host>>
    BY <2>5 DEF Ledger!vars
  <2>6. CASE \/ \E c \in Cid : Appear(c) \/ Vanish(c) \/ Touch(c) \/ Mark(c)
             \/ ReadFails \/ Begin \/ SelectOpen \/ UpsertFails \/ Count \/ CountFails
             \/ InsertHostFails \/ UNCHANGED vars
    BY <2>5, <2>6 DEF Appear, Vanish, Touch, Mark, ReadFails, Begin, SelectOpen, UpsertFails,
                      Count, CountFails, InsertHostFails, vars
  <2>7. QED
    BY <2>1, <2>2, <2>3, <2>4, <2>6 DEF Next, Turn, Upsert
<1>4. QED
  BY <1>1, <1>2, <1>3, RowsStep, IInvAlways, PTL DEF Spec, IsAtomicLedger, Ledger!Spec

=============================================================================
