---------------------------- MODULE BeaconProofs ----------------------------
(***************************************************************************)
(* Proofs about Beacon for every value of its constants: type correctness, *)
(* the transmit budget, the single late airing of a cancelled unit, the    *)
(* idempotence of a redelivered event, that drop-oldest drops the oldest,  *)
(* and that the manual messages are handled as Delivery says.              *)
(***************************************************************************)
EXTENDS Beacon, FiniteSetTheorems, TLAPS

-----------------------------------------------------------------------------
(* The table operators.                                                     *)

\* Deleting rows leaves a table whose other rows are what they were.
LEMMA WithoutRows ==
    ASSUME NEW t, Table(t), NEW S
    PROVE  /\ Table(Without(t, S))
           /\ DOMAIN Without(t, S) = DOMAIN t \ S
           /\ \A u \in DOMAIN t \ S : Without(t, S)[u] = t[u]
BY DEF Table, Without, Restrict

\* The same of a variable that a step sets to what is left.
LEMMA KeptRows ==
    ASSUME NEW t, Table(t), NEW S, NEW left, left = Without(t, S)
    PROVE  \A u \in DOMAIN left : u \in DOMAIN t \ S /\ left[u] = t[u]
BY DEF Without, Restrict

\* A SELECT of some rows is a table of the same rows.
LEMMA SelectRows ==
    ASSUME NEW t, Table(t), NEW k
    PROVE  /\ Table(Restrict(t, OfKind(t, k)))
           /\ DOMAIN Restrict(t, OfKind(t, k)) = OfKind(t, k)
           /\ OfKind(t, k) \subseteq DOMAIN t
           /\ \A u \in OfKind(t, k) : Restrict(t, OfKind(t, k))[u] = t[u]
BY DEF Table, OfKind, Restrict

\* A new row comes after every row of the table.
LEMMA NextRowidType ==
    ASSUME NEW t, HasRoom(t)
    PROVE  NextRowid(t) \in Nat
<1>1. MaxRowid \in 1 .. MaxRowid
    BY MaxRowidAssumption
<1>2. \E n \in 1 .. MaxRowid : \A u \in DOMAIN t : t[u].rowid < n
    BY <1>1 DEF HasRoom
<1>3. NextRowid(t) \in 1 .. MaxRowid
    BY <1>2 DEF NextRowid
<1> QED
    BY <1>3, MaxRowidAssumption

\* An insert-or-reset yields a row with no progress and keeps every other row.
LEMMA UpsertRows ==
    ASSUME NEW t, Table(t), HasRoom(t), NEW u \in Unit, NEW gen \in Nat, NEW due \in BOOLEAN
    PROVE  /\ Table(Upsert(t, u, gen, due))
           /\ DOMAIN Upsert(t, u, gen, due) = DOMAIN t \cup {u}
           /\ Upsert(t, u, gen, due)[u].sent = 0
           /\ \A v \in DOMAIN t \ {u} : Upsert(t, u, gen, due)[v] = t[v]
<1> DEFINE new == [sent |-> 0, due |-> due, stale |-> FALSE, gen |-> gen,
                   rowid |-> IF u \in DOMAIN t THEN t[u].rowid ELSE NextRowid(t)]
<1>1. NextRowid(t) \in Nat
    BY NextRowidType
<1>2. u \in DOMAIN t => t[u].rowid \in Nat
    BY DEF Table, Row
<1>3. new \in Row /\ new.sent = 0
    BY <1>1, <1>2 DEF Row
<1>4. Upsert(t, u, gen, due) = [v \in DOMAIN t \cup {u} |-> IF v # u THEN t[v] ELSE new]
    BY DEF Upsert
<1> HIDE DEF new
<1> QED
    BY <1>3, <1>4 DEF Table

\* So does an insert followed by the trim, but for the rows the trim drops.
LEMMA AddUnitRows ==
    ASSUME NEW t, Table(t), HasRoom(t), NEW u \in Unit, NEW gen \in Nat, NEW due \in BOOLEAN,
           NEW max
    PROVE  /\ Table(AddUnit(t, u, gen, due, max))
           /\ DOMAIN AddUnit(t, u, gen, due, max) \subseteq DOMAIN t \cup {u}
           /\ u \in DOMAIN AddUnit(t, u, gen, due, max)
                => AddUnit(t, u, gen, due, max)[u].sent = 0
           /\ \A v \in DOMAIN AddUnit(t, u, gen, due, max) \ {u} :
                AddUnit(t, u, gen, due, max)[v] = t[v]
<1> DEFINE added == Upsert(t, u, gen, due)
<1>1. /\ Table(added) /\ DOMAIN added = DOMAIN t \cup {u}
      /\ added[u].sent = 0 /\ \A v \in DOMAIN t \ {u} : added[v] = t[v]
    BY UpsertRows, ZenonT(40)
<1>2. AddUnit(t, u, gen, due, max) = IF max > 0 THEN Trim(added, u.kind, max) ELSE added
    BY DEF AddUnit
<1> HIDE DEF added
<1>3. /\ Table(Trim(added, u.kind, max))
      /\ DOMAIN Trim(added, u.kind, max) \subseteq DOMAIN added
      /\ \A v \in DOMAIN Trim(added, u.kind, max) : Trim(added, u.kind, max)[v] = added[v]
    BY <1>1 DEF Table, Trim, Restrict
<1> QED
    BY <1>1, <1>2, <1>3

\* Recording an airing adds no row, and counts it in the row that stays.
LEMMA RecordSentRows ==
    ASSUME NEW t, Table(t), NEW u \in Unit, NEW retire \in BOOLEAN
    PROVE  /\ Table(RecordSent(t, u, retire))
           /\ DOMAIN RecordSent(t, u, retire) \subseteq DOMAIN t
           /\ u \in DOMAIN RecordSent(t, u, retire)
                => RecordSent(t, u, retire)[u].sent = t[u].sent + 1
           /\ \A v \in DOMAIN RecordSent(t, u, retire) \ {u} :
                RecordSent(t, u, retire)[v] = t[v]
<1>1. CASE retire
    <2>1. RecordSent(t, u, retire) = Without(t, {u})
        BY <1>1 DEF RecordSent
    <2>2. /\ Table(Without(t, {u}))
          /\ DOMAIN Without(t, {u}) = DOMAIN t \ {u}
          /\ \A v \in DOMAIN t \ {u} : Without(t, {u})[v] = t[v]
        BY WithoutRows
    <2> QED
        BY <2>1, <2>2
<1>2. CASE ~retire /\ u \in DOMAIN t
    <2>1. t[u] \in Row
        BY <1>2 DEF Table
    <2>2. Attempted(t[u]) \in Row /\ Attempted(t[u]).sent = t[u].sent + 1
        BY <2>1 DEF Row, Attempted, Counted
    <2>3. RecordSent(t, u, retire) = [t EXCEPT ![u] = Attempted(t[u])]
        BY <1>2 DEF RecordSent
    <2> QED
        BY <1>2, <2>2, <2>3 DEF Table
<1>3. CASE ~retire /\ u \notin DOMAIN t
    <2>1. RecordSent(t, u, retire) = t
        BY <1>3 DEF RecordSent
    <2> QED
        BY <1>3, <2>1
<1> QED
    BY <1>1, <1>2, <1>3

\* The units a job is planned for are units.
LEMMA UnitsOfType ==
    ASSUME NEW i \in Items, NEW k \in Kinds, NEW cs \in SUBSET Chunks
    PROVE  UnitsOf(i, k, cs) \subseteq Unit
BY DEF UnitsOf, Unit, Kinds
-----------------------------------------------------------------------------
(* Type correctness.                                                        *)

\* What a handler plans is a job.
LEMMA PlanType ==
    ASSUME TypeOK, NEW i \in Items, NEW eid \in Nat, NEW k \in Kinds, NEW max \in Nat,
           NEW older \in SUBSET Unit
    PROVE  Plan(i, eid, k, max, older) \in Job
<1>1. chunks[i] \in SUBSET Chunks
    BY DEF TypeOK
<1>2. UnitsOf(i, k, chunks[i]) \subseteq Unit
    BY <1>1, UnitsOfType
<1> QED
    BY <1>2 DEF Plan, Job

\* Whatever Handle decides, the jobs keep their type.
LEMMA HandleType ==
    ASSUME TypeOK, NEW h \in Handlers, NEW i \in Items, NEW eid \in Nat, Handle(h, i, eid)
    PROVE  job' \in [Handlers -> Job \cup {None}] /\ beaten' \subseteq Items
<1>1. queueMax \in Nat /\ beaconType \in Kinds
    BY QueueAssumption DEF TypeOK
<1>2. OlderPending(i, beaconType) \in SUBSET Unit
    BY DEF OlderPending, OfKind, TypeOK, Table
<1>3. Plan(i, eid, beaconType, queueMax, OlderPending(i, beaconType)) \in Job
    BY <1>1, <1>2, PlanType
<1> QED
    BY <1>3 DEF Handle, TypeOK

\* Taking rows away keeps the history's type.
LEMMA RemovedType ==
    ASSUME TypeOK, NEW S, Removed(S)
    PROVE  ghost' \in [Unit -> Int]
BY DEF Removed, TypeOK

\* The environment's fuel goes down and stays a number.
LEMMA SpendType ==
    ASSUME TypeOK, NEW step \in Steps, Spend(step)
    PROVE  fuel' \in [Steps -> Nat]
BY DEF Spend, TypeOK

\* Every step keeps the types: one case per action.
LEMMA TypeOKStep ==
    TypeOK /\ [Next]_vars => TypeOK'
<1> SUFFICES ASSUME TypeOK, [Next]_vars PROVE TypeOK'
    OBVIOUS
<1> USE DEF settings, tables, broker, audit, house, transmit, desk, history
<1> USE QueueAssumption, MaxCapAssumption
<1>1. ASSUME NEW h \in Handlers, RetireOlder(h) PROVE TypeOK'
    <2>1. job[h] \in Job
        BY <1>1 DEF RetireOlder, TypeOK
    <2>2. PICK u \in job[h].older :
             /\ sched' = Without(sched, {u})
             /\ Removed({u})
             /\ job' = [job EXCEPT ![h] = Plan(@.item, @.eid, @.kind, queueMax, @.older \ {u})]
             /\ beaten' = beaten \cup {u.item}
        BY <1>1 DEF RetireOlder
    <2>3. u \in Unit /\ u.item \in Items
        BY <2>1, <2>2 DEF Job, Unit
    <2>4. Table(sched')
        BY <2>2, WithoutRows DEF TypeOK
    <2>5. ghost' \in [Unit -> Int]
        BY <2>2, RemovedType
    <2>6. Plan(job[h].item, job[h].eid, job[h].kind, queueMax, job[h].older \ {u}) \in Job
        BY <2>1, PlanType DEF Job, TypeOK
    <2>7. job' \in [Handlers -> Job \cup {None}]
        BY <2>2, <2>6 DEF TypeOK
    <2> QED
        BY <1>1, <2>2, <2>3, <2>4, <2>5, <2>7 DEF RetireOlder, TypeOK
<1>2. ASSUME NEW h \in Handlers, AddRow(h) PROVE TypeOK'
    <2>1. job[h] \in Job
        BY <1>2 DEF AddRow, TypeOK
    <2>2. PICK u \in job[h].todo, due \in FirstDue :
             /\ sched' = AddUnit(sched, u, job[h].eid, due, job[h].max)
             /\ \E dropped : ghost' = [v \in Unit |-> IF v \in dropped THEN 0
                                                      ELSE IF v = u THEN -1 ELSE ghost[v]]
             /\ job' = [job EXCEPT ![h].todo = @ \ {u}]
             /\ aired' = [aired EXCEPT ![u] = 0]
             /\ lost'  = [lost EXCEPT ![u] = 0]
        BY <1>2 DEF AddRow
    <2>3. u \in Unit /\ job[h].eid \in Nat /\ due \in BOOLEAN
        BY <2>1, <2>2, FirstDueAssumption DEF Job
    <2>4. Table(sched')
        BY <1>2, <2>2, <2>3, AddUnitRows DEF AddRow, TypeOK
    <2>5. job' \in [Handlers -> Job \cup {None}]
        <3>1. [job[h] EXCEPT !.todo = @ \ {u}] \in Job
            BY <2>1 DEF Job
        <3> QED
            BY <2>2, <3>1 DEF TypeOK
    <2>6. ghost' \in [Unit -> Int] /\ aired' \in [Unit -> Nat] /\ lost' \in [Unit -> Nat]
        BY <2>2, <2>3 DEF TypeOK
    <2> QED
        BY <1>2, <2>4, <2>5, <2>6 DEF AddRow, TypeOK
<1>3. ASSUME NEW h \in Handlers, Finish(h) PROVE TypeOK'
    <2>1. job[h] \in Job
        BY <1>3 DEF Finish, TypeOK
    <2>2. job' \in [Handlers -> Job \cup {None}]
        BY <1>3 DEF Finish, TypeOK
    <2>3. CASE h = "ui"
        BY <1>3, <2>2, <2>3 DEF Finish, TypeOK
    <2>4. CASE h # "ui"
        <3>1. enqueued' \in [Items -> Nat]
            BY <1>3, <2>4 DEF Finish, TypeOK
        <3>2. job[h].eid \in Nat /\ handled' = handled \cup ({job[h].eid} \ {0})
            BY <1>3, <2>1, <2>4 DEF Finish, Job
        <3>3. handled' \subseteq Nat
            BY <3>2 DEF TypeOK
        <3> QED
            BY <1>3, <2>2, <3>1, <3>3 DEF Finish, TypeOK
    <2> QED
        BY <2>3, <2>4
<1>4. CASE Receive
    <2>1. PICK m \in msgs :
             /\ \/ msgs' = msgs \ {m} /\ UNCHANGED fuel
                \/ UNCHANGED msgs /\ Spend("duplicate")
             /\ IF AlreadyEnqueued(m.eid) THEN UNCHANGED <<job, beaten>>
                ELSE Handle("mqtt", m.item, m.eid)
        BY <1>4 DEF Receive
    <2>2. m.item \in Items /\ m.eid \in Nat
        BY <2>1 DEF TypeOK
    <2>3. job' \in [Handlers -> Job \cup {None}] /\ beaten' \subseteq Items
        BY <2>1, <2>2, HandleType DEF Handlers, TypeOK
    <2>4. fuel' \in [Steps -> Nat] /\ msgs' \subseteq msgs
        BY <2>1, SpendType DEF Steps, TypeOK
    <2> QED
        BY <1>4, <2>3, <2>4 DEF Receive, TypeOK
<1>5. CASE ReceiveFails
    <2>1. fuel' \in [Steps -> Nat]
        BY <1>5, SpendType DEF ReceiveFails, Steps
    <2> QED
        BY <1>5, <2>1 DEF ReceiveFails, TypeOK
<1>6. CASE HouseReconcile
    BY <1>6 DEF HouseReconcile, TypeOK
<1>7. CASE HouseNextMissed
    <2>1. job' \in [Handlers -> Job \cup {None}] /\ beaten' \subseteq Items
        BY <1>7, HandleType DEF HouseNextMissed, Handlers, TypeOK
    <2> QED
        BY <1>7, <2>1 DEF HouseNextMissed, TypeOK
<1>8. CASE HousePurge
    <2>1. Table(sched') /\ ghost' \in [Unit -> Int]
        BY <1>8, WithoutRows, RemovedType DEF HousePurge, TypeOK
    <2> QED
        BY <1>8, <2>1 DEF HousePurge, TypeOK
<1>9. CASE TxStart
    <2>1. Table(sched') /\ ghost' \in [Unit -> Int]
        BY <1>9, WithoutRows, RemovedType DEF TxStart, TypeOK
    <2> QED
        BY <1>9, <2>1 DEF TxStart, TypeOK
<1>10. CASE TxTick
    <2>1. Table(sched') /\ ghost' \in [Unit -> Int]
        BY <1>10, WithoutRows, RemovedType DEF TxTick, TypeOK
    <2> QED
        BY <1>10, <2>1 DEF TxTick, TypeOK
<1>11. CASE TxManualAttempt
    BY <1>11 DEF TxManualAttempt, TypeOK
<1>12. CASE TxManualDelete
    BY <1>12 DEF TxManualDelete, TypeOK
<1>13. CASE TxSnapshot
    <2>1. Table(batch')
        BY <1>13, SelectRows DEF TxSnapshot, TypeOK
    <2> QED
        BY <1>13, <2>1 DEF TxSnapshot, TypeOK
<1>14. CASE TxOverBudget
    <2>1. PICK u \in DOMAIN batch : /\ batch' = Without(batch, {u})
                                    /\ sched' = RecordSent(sched, u, TRUE)
        BY <1>14 DEF TxOverBudget
    <2>2. u \in Unit
        BY DEF TypeOK, Table
    <2>3. Table(batch')
        BY <2>1, WithoutRows DEF TypeOK
    <2>4. Table(sched')
        BY <2>1, <2>2, RecordSentRows DEF TypeOK
    <2> QED
        BY <1>14, <2>3, <2>4 DEF TxOverBudget, TypeOK
<1>15. CASE TxNotDue
    <2>1. PICK u : batch' = Without(batch, {u})
        BY <1>15 DEF TxNotDue
    <2>2. Table(batch')
        BY <2>1, WithoutRows DEF TypeOK
    <2> QED
        BY <1>15, <2>2 DEF TxNotDue, TypeOK
<1>16. CASE TxAttempt
    <2>1. PICK u \in DOMAIN batch, ok \in BOOLEAN :
             /\ batch' = Without(batch, {u})
             /\ airing' = [unit |-> u, gen |-> batch[u].gen,
                           retire |-> batch[u].sent + 1 >= cap]
             /\ IF ok
                THEN /\ aired' = [aired EXCEPT ![u] = @ + 1]
                     /\ ghost' = [ghost EXCEPT ![u] = IF @ >= 0 THEN @ + 1 ELSE @]
                ELSE UNCHANGED <<aired, ghost>>
        BY <1>16 DEF TxAttempt
    <2>2. Table(batch')
        BY <2>1, WithoutRows DEF TypeOK
    <2>3. u \in Unit /\ batch[u].gen \in Nat
        BY DEF TypeOK, Table, Row
    <2>4. airing' \in Airing
        BY <2>1, <2>3 DEF Airing
    <2>5. aired' \in [Unit -> Nat] /\ ghost' \in [Unit -> Int]
        BY <2>1, <2>3 DEF TypeOK
    <2> QED
        BY <1>16, <2>2, <2>4, <2>5 DEF TxAttempt, TypeOK
<1>17. CASE TxRecord
    <2>1. airing.unit \in Unit /\ airing.retire \in BOOLEAN
        BY <1>17 DEF TxRecord, Airing, TypeOK
    <2>2. Table(sched')
        BY <1>17, <2>1, RecordSentRows DEF TxRecord, TypeOK
    <2>3. aired' \in [Unit -> Nat] /\ lost' \in [Unit -> Nat] /\ ghost' \in [Unit -> Int]
        BY <1>17 DEF TxRecord, TypeOK
    <2> QED
        BY <1>17, <2>2, <2>3 DEF TxRecord, TypeOK
<1>18. ASSUME NEW i \in Items, Rechunk(i) PROVE TypeOK'
    <2>1. fuel' \in [Steps -> Nat]
        BY <1>18, SpendType DEF Rechunk, Steps
    <2> QED
        BY <1>18, <2>1, ChunkSetAssumption DEF Rechunk, TypeOK
<1>19. ASSUME NEW i \in Items, Publish(i) PROVE TypeOK'
    <2>1. fuel' \in [Steps -> Nat]
        BY <1>19, SpendType DEF Publish, Steps
    <2> QED
        BY <1>19, <2>1 DEF Publish, TypeOK
<1>20. CASE MarkPublished
    BY <1>20 DEF MarkPublished, TypeOK
<1>21. CASE Lose
    <2>1. fuel' \in [Steps -> Nat]
        BY <1>21, SpendType DEF Lose, Steps
    <2> QED
        BY <1>21, <2>1 DEF Lose, TypeOK
<1>22. CASE Second
    <2>1. fuel' \in [Steps -> Nat]
        BY <1>22, SpendType DEF Second, Steps
    <2> QED
        BY <1>22, <2>1 DEF Second, TypeOK
<1>23. ASSUME NEW u \in Unit, BecomeDue(u) \/ BecomeStale(u) PROVE TypeOK'
    <2>1. fuel' \in [Steps -> Nat]
        BY <1>23, SpendType DEF BecomeDue, BecomeStale, Steps, TypeOK
    <2>2. u \in DOMAIN sched /\ sched[u] \in Row
        BY <1>23 DEF BecomeDue, BecomeStale, TypeOK, Table
    <2>3. /\ [sched[u] EXCEPT !.due = TRUE] \in Row
          /\ [sched[u] EXCEPT !.stale = TRUE] \in Row
        BY <2>2 DEF Row
    <2>4. Table(sched')
        BY <1>23, <2>2, <2>3 DEF BecomeDue, BecomeStale, Table, TypeOK
    <2> QED
        BY <1>23, <2>1, <2>4 DEF BecomeDue, BecomeStale, TypeOK
<1>24. CASE SetType \/ SetEnabled \/ SetPolicy \/ SetQueueMax
    <2>1. fuel' \in [Steps -> Nat]
        BY <1>24, SpendType DEF SetType, SetEnabled, SetPolicy, SetQueueMax, Steps
    <2> QED
        BY <1>24, <2>1 DEF SetType, SetEnabled, SetPolicy, SetQueueMax, TypeOK
<1>25. ASSUME NEW i \in Items, Retransmit(i) PROVE TypeOK'
    <2>1. fuel' \in [Steps -> Nat]
        BY <1>25, SpendType DEF Retransmit, Steps
    <2>2. Plan(i, 0, beaconType, 0, {}) \in Job
        BY PlanType DEF TypeOK
    <2> QED
        BY <1>25, <2>1, <2>2 DEF Retransmit, TypeOK
<1>26. ASSUME NEW i \in Items, DeleteItem(i) PROVE TypeOK'
    <2>1. fuel' \in [Steps -> Nat]
        BY <1>26, SpendType DEF DeleteItem, Steps
    <2>2. Table(sched') /\ ghost' \in [Unit -> Int]
        BY <1>26, WithoutRows, RemovedType DEF DeleteItem, TypeOK
    <2> QED
        BY <1>26, <2>1, <2>2 DEF DeleteItem, TypeOK
<1>27. ASSUME NEW m \in Messages, EnqueueManual(m) PROVE TypeOK'
    <2>1. fuel' \in [Steps -> Nat]
        BY <1>27, SpendType DEF EnqueueManual, Steps
    <2> QED
        BY <1>27, <2>1 DEF EnqueueManual, TypeOK
<1>28. CASE Crash
    <2>1. fuel' \in [Steps -> Nat]
        BY <1>28, SpendType DEF Crash, Steps
    <2>2. Table(batch')
        BY <1>28 DEF Crash, Table
    <2>3. job' \in [Handlers -> Job \cup {None}]
        BY <1>28 DEF Crash, TypeOK
    <2>4. lost' \in [Unit -> Nat]
        BY <1>28 DEF Crash, TypeOK
    <2>5. relived' \in [Messages -> Nat]
        BY <1>28 DEF Crash, TypeOK
    <2> QED
        BY <1>28, <2>1, <2>2, <2>3, <2>4, <2>5 DEF Crash, TypeOK
<1>29. CASE PublisherCrash
    <2>1. fuel' \in [Steps -> Nat]
        BY <1>29, SpendType DEF PublisherCrash, Steps
    <2> QED
        BY <1>29, <2>1 DEF PublisherCrash, TypeOK
<1>30. CASE UNCHANGED vars
    BY <1>30 DEF vars, TypeOK, Table
<1> QED
    BY <1>1, <1>2, <1>3, <1>4, <1>5, <1>6, <1>7, <1>8, <1>9, <1>10, <1>11, <1>12, <1>13, <1>14,
       <1>15, <1>16, <1>17, <1>18, <1>19, <1>20, <1>21, <1>22, <1>23, <1>24, <1>25, <1>26, <1>27,
       <1>28, <1>29, <1>30
    DEF Next, HandlerStep, HouseStep, TxStep, Operator, World

\* Every variable keeps its type whatever the threads and the environment do.
THEOREM TypeCorrect == Spec => []TypeOK
<1>1. Init => TypeOK
    BY ScenarioAssumption DEF Init, TypeOK, Scenario, Table, Kinds
<1> QED
    BY <1>1, TypeOKStep, PTL DEF Spec
-----------------------------------------------------------------------------
(* The transmit budget.  WithinBudget alone is not inductive: the transmit  *)
(* thread compares its snapshot's sent_count with the cap while other       *)
(* threads rewrite the row.  The airings of an armed unit are those its row *)
(* has recorded, those a crash kept from being recorded, and at most the    *)
(* one on air now; and a row still in the snapshot has not aired since the  *)
(* snapshot was read.                                                       *)

OnAir(u) == airing # None /\ airing.unit = u

BudgetInv ==
    /\ txPc # "drain" => airing = None
    /\ \A u \in DOMAIN sched :
        /\ aired[u] <= sched[u].sent + lost[u] + 1
        /\ ~OnAir(u) => aired[u] <= sched[u].sent + lost[u]
    /\ \A u \in DOMAIN batch : aired[u] <= batch[u].sent + lost[u]
    /\ WithinBudget

\* A step that only takes rows away, or changes a row's flags, keeps the budget.
LEMMA BudgetKept ==
    ASSUME TypeOK, BudgetInv, UNCHANGED <<airing, batch, aired, lost>>,
           txPc' = "drain" \/ txPc' = txPc \/ airing = None,
           DOMAIN sched' \subseteq DOMAIN sched,
           \A u \in DOMAIN sched' : sched'[u].sent = sched[u].sent
    PROVE  BudgetInv'
BY DEF BudgetInv, OnAir, WithinBudget

LEMMA BudgetStep ==
    TypeOK /\ BudgetInv /\ [Next]_vars => BudgetInv'
<1> SUFFICES ASSUME TypeOK, BudgetInv, [Next]_vars PROVE BudgetInv'
    OBVIOUS
<1> USE DEF settings, tables, broker, audit, house, transmit, desk, history
<1>1. ASSUME NEW h \in Handlers, AddRow(h) PROVE BudgetInv'
    <2>1. job[h] \in Job
        BY <1>1 DEF AddRow, TypeOK
    <2>2. PICK u \in job[h].todo, due \in FirstDue :
             /\ sched' = AddUnit(sched, u, job[h].eid, due, job[h].max)
             /\ aired' = [aired EXCEPT ![u] = 0]
             /\ lost'  = [lost EXCEPT ![u] = 0]
        BY <1>1 DEF AddRow
    <2>3. u \in Unit /\ job[h].eid \in Nat /\ due \in BOOLEAN
        BY <2>1, <2>2, FirstDueAssumption DEF Job
    <2>4. /\ DOMAIN sched' \subseteq DOMAIN sched \cup {u}
          /\ u \in DOMAIN sched' => sched'[u].sent = 0
          /\ \A v \in DOMAIN sched' \ {u} : sched'[v] = sched[v]
        BY <1>1, <2>2, <2>3, AddUnitRows DEF AddRow, TypeOK
    <2>5. /\ aired'[u] = 0 /\ lost'[u] = 0
          /\ \A v \in Unit \ {u} : aired'[v] = aired[v] /\ lost'[v] = lost[v]
        BY <2>2, <2>3 DEF TypeOK
    <2>6. UNCHANGED <<txPc, airing, batch>>
        BY <1>1 DEF AddRow
    <2>7. \A v \in DOMAIN batch : v \in Unit /\ batch[v].sent \in Nat
        BY DEF TypeOK, Table, Row
    <2>8. \A v \in DOMAIN sched : v \in Unit /\ sched[v].sent \in Nat
        BY DEF TypeOK, Table, Row
    <2>9. \A v \in DOMAIN sched' :
             /\ aired'[v] <= sched'[v].sent + lost'[v] + 1
             /\ ~OnAir(v)' => aired'[v] <= sched'[v].sent + lost'[v]
        BY <2>4, <2>5, <2>6, <2>8 DEF BudgetInv, OnAir
    <2>10. \A v \in DOMAIN batch' : aired'[v] <= batch'[v].sent + lost'[v]
        BY <2>5, <2>6, <2>7 DEF BudgetInv
    <2>11. WithinBudget'
        BY <2>5, MaxCapAssumption DEF BudgetInv, WithinBudget
    <2> QED
        BY <2>6, <2>9, <2>10, <2>11 DEF BudgetInv
<1>2. CASE TxSnapshot
    <2>1. /\ batch' = Restrict(sched, OfKind(sched, txKind)) /\ airing = None
          /\ UNCHANGED <<airing, sched, aired, lost>> /\ txPc' = "drain"
        BY <1>2 DEF TxSnapshot, BudgetInv
    <2>2. \A u \in DOMAIN batch' : u \in DOMAIN sched /\ batch'[u] = sched[u]
        BY <2>1, SelectRows DEF TypeOK
    <2> QED
        BY <2>1, <2>2 DEF BudgetInv, OnAir, WithinBudget
<1>3. CASE TxOverBudget
    <2>1. PICK u \in DOMAIN batch : /\ batch' = Without(batch, {u})
                                    /\ sched' = RecordSent(sched, u, TRUE)
        BY <1>3 DEF TxOverBudget
    <2>2. \A v \in DOMAIN batch' : v \in DOMAIN batch /\ batch'[v] = batch[v]
        BY <2>1, KeptRows DEF TypeOK
    <2>3. sched' = Without(sched, {u})
        BY <2>1 DEF RecordSent
    <2>4. \A v \in DOMAIN sched' : v \in DOMAIN sched /\ sched'[v] = sched[v]
        BY <2>3, KeptRows DEF TypeOK
    <2>5. UNCHANGED <<txPc, airing, aired, lost>>
        BY <1>3 DEF TxOverBudget
    <2> QED
        BY <2>2, <2>4, <2>5 DEF BudgetInv, OnAir, WithinBudget
<1>4. CASE TxNotDue
    <2>1. PICK u : batch' = Without(batch, {u})
        BY <1>4 DEF TxNotDue
    <2>2. \A v \in DOMAIN batch' : v \in DOMAIN batch /\ batch'[v] = batch[v]
        BY <2>1, KeptRows DEF TypeOK
    <2>3. UNCHANGED <<txPc, airing, sched, aired, lost>>
        BY <1>4 DEF TxNotDue
    <2> QED
        BY <2>2, <2>3 DEF BudgetInv, OnAir, WithinBudget
<1>5. CASE TxAttempt
    <2>1. PICK u \in DOMAIN batch :
             /\ batch' = Without(batch, {u})
             /\ batch[u].sent < cap
             /\ airing' = [unit |-> u, gen |-> batch[u].gen,
                           retire |-> batch[u].sent + 1 >= cap]
             /\ aired' = [aired EXCEPT ![u] = @ + 1] \/ aired' = aired
        BY <1>5 DEF TxAttempt
    <2>2. u \in Unit /\ batch[u].sent \in Nat /\ batch[u].gen \in Nat /\ cap \in 1 .. MaxCap
        BY DEF TypeOK, Table, Row
    <2>3. airing' # None /\ airing'.unit = u
        <3>1. airing'.unit = u
            BY <2>1
        <3>2. (batch[u].sent + 1 >= cap) \in BOOLEAN
            OBVIOUS
        <3>3. airing' \in Airing
            BY <2>1, <2>2, <3>2 DEF Airing
        <3> QED
            BY <3>1, <3>3, NoneAssumption
    <2>4. airing = None /\ txPc' = "drain" /\ UNCHANGED <<sched, lost>>
        BY <1>5 DEF TxAttempt
    <2>5. /\ aired'[u] \in {aired[u], aired[u] + 1}
          /\ \A v \in Unit \ {u} : aired'[v] = aired[v]
        BY <2>1, <2>2 DEF TypeOK
    <2>6. \A v \in DOMAIN batch' : v \in DOMAIN batch \ {u} /\ batch'[v] = batch[v]
        BY <2>1, KeptRows DEF TypeOK
    <2>7. \A v \in DOMAIN batch' : aired'[v] <= batch'[v].sent + lost'[v]
        BY <2>4, <2>5, <2>6 DEF BudgetInv, TypeOK, Table
    <2>8. \A v \in DOMAIN sched' :
             /\ aired'[v] <= sched'[v].sent + lost'[v] + 1
             /\ ~OnAir(v)' => aired'[v] <= sched'[v].sent + lost'[v]
        <3>1. \A v \in DOMAIN sched : /\ v \in Unit /\ sched[v].sent \in Nat
                                      /\ aired[v] \in Nat /\ lost[v] \in Nat
            BY DEF TypeOK, Table, Row
        <3>2. \A v \in DOMAIN sched : aired[v] <= sched[v].sent + lost[v]
            BY <2>4 DEF BudgetInv, OnAir
        <3> QED
            BY <2>3, <2>4, <2>5, <3>1, <3>2 DEF OnAir
    <2>9. WithinBudget'
        <3>1. aired[u] <= batch[u].sent + lost[u] /\ aired[u] \in Nat /\ lost[u] \in Nat
            BY <2>2 DEF BudgetInv, TypeOK
        <3>2. aired'[u] <= MaxCap + lost'[u]
            BY <2>1, <2>2, <2>4, <2>5, <3>1, MaxCapAssumption
        <3> QED
            BY <2>4, <2>5, <3>2 DEF BudgetInv, WithinBudget
    <2> QED
        BY <2>4, <2>7, <2>8, <2>9 DEF BudgetInv
<1>6. CASE TxRecord
    <2> DEFINE u == airing.unit
               over == {u} \ DOMAIN sched'
    <2>1. /\ airing # None /\ airing' = None
          /\ sched' = RecordSent(sched, u, airing.retire)
          /\ aired' = [v \in Unit |-> IF v \in over THEN 0 ELSE aired[v]]
          /\ lost'  = [v \in Unit |-> IF v \in over THEN 0 ELSE lost[v]]
          /\ UNCHANGED <<txPc, batch>>
        BY <1>6 DEF TxRecord
    <2>2. u \in Unit /\ airing.retire \in BOOLEAN
        BY <2>1 DEF Airing, TypeOK
    <2>3. /\ DOMAIN sched' \subseteq DOMAIN sched
          /\ u \in DOMAIN sched' => sched'[u].sent = sched[u].sent + 1
          /\ \A v \in DOMAIN sched' \ {u} : sched'[v] = sched[v]
        BY <2>1, <2>2, RecordSentRows DEF TypeOK
    <2>4. \A v \in DOMAIN sched : /\ v \in Unit /\ sched[v].sent \in Nat
                                  /\ aired[v] \in Nat /\ lost[v] \in Nat
        BY DEF TypeOK, Table, Row
    <2>5. \A v \in DOMAIN sched' : aired'[v] = aired[v] /\ lost'[v] = lost[v]
        BY <2>1, <2>3, <2>4
    <2>6. \A v \in DOMAIN sched' : aired'[v] <= sched'[v].sent + lost'[v]
        BY <2>1, <2>3, <2>4, <2>5 DEF BudgetInv, OnAir
    <2>7. \A v \in DOMAIN sched' : sched'[v].sent \in Nat /\ lost'[v] \in Nat /\ aired'[v] \in Nat
        BY <2>3, <2>4, <2>5
    <2>8. \A v \in DOMAIN batch' : aired'[v] <= batch'[v].sent + lost'[v]
        <3>1. \A v \in DOMAIN batch : v \in Unit /\ batch[v].sent \in Nat
            BY DEF TypeOK, Table, Row
        <3> QED
            BY <2>1, <3>1 DEF BudgetInv
    <2>9. WithinBudget'
        BY <2>1, MaxCapAssumption DEF BudgetInv, WithinBudget
    <2>10. \A v \in DOMAIN sched' : aired'[v] <= sched'[v].sent + lost'[v] + 1
        BY <2>6, <2>7
    <2> HIDE DEF u, over
    <2> QED
        BY <2>1, <2>6, <2>8, <2>9, <2>10 DEF BudgetInv
<1>7. CASE Crash
    <2>1. /\ batch' = <<>> /\ airing' = None /\ UNCHANGED <<sched, aired>>
          /\ lost' = [u \in Unit |-> IF airing # None /\ airing.unit = u
                                     THEN lost[u] + 1 ELSE lost[u]]
        BY <1>7 DEF Crash
    <2>2. \A u \in DOMAIN sched : /\ u \in Unit /\ sched[u].sent \in Nat
                                  /\ aired[u] \in Nat /\ lost[u] \in Nat
        BY DEF TypeOK, Table, Row
    <2>3. \A u \in DOMAIN sched' : aired'[u] <= sched'[u].sent + lost'[u]
        BY <2>1, <2>2 DEF BudgetInv, OnAir
    <2>4. \A u \in Unit : lost'[u] \in Nat /\ lost[u] \in Nat /\ lost[u] <= lost'[u]
        BY <2>1 DEF TypeOK
    <2>5. WithinBudget'
        BY <2>1, <2>4, MaxCapAssumption DEF BudgetInv, WithinBudget, TypeOK
    <2>6. \A u \in DOMAIN sched' : aired'[u] <= sched'[u].sent + lost'[u] + 1
        <3>1. \A u \in DOMAIN sched' : /\ aired'[u] \in Nat /\ sched'[u].sent \in Nat
                                       /\ lost'[u] \in Nat
            BY <2>1, <2>2, <2>4
        <3> QED
            BY <2>3, <3>1
    <2>7. DOMAIN batch' = {}
        BY <2>1
    <2> QED
        BY <2>1, <2>3, <2>5, <2>6, <2>7 DEF BudgetInv
<1>8. ASSUME NEW S, sched' = Without(sched, S), UNCHANGED <<airing, batch, aired, lost>>,
             txPc' = "drain" \/ txPc' = txPc \/ airing = None
      PROVE  BudgetInv'
    <2>1. \A u \in DOMAIN sched' : u \in DOMAIN sched /\ sched'[u] = sched[u]
        BY <1>8, KeptRows DEF TypeOK
    <2>2. DOMAIN sched' \subseteq DOMAIN sched /\ \A u \in DOMAIN sched' : sched'[u].sent = sched[u].sent
        BY <2>1
    <2> QED
        BY <1>8, <2>2, BudgetKept
<1>9. ASSUME NEW h \in Handlers, RetireOlder(h) PROVE BudgetInv'
    BY <1>8, <1>9 DEF RetireOlder
<1>10. CASE HousePurge
    BY <1>8, <1>10 DEF HousePurge
<1>11. CASE TxStart
    BY <1>8, <1>11 DEF TxStart
<1>12. CASE TxTick
    BY <1>8, <1>12 DEF TxTick
<1>13. ASSUME NEW i \in Items, DeleteItem(i) PROVE BudgetInv'
    BY <1>8, <1>13 DEF DeleteItem
<1>14. ASSUME NEW u \in Unit, BecomeDue(u) \/ BecomeStale(u) PROVE BudgetInv'
    <2>1. u \in DOMAIN sched /\ sched[u] \in Row
        BY <1>14 DEF BecomeDue, BecomeStale, TypeOK, Table
    <2>2. /\ [sched[u] EXCEPT !.due = TRUE].sent = sched[u].sent
          /\ [sched[u] EXCEPT !.stale = TRUE].sent = sched[u].sent
        BY <2>1 DEF Row
    <2>3. DOMAIN sched' = DOMAIN sched /\ \A v \in DOMAIN sched : sched'[v].sent = sched[v].sent
        BY <1>14, <2>1, <2>2 DEF BecomeDue, BecomeStale
    <2> QED
        BY <1>14, <2>3, BudgetKept DEF BecomeDue, BecomeStale
<1>15. ASSUME UNCHANGED <<txPc, airing, sched, batch, aired, lost>> PROVE BudgetInv'
    BY <1>15, BudgetKept
<1>16. ASSUME NEW h \in Handlers, Finish(h) PROVE BudgetInv'
    BY <1>15, <1>16 DEF Finish
<1>17. CASE Receive \/ ReceiveFails \/ HouseReconcile \/ HouseNextMissed
    BY <1>15, <1>17 DEF Receive, ReceiveFails, HouseReconcile, HouseNextMissed
<1>18. CASE TxManualAttempt \/ TxManualDelete
    BY <1>15, <1>18 DEF TxManualAttempt, TxManualDelete
<1>19. ASSUME NEW i \in Items, Rechunk(i) \/ Publish(i) \/ Retransmit(i) PROVE BudgetInv'
    BY <1>15, <1>19 DEF Rechunk, Publish, Retransmit
<1>20. CASE MarkPublished \/ Lose \/ Second \/ PublisherCrash
    BY <1>15, <1>20 DEF MarkPublished, Lose, Second, PublisherCrash
<1>21. CASE SetType \/ SetEnabled \/ SetPolicy \/ SetQueueMax
    BY <1>15, <1>21 DEF SetType, SetEnabled, SetPolicy, SetQueueMax
<1>22. ASSUME NEW m \in Messages, EnqueueManual(m) PROVE BudgetInv'
    BY <1>15, <1>22 DEF EnqueueManual
<1>23. CASE UNCHANGED vars
    BY <1>15, <1>23 DEF vars
<1> QED
    BY <1>1, <1>2, <1>3, <1>4, <1>5, <1>6, <1>7, <1>9, <1>10, <1>11, <1>12, <1>13, <1>14, <1>16,
       <1>17, <1>18, <1>19, <1>20, <1>21, <1>22, <1>23
    DEF Next, HandlerStep, HouseStep, TxStep, Operator, World

\* No unit airs more often than the cap for one arming, plus what crashes forgot: for any
\* items, chunks, policies, queue sizes and any interleaving of the threads.
THEOREM BudgetHolds == Spec => []WithinBudget
<1>1. Init => BudgetInv
    <2>1. MaxCap \in Nat
        BY MaxCapAssumption
    <2> QED
        BY <2>1 DEF Init, BudgetInv, WithinBudget
<1>2. BudgetInv => WithinBudget
    BY DEF BudgetInv
<1> QED
    BY <1>1, <1>2, TypeCorrect, BudgetStep, PTL DEF Spec
-----------------------------------------------------------------------------
(* The late airing of a cancelled unit.  What makes the bound hold is that  *)
(* a cancelled unit has no row, so no later snapshot can hold it, and that  *)
(* the snapshot that still holds it gives it up on airing it.               *)

CancelInv ==
    /\ CancelledAirsAtMostOnce
    /\ \A u \in DOMAIN sched : ghost[u] < 0
    /\ \A u \in DOMAIN batch : ghost[u] < 1

\* A step that removes rows, and marks exactly those as removed, keeps it.
LEMMA CancelKeptByRemoval ==
    ASSUME TypeOK, CancelInv, NEW S, sched' = Without(sched, S), Removed(S), UNCHANGED batch
    PROVE  CancelInv'
<1>1. \A u \in DOMAIN sched' : u \in DOMAIN sched \ S
    BY KeptRows DEF TypeOK
<1>2. \A u \in Unit : ghost'[u] = IF u \in S \cap DOMAIN sched THEN 0 ELSE ghost[u]
    BY DEF Removed
<1>3. DOMAIN sched \subseteq Unit /\ DOMAIN batch \subseteq Unit
    BY DEF TypeOK, Table
<1> QED
    BY <1>1, <1>2, <1>3 DEF CancelInv, CancelledAirsAtMostOnce

LEMMA CancelStep ==
    TypeOK /\ CancelInv /\ [Next]_vars => CancelInv'
<1> SUFFICES ASSUME TypeOK, CancelInv, [Next]_vars PROVE CancelInv'
    OBVIOUS
<1> USE DEF settings, tables, broker, audit, house, transmit, desk, history
<1>0. DOMAIN sched \subseteq Unit /\ DOMAIN batch \subseteq Unit
    BY DEF TypeOK, Table
<1>1. ASSUME NEW h \in Handlers, AddRow(h) PROVE CancelInv'
    <2>1. job[h] \in Job
        BY <1>1 DEF AddRow, TypeOK
    <2>2. PICK u \in job[h].todo, due \in FirstDue :
             /\ sched' = AddUnit(sched, u, job[h].eid, due, job[h].max)
             /\ ghost' = [v \in Unit |-> IF v \in (DOMAIN sched \cup {u}) \ DOMAIN sched' THEN 0
                                         ELSE IF v = u THEN -1 ELSE ghost[v]]
        BY <1>1 DEF AddRow
    <2>3. u \in Unit /\ job[h].eid \in Nat /\ due \in BOOLEAN
        BY <2>1, <2>2, FirstDueAssumption DEF Job
    <2>4. DOMAIN sched' \subseteq DOMAIN sched \cup {u}
        BY <1>1, <2>2, <2>3, AddUnitRows DEF AddRow, TypeOK
    <2>5. UNCHANGED batch
        BY <1>1 DEF AddRow
    <2> QED
        BY <1>0, <2>2, <2>3, <2>4, <2>5 DEF CancelInv, CancelledAirsAtMostOnce
<1>2. CASE TxSnapshot
    <2>1. \A u \in DOMAIN batch' : u \in DOMAIN sched
        BY <1>2, SelectRows DEF TxSnapshot, TypeOK
    <2>2. UNCHANGED <<sched, ghost>>
        BY <1>2 DEF TxSnapshot
    <2>3. \A u \in DOMAIN sched : ghost[u] \in Int
        BY <1>0 DEF TypeOK
    <2> QED
        BY <2>1, <2>2, <2>3 DEF CancelInv, CancelledAirsAtMostOnce
<1>3. CASE TxOverBudget
    <2>1. PICK u : batch' = Without(batch, {u}) /\ sched' = RecordSent(sched, u, TRUE)
        BY <1>3 DEF TxOverBudget
    <2>2. sched' = Without(sched, {u})
        BY <2>1 DEF RecordSent
    <2>3. \A v \in DOMAIN batch' : v \in DOMAIN batch
        BY <2>1, KeptRows DEF TypeOK
    <2>4. \A v \in DOMAIN sched' : v \in DOMAIN sched
        BY <2>2, KeptRows DEF TypeOK
    <2>5. UNCHANGED ghost
        BY <1>3 DEF TxOverBudget
    <2> QED
        BY <2>3, <2>4, <2>5 DEF CancelInv, CancelledAirsAtMostOnce
<1>4. CASE TxNotDue
    <2>1. PICK u : batch' = Without(batch, {u})
        BY <1>4 DEF TxNotDue
    <2>2. \A v \in DOMAIN batch' : v \in DOMAIN batch
        BY <2>1, KeptRows DEF TypeOK
    <2>3. UNCHANGED <<sched, ghost>>
        BY <1>4 DEF TxNotDue
    <2> QED
        BY <2>2, <2>3 DEF CancelInv, CancelledAirsAtMostOnce
<1>5. CASE TxAttempt
    <2>1. PICK u \in DOMAIN batch :
             /\ batch' = Without(batch, {u})
             /\ \/ ghost' = [ghost EXCEPT ![u] = IF @ >= 0 THEN @ + 1 ELSE @]
                \/ ghost' = ghost
        BY <1>5 DEF TxAttempt
    <2>2. \A v \in DOMAIN batch' : v \in DOMAIN batch \ {u}
        BY <2>1, KeptRows DEF TypeOK
    <2>3. u \in Unit /\ ghost[u] \in Int /\ ghost[u] < 1
        BY <1>0 DEF TypeOK, CancelInv
    <2>4. /\ \A v \in Unit \ {u} : ghost'[v] = ghost[v]
          /\ ghost'[u] <= 1
          /\ ghost[u] < 0 => ghost'[u] < 0
        BY <2>1, <2>3 DEF TypeOK
    <2>5. UNCHANGED sched
        BY <1>5 DEF TxAttempt
    <2> QED
        BY <1>0, <2>2, <2>3, <2>4, <2>5 DEF CancelInv, CancelledAirsAtMostOnce
<1>6. CASE TxRecord
    <2>1. /\ airing # None
          /\ sched' = RecordSent(sched, airing.unit, airing.retire)
          /\ ghost' = [v \in Unit |-> IF v \in {airing.unit} \ DOMAIN sched' THEN -1 ELSE ghost[v]]
          /\ UNCHANGED batch
        BY <1>6 DEF TxRecord
    <2>2. airing.unit \in Unit /\ airing.retire \in BOOLEAN
        BY <2>1 DEF Airing, TypeOK
    <2>3. DOMAIN sched' \subseteq DOMAIN sched
        BY <2>1, <2>2, RecordSentRows DEF TypeOK
    <2> QED
        BY <1>0, <2>1, <2>3 DEF CancelInv, CancelledAirsAtMostOnce
<1>7. CASE Crash
    <2>1. UNCHANGED <<sched, ghost>> /\ DOMAIN batch' = {}
        BY <1>7 DEF Crash
    <2> QED
        BY <2>1 DEF CancelInv, CancelledAirsAtMostOnce
<1>8. ASSUME NEW h \in Handlers, RetireOlder(h) PROVE CancelInv'
    BY <1>8, CancelKeptByRemoval DEF RetireOlder
<1>9. CASE HousePurge
    BY <1>9, CancelKeptByRemoval DEF HousePurge
<1>10. CASE TxStart
    BY <1>10, CancelKeptByRemoval DEF TxStart
<1>11. CASE TxTick
    BY <1>11, CancelKeptByRemoval DEF TxTick
<1>12. ASSUME NEW i \in Items, DeleteItem(i) PROVE CancelInv'
    BY <1>12, CancelKeptByRemoval DEF DeleteItem
<1>13. ASSUME NEW u \in Unit, BecomeDue(u) \/ BecomeStale(u) PROVE CancelInv'
    <2>1. DOMAIN sched' = DOMAIN sched /\ UNCHANGED <<batch, ghost>>
        BY <1>13 DEF BecomeDue, BecomeStale
    <2> QED
        BY <2>1 DEF CancelInv, CancelledAirsAtMostOnce
<1>14. ASSUME UNCHANGED <<sched, batch, ghost>> PROVE CancelInv'
    BY <1>14 DEF CancelInv, CancelledAirsAtMostOnce
<1>15. ASSUME NEW h \in Handlers, Finish(h) PROVE CancelInv'
    BY <1>14, <1>15 DEF Finish
<1>16. CASE Receive \/ ReceiveFails \/ HouseReconcile \/ HouseNextMissed
    BY <1>14, <1>16 DEF Receive, ReceiveFails, HouseReconcile, HouseNextMissed
<1>17. CASE TxManualAttempt \/ TxManualDelete
    BY <1>14, <1>17 DEF TxManualAttempt, TxManualDelete
<1>18. ASSUME NEW i \in Items, Rechunk(i) \/ Publish(i) \/ Retransmit(i) PROVE CancelInv'
    BY <1>14, <1>18 DEF Rechunk, Publish, Retransmit
<1>19. CASE MarkPublished \/ Lose \/ Second \/ PublisherCrash
    BY <1>14, <1>19 DEF MarkPublished, Lose, Second, PublisherCrash
<1>20. CASE SetType \/ SetEnabled \/ SetPolicy \/ SetQueueMax
    BY <1>14, <1>20 DEF SetType, SetEnabled, SetPolicy, SetQueueMax
<1>21. ASSUME NEW m \in Messages, EnqueueManual(m) PROVE CancelInv'
    BY <1>14, <1>21 DEF EnqueueManual
<1>22. CASE UNCHANGED vars
    BY <1>14, <1>22 DEF vars
<1> QED
    BY <1>1, <1>2, <1>3, <1>4, <1>5, <1>6, <1>7, <1>8, <1>9, <1>10, <1>11, <1>12, <1>13, <1>15,
       <1>16, <1>17, <1>18, <1>19, <1>20, <1>21, <1>22
    DEF Next, HandlerStep, HouseStep, TxStep, Operator, World

\* A unit another thread took off the schedule airs at most once more, whatever the drain
\* had read before.
THEOREM CancelHolds == Spec => []CancelledAirsAtMostOnce
<1>1. Init => CancelInv
    BY DEF Init, CancelInv, CancelledAirsAtMostOnce
<1>2. CancelInv => CancelledAirsAtMostOnce
    BY DEF CancelInv
<1> QED
    BY <1>1, <1>2, TypeCorrect, CancelStep, PTL DEF Spec

-----------------------------------------------------------------------------
(* A redelivered event.  Only the mqtt thread works on an event with an id, *)
(* so no other handler can close the job it is in the middle of.            *)

EventInv ==
    /\ EventArmsOnce
    /\ \A h \in Handlers \ {"mqtt"} : job[h] # None => job[h].eid = 0

\* Handling item i for event eid changes handler h's job only, into one of that event.
LEMMA HandleJob ==
    ASSUME TypeOK, NEW h \in Handlers, NEW i, NEW eid, Handle(h, i, eid)
    PROVE  \A g \in Handlers : job'[g] = job[g] \/ (g = h /\ job'[g].eid = eid)
BY DEF Handle, Plan, TypeOK

LEMMA EventStep ==
    TypeOK /\ EventInv /\ [Next]_vars => EventInv'
<1> SUFFICES ASSUME TypeOK, EventInv, [Next]_vars PROVE EventInv'
    OBVIOUS
<1> USE DEF settings, tables, broker, audit, house, transmit, desk, history, Handlers
<1>1. ASSUME NEW h \in Handlers, RetireOlder(h) \/ AddRow(h) PROVE EventInv'
    <2>1. job[h] \in Job /\ job[h] # None /\ handled' = handled
        BY <1>1 DEF RetireOlder, AddRow, TypeOK
    <2>2. job'[h].eid = job[h].eid /\ \A g \in Handlers \ {h} : job'[g] = job[g]
        <3>1. CASE RetireOlder(h)
            BY <3>1 DEF RetireOlder, Plan, TypeOK
        <3>2. CASE AddRow(h)
            <4>1. PICK u : job' = [job EXCEPT ![h].todo = @ \ {u}]
                BY <3>2 DEF AddRow
            <4> QED
                BY <2>1, <4>1 DEF TypeOK, Job
        <3> QED
            BY <1>1, <3>1, <3>2
    <2> QED
        BY <2>1, <2>2 DEF EventInv, EventArmsOnce
<1>2. ASSUME NEW h \in Handlers, Finish(h) PROVE EventInv'
    <2>1. job'[h] = None /\ \A g \in Handlers \ {h} : job'[g] = job[g]
        BY <1>2 DEF Finish, TypeOK
    <2>2. handled' = handled \/ handled' = handled \cup ({job[h].eid} \ {0})
        BY <1>2 DEF Finish
    <2>3. job[h] # None
        BY <1>2 DEF Finish
    <2> QED
        BY <2>1, <2>2, <2>3 DEF EventInv, EventArmsOnce
<1>3. CASE Receive
    <2>1. PICK m \in msgs : IF AlreadyEnqueued(m.eid) THEN UNCHANGED job
                            ELSE Handle("mqtt", m.item, m.eid)
        BY <1>3 DEF Receive
    <2>2. UNCHANGED handled
        BY <1>3 DEF Receive
    <2> QED
        BY <2>1, <2>2, HandleJob DEF EventInv, EventArmsOnce, AlreadyEnqueued
<1>4. CASE HouseNextMissed
    <2>1. PICK i \in missed : Handle("house", i, 0)
        BY <1>4 DEF HouseNextMissed
    <2>2. UNCHANGED handled
        BY <1>4 DEF HouseNextMissed
    <2> QED
        BY <2>1, <2>2, HandleJob DEF EventInv, EventArmsOnce
<1>5. ASSUME NEW i \in Items, Retransmit(i) PROVE EventInv'
    <2>1. job' = [job EXCEPT !["ui"] = Plan(i, 0, beaconType, 0, {})] /\ UNCHANGED handled
        BY <1>5 DEF Retransmit
    <2>2. job'["ui"].eid = 0 /\ \A g \in Handlers \ {"ui"} : job'[g] = job[g]
        BY <2>1 DEF Plan, TypeOK
    <2> QED
        BY <2>1, <2>2 DEF EventInv, EventArmsOnce
<1>6. CASE ReceiveFails \/ Crash
    <2>1. UNCHANGED handled /\ \A g \in Handlers : job'[g] \in {None, job[g]}
        BY <1>6 DEF ReceiveFails, Crash, TypeOK
    <2> QED
        BY <2>1 DEF EventInv, EventArmsOnce
<1>7. ASSUME UNCHANGED <<job, handled>> PROVE EventInv'
    BY <1>7 DEF EventInv, EventArmsOnce
<1>8. CASE HouseReconcile \/ HousePurge
    BY <1>7, <1>8 DEF HouseReconcile, HousePurge
<1>9. CASE TxStep
    BY <1>7, <1>9 DEF TxStep, TxStart, TxTick, TxManualAttempt, TxManualDelete, TxSnapshot,
                      TxOverBudget, TxNotDue, TxAttempt, TxRecord
<1>10. ASSUME NEW i \in Items, Rechunk(i) \/ Publish(i) \/ DeleteItem(i) PROVE EventInv'
    BY <1>7, <1>10 DEF Rechunk, Publish, DeleteItem
<1>11. CASE MarkPublished \/ Lose \/ Second \/ PublisherCrash
    BY <1>7, <1>11 DEF MarkPublished, Lose, Second, PublisherCrash
<1>12. CASE SetType \/ SetEnabled \/ SetPolicy \/ SetQueueMax
    BY <1>7, <1>12 DEF SetType, SetEnabled, SetPolicy, SetQueueMax
<1>13. ASSUME NEW m \in Messages, EnqueueManual(m) PROVE EventInv'
    BY <1>7, <1>13 DEF EnqueueManual
<1>14. ASSUME NEW u \in Unit, BecomeDue(u) \/ BecomeStale(u) PROVE EventInv'
    BY <1>7, <1>14 DEF BecomeDue, BecomeStale
<1>15. CASE UNCHANGED vars
    BY <1>7, <1>15 DEF vars
<1> QED
    BY <1>1, <1>2, <1>3, <1>4, <1>5, <1>6, <1>8, <1>9, <1>10, <1>11, <1>12, <1>13, <1>14, <1>15
    DEF Next, HandlerStep, HouseStep, Operator, World

\* A CloudEvent the audit log shows as enqueued is never worked on again, however often
\* the broker delivers it and however the threads interleave.
THEOREM EventsArmOnce == Spec => []EventArmsOnce
<1>1. Init => EventInv
    BY DEF Init, EventInv, EventArmsOnce
<1>2. EventInv => EventArmsOnce
    BY DEF EventInv
<1> QED
    BY <1>1, <1>2, TypeCorrect, EventStep, PTL DEF Spec

-----------------------------------------------------------------------------
(* The queue limit.  Drop-oldest counts the rows that come before a row, so *)
(* it drops the oldest because rowids tell the rows of the table apart.     *)

RowidInv == /\ IsFiniteSet(DOMAIN sched)
            /\ \A u, v \in DOMAIN sched : sched[u].rowid = sched[v].rowid => u = v

\* Rows that leave, and rows whose other columns change, do not disturb it.
LEMMA RowidKept ==
    ASSUME RowidInv, DOMAIN sched' \subseteq DOMAIN sched, \A u \in DOMAIN sched' : sched'[u].rowid = sched[u].rowid
    PROVE  RowidInv'
BY FS_Subset DEF RowidInv

LEMMA RowidKeptByRemoval ==
    ASSUME TypeOK, RowidInv, NEW S, sched' = Without(sched, S) PROVE RowidInv'
<1>1. DOMAIN sched' = DOMAIN sched \ S /\ \A u \in DOMAIN sched \ S : sched'[u] = sched[u]
    BY WithoutRows DEF TypeOK
<1> QED BY <1>1, RowidKept

\* An insert comes after every row, an update keeps its place.
LEMMA UpsertRowids ==
    ASSUME TypeOK, RowidInv, HasRoom(sched), NEW u \in Unit, NEW gen \in Nat, NEW due \in BOOLEAN,
           NEW added, added = Upsert(sched, u, gen, due)
    PROVE  /\ DOMAIN added = DOMAIN sched \cup {u} /\ IsFiniteSet(DOMAIN added)
           /\ \A v \in DOMAIN added : added[v].rowid \in Nat
           /\ \A v \in DOMAIN sched : added[v].rowid = sched[v].rowid
           /\ \A v, w \in DOMAIN added : added[v].rowid = added[w].rowid => v = w
           /\ u \notin DOMAIN sched => \A v \in DOMAIN sched : added[v].rowid < added[u].rowid
<1> DEFINE new == [sent |-> 0, due |-> due, stale |-> FALSE, gen |-> gen,
                   rowid |-> IF u \in DOMAIN sched THEN sched[u].rowid ELSE NextRowid(sched)]
<1>1. added = [v \in DOMAIN sched \cup {u} |-> IF v # u THEN sched[v] ELSE new]
    BY DEF Upsert
<1>2. NextRowid(sched) \in Nat /\ \A v \in DOMAIN sched : sched[v].rowid < NextRowid(sched)
    <2>1. MaxRowid \in 1 .. MaxRowid
        BY MaxRowidAssumption
    <2>2. \E n \in 1 .. MaxRowid : \A v \in DOMAIN sched : sched[v].rowid < n
        BY <2>1 DEF HasRoom
    <2>3. \A v \in DOMAIN sched : sched[v].rowid < NextRowid(sched)
        BY <2>2 DEF NextRowid
    <2> QED BY <2>3, NextRowidType
<1>3. \A v \in DOMAIN sched : sched[v].rowid \in Nat
    BY DEF TypeOK, Table, Row
<1>4. new.rowid = IF u \in DOMAIN sched THEN sched[u].rowid ELSE NextRowid(sched)
    OBVIOUS
<1> HIDE DEF new
<1>5. /\ DOMAIN added = DOMAIN sched \cup {u} /\ added[u] = new
      /\ \A v \in DOMAIN sched \ {u} : added[v] = sched[v]
    BY <1>1
<1>6. IsFiniteSet(DOMAIN added)
    BY <1>5, FS_AddElement DEF RowidInv
<1>7. \A v \in DOMAIN sched : added[v].rowid = sched[v].rowid
    BY <1>4, <1>5
<1>8. u \notin DOMAIN sched => \A v \in DOMAIN sched : added[v].rowid < added[u].rowid
    BY <1>2, <1>4, <1>5, <1>7
<1>9. \A v \in DOMAIN added : added[v].rowid \in Nat
    BY <1>2, <1>3, <1>4, <1>5, <1>7
<1>10. \A v, w \in DOMAIN added : added[v].rowid = added[w].rowid => v = w
    <2>1. CASE u \in DOMAIN sched
        BY <1>5, <1>7, <2>1 DEF RowidInv
    <2>2. CASE u \notin DOMAIN sched
        <3> SUFFICES ASSUME NEW v \in DOMAIN added, NEW w \in DOMAIN added, added[v].rowid = added[w].rowid
                     PROVE  v = w
            OBVIOUS
        <3>1. CASE v \in DOMAIN sched /\ w \in DOMAIN sched
            BY <1>7, <3>1 DEF RowidInv
        <3>2. CASE v = u /\ w \in DOMAIN sched
            BY <1>8, <1>9, <2>2, <3>2
        <3>3. CASE w = u /\ v \in DOMAIN sched
            BY <1>8, <1>9, <2>2, <3>3
        <3> QED BY <1>5, <3>1, <3>2, <3>3
    <2> QED BY <2>1, <2>2
<1> QED BY <1>5, <1>6, <1>7, <1>8, <1>9, <1>10

\* What the trim keeps is younger than what it drops, and within the cap it keeps the unit
\* that was armed.
LEMMA TrimDropsTheOldest ==
    ASSUME TypeOK, RowidInv, HasRoom(sched), NEW u \in Unit, NEW gen \in Nat, NEW due \in BOOLEAN, NEW max \in Nat,
           NEW left, left = AddUnit(sched, u, gen, due, max)
    PROVE  /\ IsFiniteSet(DOMAIN left)
           /\ \A v, w \in DOMAIN left : left[v].rowid = left[w].rowid => v = w
           /\ Cardinality(OfKind(sched, u.kind)) <= max =>
                /\ u \in DOMAIN left
                /\ \A v \in OfKind(sched, u.kind) \ DOMAIN left, w \in OfKind(left, u.kind) :
                     w \in DOMAIN sched => sched[v].rowid < sched[w].rowid
<1> DEFINE added == Upsert(sched, u, gen, due)
<1>1. /\ DOMAIN added = DOMAIN sched \cup {u} /\ IsFiniteSet(DOMAIN added)
      /\ \A v \in DOMAIN added : added[v].rowid \in Nat
      /\ \A v \in DOMAIN sched : added[v].rowid = sched[v].rowid
      /\ \A v, w \in DOMAIN added : added[v].rowid = added[w].rowid => v = w
      /\ u \notin DOMAIN sched => \A v \in DOMAIN sched : added[v].rowid < added[u].rowid
    BY UpsertRowids
<1>2. left = IF max > 0 THEN Trim(added, u.kind, max) ELSE added
    BY DEF AddUnit
<1> HIDE DEF added
<1>3. CASE max = 0
    <2>1. left = added
        BY <1>2, <1>3
    <2> QED BY <1>1, <2>1 DEF OfKind
<1>4. CASE max > 0
    <2>1. /\ DOMAIN left = {v \in DOMAIN added : v.kind = u.kind => Cardinality(NewerRows(added, v)) < max}
          /\ \A v \in DOMAIN left : left[v] = added[v]
        BY <1>2, <1>4 DEF Trim, Restrict
    <2>2. IsFiniteSet(DOMAIN left) /\ \A v, w \in DOMAIN left : left[v].rowid = left[w].rowid => v = w
        BY <1>1, <2>1, FS_Subset
    <2>3. \A v : NewerRows(added, v) \subseteq DOMAIN added
        BY DEF NewerRows, OfKind
    <2>4. \A v : IsFiniteSet(NewerRows(added, v)) /\ Cardinality(NewerRows(added, v)) \in Nat
        BY <1>1, <2>3, FS_Subset, FS_CardinalityType
    <2>5. ASSUME Cardinality(OfKind(sched, u.kind)) <= max PROVE u \in DOMAIN left
        <3>1. CASE u \notin DOMAIN sched
            <4>1. NewerRows(added, u) = {}
                <5> SUFFICES ASSUME NEW v \in NewerRows(added, u) PROVE FALSE
                    OBVIOUS
                <5>1. v \in DOMAIN added /\ added[v].rowid > added[u].rowid
                    BY DEF NewerRows, OfKind
                <5> QED BY <1>1, <3>1, <5>1
            <4> QED BY <1>1, <1>4, <2>1, <4>1, FS_EmptySet
        <3>2. CASE u \in DOMAIN sched
            <4> DEFINE K == OfKind(sched, u.kind)
            <4>1. u \in K /\ IsFiniteSet(K)
                <5>1. K \subseteq DOMAIN sched
                    BY DEF OfKind
                <5> QED BY <3>2, <5>1, FS_Subset DEF OfKind, RowidInv
            <4>2. NewerRows(added, u) \subseteq K \ {u}
                BY <1>1, <3>2 DEF NewerRows, OfKind
            <4> HIDE DEF K
            <4>3. /\ IsFiniteSet(K \ {u}) /\ Cardinality(K \ {u}) = Cardinality(K) - 1
                  /\ Cardinality(K) \in Nat /\ Cardinality(K \ {u}) \in Nat
                BY <4>1, FS_RemoveElement, FS_CardinalityType
            <4>4. Cardinality(NewerRows(added, u)) <= Cardinality(K \ {u})
                BY <4>2, <4>3, FS_Subset
            <4>5. Cardinality(NewerRows(added, u)) < max
                BY <2>4, <2>5, <4>3, <4>4 DEF K
            <4> QED BY <1>1, <2>1, <4>5
        <3> QED BY <3>1, <3>2
    <2>6. ASSUME Cardinality(OfKind(sched, u.kind)) <= max,
                 NEW v \in OfKind(sched, u.kind) \ DOMAIN left, NEW w \in OfKind(left, u.kind), w \in DOMAIN sched
          PROVE  sched[v].rowid < sched[w].rowid
        <3>1. /\ v \in DOMAIN sched /\ v.kind = u.kind /\ v \in DOMAIN added /\ v \notin DOMAIN left
              /\ w \in DOMAIN added /\ w \in DOMAIN left /\ w.kind = u.kind /\ v # w
            BY <1>1, <2>6 DEF OfKind
        <3>2. Cardinality(NewerRows(added, w)) < max /\ ~(Cardinality(NewerRows(added, v)) < max)
            BY <2>1, <3>1
        <3>3. ~(NewerRows(added, v) \subseteq NewerRows(added, w))
            <4>1. NewerRows(added, v) \subseteq NewerRows(added, w) =>
                    Cardinality(NewerRows(added, v)) <= Cardinality(NewerRows(added, w))
                BY <2>4, FS_Subset
            <4> QED BY <2>4, <3>2, <4>1
        <3>4. ~(added[v].rowid > added[w].rowid)
            <4> SUFFICES ASSUME added[v].rowid > added[w].rowid, NEW x \in NewerRows(added, v)
                         PROVE  x \in NewerRows(added, w)
                BY <3>3
            <4>1. x \in DOMAIN added /\ x.kind = u.kind /\ added[x].rowid > added[v].rowid
                BY <3>1 DEF NewerRows, OfKind
            <4>2. added[x].rowid > added[w].rowid
                BY <1>1, <3>1, <4>1
            <4> QED BY <3>1, <4>1, <4>2 DEF NewerRows, OfKind
        <3> QED BY <1>1, <2>6, <3>1, <3>4
    <2> QED BY <2>2, <2>5, <2>6
<1> QED BY <1>3, <1>4

LEMMA RecordSentRowids ==
    ASSUME TypeOK, RowidInv, NEW u \in Unit, NEW retire \in BOOLEAN, sched' = RecordSent(sched, u, retire)
    PROVE  RowidInv'
<1>1. CASE retire
    <2>1. sched' = Without(sched, {u})
        BY <1>1 DEF RecordSent
    <2> QED BY <2>1, RowidKeptByRemoval
<1>2. CASE ~retire /\ u \in DOMAIN sched
    <2>1. sched' = [sched EXCEPT ![u] = Attempted(sched[u])]
        BY <1>2 DEF RecordSent
    <2>2. Attempted(sched[u]).rowid = sched[u].rowid
        BY DEF Attempted, Counted
    <2>3. DOMAIN sched' = DOMAIN sched /\ \A v \in DOMAIN sched : sched'[v].rowid = sched[v].rowid
        BY <1>2, <2>1, <2>2 DEF TypeOK, Table
    <2> QED BY <2>3, RowidKept
<1>3. CASE ~retire /\ u \notin DOMAIN sched
    <2>1. sched' = sched
        BY <1>3 DEF RecordSent
    <2> QED BY <2>1 DEF RowidInv
<1> QED BY <1>1, <1>2, <1>3

\* What an AddRow step arms, and where it leaves the table.
LEMMA AddRowIsAddUnit ==
    ASSUME TypeOK, NEW h \in Handlers, AddRow(h)
    PROVE  \E u \in job[h].todo, due \in FirstDue :
             /\ u \in Unit /\ due \in BOOLEAN /\ job[h].eid \in Nat /\ job[h].max \in Nat /\ HasRoom(sched)
             /\ sched' = AddUnit(sched, u, job[h].eid, due, job[h].max)
             /\ job[h].todo \ job'[h].todo = {u}
<1>1. job[h] \in Job
    BY DEF AddRow, TypeOK
<1>2. PICK u \in job[h].todo, due \in FirstDue :
        /\ sched' = AddUnit(sched, u, job[h].eid, due, job[h].max)
        /\ job' = [job EXCEPT ![h].todo = @ \ {u}]
    BY DEF AddRow
<1>3. job'[h].todo = job[h].todo \ {u}
    BY <1>1, <1>2 DEF Job, TypeOK
<1>4. u \in Unit /\ job[h].eid \in Nat /\ job[h].max \in Nat
    BY <1>1, <1>2 DEF Job
<1>5. due \in BOOLEAN
    BY <1>2, FirstDueAssumption
<1>6. HasRoom(sched)
    BY DEF AddRow
<1>7. job[h].todo \ job'[h].todo = {u}
    BY <1>2, <1>3
<1> QED BY <1>2, <1>4, <1>5, <1>6, <1>7

LEMMA RowidStep ==
    TypeOK /\ RowidInv /\ [Next]_vars => RowidInv'
<1> SUFFICES ASSUME TypeOK, RowidInv, [Next]_vars PROVE RowidInv'
    OBVIOUS
<1> USE DEF settings, tables, broker, audit, house, transmit, desk, history
<1>1. ASSUME NEW h \in Handlers, AddRow(h) PROVE RowidInv'
    <2>1. PICK u \in job[h].todo, due \in FirstDue :
             /\ u \in Unit /\ due \in BOOLEAN /\ job[h].eid \in Nat /\ job[h].max \in Nat /\ HasRoom(sched)
             /\ sched' = AddUnit(sched, u, job[h].eid, due, job[h].max)
        BY <1>1, AddRowIsAddUnit
    <2>2. /\ IsFiniteSet(DOMAIN sched')
          /\ \A v, w \in DOMAIN sched' : sched'[v].rowid = sched'[w].rowid => v = w
        BY <2>1, TrimDropsTheOldest
    <2> QED BY <2>2 DEF RowidInv
<1>2. CASE TxOverBudget
    <2>1. PICK u \in DOMAIN batch : sched' = RecordSent(sched, u, TRUE)
        BY <1>2 DEF TxOverBudget
    <2>2. u \in Unit
        BY DEF TypeOK, Table
    <2> QED BY <2>1, <2>2, RecordSentRowids
<1>3. CASE TxRecord
    <2>1. airing # None /\ sched' = RecordSent(sched, airing.unit, airing.retire)
        BY <1>3 DEF TxRecord
    <2>2. airing.unit \in Unit /\ airing.retire \in BOOLEAN
        BY <2>1 DEF Airing, TypeOK
    <2> QED BY <2>1, <2>2, RecordSentRowids
<1>4. ASSUME NEW h \in Handlers, RetireOlder(h) PROVE RowidInv'
    BY <1>4, RowidKeptByRemoval DEF RetireOlder
<1>5. CASE HousePurge
    BY <1>5, RowidKeptByRemoval DEF HousePurge
<1>6. CASE TxStart
    BY <1>6, RowidKeptByRemoval DEF TxStart
<1>7. CASE TxTick
    BY <1>7, RowidKeptByRemoval DEF TxTick
<1>8. ASSUME NEW i \in Items, DeleteItem(i) PROVE RowidInv'
    BY <1>8, RowidKeptByRemoval DEF DeleteItem
<1>9. ASSUME NEW u \in Unit, BecomeDue(u) \/ BecomeStale(u) PROVE RowidInv'
    <2>1. sched' = [sched EXCEPT ![u].due = TRUE] \/ sched' = [sched EXCEPT ![u].stale = TRUE]
        BY <1>9 DEF BecomeDue, BecomeStale
    <2>2. \A v \in DOMAIN sched : sched[v] \in Row
        BY DEF TypeOK, Table
    <2>3. DOMAIN sched' = DOMAIN sched
        BY <2>1
    <2>4. \A v \in DOMAIN sched : sched'[v].rowid = sched[v].rowid
        BY <2>1, <2>2 DEF Row
    <2> QED BY <2>3, <2>4, RowidKept
<1>10. ASSUME UNCHANGED sched PROVE RowidInv'
    BY <1>10 DEF RowidInv
<1>11. ASSUME NEW h \in Handlers, Finish(h) PROVE RowidInv'
    BY <1>10, <1>11 DEF Finish
<1>12. CASE Receive \/ ReceiveFails \/ HouseReconcile \/ HouseNextMissed
    BY <1>10, <1>12 DEF Receive, ReceiveFails, HouseReconcile, HouseNextMissed
<1>13. CASE TxManualAttempt \/ TxManualDelete \/ TxSnapshot \/ TxNotDue \/ TxAttempt
    BY <1>10, <1>13 DEF TxManualAttempt, TxManualDelete, TxSnapshot, TxNotDue, TxAttempt
<1>14. ASSUME NEW i \in Items, Rechunk(i) \/ Publish(i) \/ Retransmit(i) PROVE RowidInv'
    BY <1>10, <1>14 DEF Rechunk, Publish, Retransmit
<1>15. CASE MarkPublished \/ Lose \/ Second \/ Crash \/ PublisherCrash
    BY <1>10, <1>15 DEF MarkPublished, Lose, Second, Crash, PublisherCrash
<1>16. CASE SetType \/ SetEnabled \/ SetPolicy \/ SetQueueMax
    BY <1>10, <1>16 DEF SetType, SetEnabled, SetPolicy, SetQueueMax
<1>17. ASSUME NEW m \in Messages, EnqueueManual(m) PROVE RowidInv'
    BY <1>10, <1>17 DEF EnqueueManual
<1>18. CASE UNCHANGED vars
    BY <1>10, <1>18 DEF vars
<1> QED
    BY <1>1, <1>2, <1>3, <1>4, <1>5, <1>6, <1>7, <1>8, <1>9, <1>11, <1>12, <1>13, <1>14, <1>15,
       <1>16, <1>17, <1>18
    DEF Next, HandlerStep, HouseStep, TxStep, Operator, World

\* Drop-oldest drops the oldest: while a kind is within its cap, arming a unit drops
\* neither that unit nor a row younger than one it keeps.
THEOREM DropsTheOldest == Spec => TrimSparesTheNewest
<1> DEFINE Spares == \A h \in Handlers : AddRow(h) =>
               \A u \in Unit : /\ job[h] # None /\ u \in job[h].todo \ job'[h].todo
                               /\ Cardinality(OfKind(sched, u.kind)) <= job[h].max
                 => /\ u \in DOMAIN sched'
                    /\ \A v \in OfKind(sched, u.kind) \ DOMAIN sched', w \in OfKind(sched', u.kind) :
                          w \in DOMAIN sched => sched[v].rowid < sched[w].rowid
<1>1. Init => RowidInv
    <2>1. IsFiniteSet({})
        BY FS_EmptySet
    <2> QED BY <2>1 DEF Init, RowidInv
<1>2. TypeOK /\ RowidInv /\ [Next]_vars => [Spares]_vars
    <2> SUFFICES ASSUME TypeOK, RowidInv, NEW h \in Handlers, AddRow(h), NEW u \in Unit,
                        u \in job[h].todo \ job'[h].todo,
                        Cardinality(OfKind(sched, u.kind)) <= job[h].max
                 PROVE  /\ u \in DOMAIN sched'
                        /\ \A v \in OfKind(sched, u.kind) \ DOMAIN sched', w \in OfKind(sched', u.kind) :
                              w \in DOMAIN sched => sched[v].rowid < sched[w].rowid
        OBVIOUS
    <2>1. PICK a \in job[h].todo, due \in FirstDue :
             /\ a \in Unit /\ due \in BOOLEAN /\ job[h].eid \in Nat /\ job[h].max \in Nat /\ HasRoom(sched)
             /\ sched' = AddUnit(sched, a, job[h].eid, due, job[h].max)
             /\ job[h].todo \ job'[h].todo = {a}
        BY AddRowIsAddUnit
    <2>2. u = a
        BY <2>1
    <2> QED BY <2>1, <2>2, TrimDropsTheOldest
<1>3. Spec => []TypeOK /\ []RowidInv
    BY <1>1, TypeCorrect, RowidStep, PTL DEF Spec
<1> QED
    BY <1>2, <1>3, PTL DEF Spec, TrimSparesTheNewest, Spares
-----------------------------------------------------------------------------
(* The drain works through a list read at its tick, while messages arrive,  *)
(* the kind is switched and the process dies.  What keeps it a queue: the   *)
(* list holds the messages of one kind that are still in the table and that *)
(* nobody forgot an attempt of more often than it was made; and a message   *)
(* of that kind the list misses is younger than all it has.                 *)

Untried(m) == tried[m] <= relived[m]

DeskInv ==
    /\ \A m, n \in Messages : n < m /\ manual[m] # "new" => manual[n] # "new"
    /\ \A m \in Messages :
         manual[m] \in Kinds \cup {"new"} => IF sending = m THEN tried[m] <= relived[m] + 1 ELSE Untried(m)
    /\ manualList # {} \/ sending # None => txPc = "manual"
    /\ \A m \in manualList : manual[m] = txKind
    /\ sending # None => /\ manual[sending] = txKind
                         /\ \A n \in manualList : sending < n
    /\ txPc = "manual" /\ manualList # {} =>
         \A n \in Messages \ (manualList \cup {sending}) :
            manual[n] = txKind => \A m \in manualList : m < n

\* Steps of the other components leave the operator's messages alone.
LEMMA DeskKept ==
    ASSUME DeskInv, UNCHANGED <<manual, manualList, sending, tried, relived, txPc, txKind>>
    PROVE  DeskInv'
BY DEF DeskInv, Untried

\* A drain that has nothing to send may move on.
LEMMA DeskIdle ==
    ASSUME DeskInv, manualList = {}, sending = None,
           UNCHANGED <<manual, manualList, sending, tried, relived>>
    PROVE  DeskInv'
BY DEF DeskInv, Untried

LEMMA KindsAreLanes == "new" \notin Kinds /\ "gone" \notin Kinds
BY DEF Kinds

\* Every step keeps DeskInv, and is a step of the queue or no step of it.
LEMMA DeskStep ==
    TypeOK /\ DeskInv /\ [Next]_vars => DeskInv' /\ [Outbox!Next]_(Outbox!vars)
<1> SUFFICES ASSUME TypeOK, DeskInv, [Next]_vars PROVE DeskInv' /\ [Outbox!Next]_(Outbox!vars)
    OBVIOUS
<1> USE DEF settings, tables, broker, audit, house, transmit, desk, history
<1> USE MessageAssumption, NoneAssumption
<1>a. ASSUME UNCHANGED <<desk, txPc, txKind>> PROVE DeskInv' /\ [Outbox!Next]_(Outbox!vars)
    BY <1>a, DeskKept DEF Outbox!vars
<1>1. ASSUME NEW h \in Handlers, HandlerStep(h) PROVE DeskInv' /\ [Outbox!Next]_(Outbox!vars)
    BY <1>a, <1>1 DEF HandlerStep, RetireOlder, AddRow, Finish
<1>2. CASE Receive \/ ReceiveFails \/ HouseStep
    BY <1>a, <1>2 DEF Receive, ReceiveFails, HouseStep, HouseReconcile, HouseNextMissed, HousePurge
<1>3. CASE TxStart
    <2>1. manualList = {} /\ sending = None
        BY <1>3 DEF TxStart, DeskInv
    <2> QED
        BY <1>3, <2>1, DeskIdle DEF TxStart, Outbox!vars
<1>4. CASE TxTick
    <2>1. manualList = {} /\ sending = None /\ UNCHANGED <<manual, sending, tried, relived>>
        BY <1>4 DEF TxTick, DeskInv
    <2>2. CASE enabled
        <3>1. txPc' = "manual" /\ txKind' = beaconType
              /\ manualList' = {m \in Messages : manual[m] = beaconType}
            BY <1>4, <2>2 DEF TxTick
        <3> QED
            BY <2>1, <3>1 DEF DeskInv, Untried, Outbox!vars
    <2>3. CASE ~enabled
        BY <1>4, <2>1, <2>3, DeskIdle DEF TxTick, Outbox!vars
    <2> QED
        BY <2>2, <2>3
<1>5. CASE TxManualAttempt
    <2>1. PICK m \in manualList : /\ \A n \in manualList : m <= n
                                  /\ sending' = m
                                  /\ manualList' = manualList \ {m}
                                  /\ tried' = [tried EXCEPT ![m] = @ + 1]
        BY <1>5 DEF TxManualAttempt
    <2>2. /\ txPc = "manual" /\ sending = None /\ UNCHANGED <<manual, relived, txPc, txKind>>
          /\ m \in Messages /\ m \in Nat /\ txKind \in Kinds
        BY <1>5 DEF TxManualAttempt, TypeOK
    <2>3. manual[m] = txKind /\ tried[m] <= relived[m]
        BY <2>1, <2>2 DEF DeskInv, Untried
    <2>4. \A i \in Messages : manual[i] = manual[m] => m <= i
        BY <2>1, <2>2, <2>3 DEF DeskInv
    <2>5. Outbox!Take(m)
        BY <2>1, <2>2, <2>3, <2>4 DEF Outbox!Take, Outbox!First
    <2>6. DeskInv'
        <3>1. \A n \in Messages : n # m => tried'[n] = tried[n]
            BY <2>1 DEF TypeOK
        <3>2. tried'[m] = tried[m] + 1
            BY <2>1, <2>2 DEF TypeOK
        <3>3. \A n \in manualList' : m < n
            BY <2>1 DEF TypeOK
        <3>4. m # None
            BY <2>2
        <3>5. \A n \in Messages : manual'[n] \in Kinds \cup {"new"} =>
                 IF sending' = n THEN tried'[n] <= relived'[n] + 1 ELSE tried'[n] <= relived'[n]
            BY <2>1, <2>2, <2>3, <3>1, <3>2 DEF DeskInv, Untried, TypeOK
        <3>6. \A n \in Messages \ (manualList' \cup {sending'}) :
                 manual'[n] = txKind' => \A k \in manualList' : k < n
            BY <2>1, <2>2 DEF DeskInv
        <3> QED
            BY <2>1, <2>2, <2>3, <3>3, <3>4, <3>5, <3>6 DEF DeskInv, Untried
    <2> QED
        BY <2>2, <2>5, <2>6 DEF Outbox!Next
<1>6. CASE TxManualDelete
    <2>1. /\ sending # None /\ sending \in Messages /\ sending' = None
          /\ manual' = [manual EXCEPT ![sending] = "gone"]
          /\ UNCHANGED <<manualList, tried, relived, txPc, txKind>>
        BY <1>6 DEF TxManualDelete, TypeOK
    <2>2. Outbox!Next
        BY <2>1 DEF Outbox!Next, Outbox!Settle
    <2>3. manual'[sending] = "gone" /\ \A n \in Messages : n # sending => manual'[n] = manual[n]
        BY <2>1 DEF TypeOK
    <2>4. sending \notin manualList /\ txKind \in Kinds /\ sending \in Nat
        BY <2>1 DEF DeskInv, TypeOK
    <2>5. DeskInv'
        BY <2>1, <2>3, <2>4, KindsAreLanes DEF DeskInv, Untried, TypeOK
    <2> QED
        BY <2>2, <2>5
<1>7. CASE TxSnapshot
    BY <1>7, DeskIdle DEF TxSnapshot, Outbox!vars
<1>8. CASE TxOverBudget \/ TxNotDue \/ TxAttempt \/ TxRecord
    BY <1>a, <1>8 DEF TxOverBudget, TxNotDue, TxAttempt, TxRecord
<1>9. ASSUME NEW m \in Messages, EnqueueManual(m) PROVE DeskInv' /\ [Outbox!Next]_(Outbox!vars)
    <2>1. PICK k \in Kinds : manual' = [manual EXCEPT ![m] = k]
        BY <1>9 DEF EnqueueManual
    <2>2. /\ manual[m] = "new" /\ \A n \in Messages : n < m => manual[n] # "new"
          /\ UNCHANGED <<manualList, sending, tried, relived, txPc, txKind>>
        BY <1>9 DEF EnqueueManual
    <2>3. Outbox!Offer(m)
        BY <2>1, <2>2 DEF Outbox!Offer
    <2>4. manual'[m] = k /\ \A n \in Messages : n # m => manual'[n] = manual[n]
        BY <2>1 DEF TypeOK
    <2>5. k # "new" /\ txKind # "new" /\ manualList \subseteq Messages
        BY KindsAreLanes DEF TypeOK
    <2>6. m # sending /\ m \notin manualList
        BY <2>2, <2>5 DEF DeskInv
    <2>7. \A n \in manualList : n < m
        <3> SUFFICES ASSUME NEW n \in manualList PROVE n < m
            OBVIOUS
        <3>1. n \in Nat /\ m \in Nat /\ n # m /\ manual[n] # "new"
            BY <2>5, <2>6 DEF DeskInv
        <3> QED
            BY <2>2, <2>5, <3>1 DEF DeskInv
    <2>8. \A n, l \in Messages : l < n /\ manual'[n] # "new" => manual'[l] # "new"
        BY <2>2, <2>4, <2>5 DEF DeskInv
    <2>9. \A n \in Messages : manual'[n] \in Kinds \cup {"new"} =>
             IF sending = n THEN tried[n] <= relived[n] + 1 ELSE tried[n] <= relived[n]
        BY <2>2, <2>4 DEF DeskInv, Untried
    <2>10. DeskInv'
        <3>1. /\ \A n \in manualList : manual'[n] = txKind
              /\ sending # None => manual'[sending] = txKind
            BY <2>4, <2>5, <2>6 DEF DeskInv, TypeOK
        <3>2. txPc = "manual" /\ manualList # {} =>
                \A n \in Messages \ (manualList \cup {sending}) :
                   manual'[n] = txKind => \A l \in manualList : l < n
            BY <2>4, <2>7 DEF DeskInv
        <3> QED
            BY <2>2, <2>8, <2>9, <3>1, <3>2 DEF DeskInv, Untried
    <2> QED
        BY <2>3, <2>10 DEF Outbox!Next
<1>10. CASE Crash
    <2>1. /\ manualList' = {} /\ sending' = None /\ UNCHANGED <<manual, tried>>
          /\ relived' = [m \in Messages |-> IF m = sending THEN relived[m] + 1 ELSE relived[m]]
        BY <1>10 DEF Crash
    <2>2. DeskInv'
        BY <2>1 DEF DeskInv, Untried, TypeOK
    <2>3. CASE sending = None
        <3>1. relived' = relived
            BY <2>1, <2>3 DEF TypeOK
        <3> QED
            BY <2>1, <2>2, <2>3, <3>1 DEF Outbox!vars
    <2>4. CASE sending # None
        <3>1. relived' = [relived EXCEPT ![sending] = @ + 1]
            BY <2>1 DEF TypeOK
        <3> QED
            BY <2>1, <2>2, <2>4, <3>1 DEF Outbox!Next, Outbox!Forget
    <2> QED
        BY <2>3, <2>4
<1>11. ASSUME NEW i \in Items, Retransmit(i) \/ DeleteItem(i) \/ Rechunk(i) \/ Publish(i)
       PROVE DeskInv' /\ [Outbox!Next]_(Outbox!vars)
    BY <1>a, <1>11 DEF Retransmit, DeleteItem, Rechunk, Publish
<1>12. CASE SetType \/ SetEnabled \/ SetPolicy \/ SetQueueMax
    BY <1>a, <1>12 DEF SetType, SetEnabled, SetPolicy, SetQueueMax
<1>13. CASE MarkPublished \/ Lose \/ Second \/ PublisherCrash
    BY <1>a, <1>13 DEF MarkPublished, Lose, Second, PublisherCrash
<1>14. ASSUME NEW u \in Unit, BecomeDue(u) \/ BecomeStale(u)
       PROVE DeskInv' /\ [Outbox!Next]_(Outbox!vars)
    BY <1>a, <1>14 DEF BecomeDue, BecomeStale
<1>15. CASE UNCHANGED vars
    BY <1>a, <1>15 DEF vars
<1> QED
    BY <1>1, <1>2, <1>3, <1>4, <1>5, <1>6, <1>7, <1>8, <1>9, <1>10, <1>11, <1>12, <1>13, <1>14, <1>15
    DEF Next, TxStep, Operator, World

\* A start of the program is a start of the queue.
LEMMA DeskStart == Init => DeskInv /\ Outbox!Init
BY KindsAreLanes DEF Init, DeskInv, Untried, Outbox!Init, Kinds

\* The manual messages are attempted one at a time, in the order they were typed for their
\* kind, and again only when a crash fell between an attempt and its delete: the program
\* implements Delivery.
THEOREM DeskImplementsDelivery == Spec => ManualDelivery
<1>1. TypeOK /\ DeskInv /\ [Next]_vars => DeskInv'
    BY DeskStep
<1>2. TypeOK /\ DeskInv /\ [Next]_vars => [Outbox!Next]_(Outbox!vars)
    BY DeskStep
<1> QED
    BY <1>1, <1>2, DeskStart, TypeCorrect, PTL DEF Spec, ManualDelivery, Outbox!Spec
=============================================================================
