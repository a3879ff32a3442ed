-------------------------- MODULE DispatcherProofs --------------------------
(***************************************************************************)
(* What holds of the dispatcher for every set of items, policies, dates    *)
(* and scenarios: type correctness, that an item is handed on at most once *)
(* for each time it is armed, that the watermark skips nothing, and that   *)
(* an item is armed at most once for each reason to.                       *)
(***************************************************************************)
EXTENDS Dispatcher, FiniteSetTheorems, WellFoundedInduction, TLAPS

-----------------------------------------------------------------------------
(* Rowids. *)

\* A set of numbers has a least one.
LEMMA Least ==
    ASSUME NEW T, T \subseteq Nat, T # {} PROVE \E m \in T : \A n \in T : m <= n
<1> DEFINE R == {ss \in Nat \X Nat : ss[1] < ss[2]}
<1>1. R = OpToRel(<, Nat)
    BY Zenon DEF OpToRel
<1>2. IsWellFoundedOn(R, Nat)
    BY <1>1, NatLessThanWellFounded, Zenon
<1> HIDE DEF R
<1>3. PICK m \in T : \A n \in T : ~(<<n, m>> \in R)
    BY <1>2, WFMin
<1>4. \A n \in T : ~(n < m)
    BY <1>3 DEF R
<1> QED BY <1>4

\* There is a largest rowid, because there is a bound on all of them.
Bounded == \E n \in Nat : \A i \in DOMAIN items : items[i].rowid <= n

LEMMA HighRowid ==
    ASSUME PartialOn(items, Items, ItemRow), Bounded
    PROVE  /\ RowidHigh \in Nat /\ \A i \in DOMAIN items : items[i].rowid <= RowidHigh
           /\ NextRowid \in Nat \ {0} /\ \A i \in DOMAIN items : items[i].rowid < NextRowid
<1> DEFINE bounds == {n \in Nat : \A i \in DOMAIN items : items[i].rowid <= n}
           rowids == {0} \cup {items[i].rowid : i \in DOMAIN items}
<1>1. \A i \in DOMAIN items : items[i].rowid \in Nat \ {0}
    BY DEF PartialOn, ItemRow
<1>2. PICK m \in bounds : \A n \in bounds : m <= n
    <2>1. bounds \subseteq Nat /\ bounds # {}
        BY DEF Bounded
    <2> HIDE DEF bounds
    <2> QED BY <2>1, Least
<1>3. m \in rowids
    <2> SUFFICES ASSUME m \notin rowids PROVE FALSE
        OBVIOUS
    <2>1. m # 0 /\ m \in Nat /\ \A i \in DOMAIN items : items[i].rowid <= m /\ items[i].rowid # m
        BY <1>2
    <2>2. m - 1 \in bounds
        BY <1>1, <2>1
    <2>3. m <= m - 1
        BY <1>2, <2>2
    <2> QED BY <2>1, <2>3
<1>4. m \in Nat /\ \A i \in DOMAIN items : items[i].rowid <= m
    BY <1>2
<1>5. RowidHigh \in rowids /\ \A i \in DOMAIN items : items[i].rowid <= RowidHigh
    BY <1>3, <1>4 DEF RowidHigh
<1> QED BY <1>1, <1>5 DEF NextRowid

-----------------------------------------------------------------------------
(* Type correctness. *)

TablesOK == /\ PartialOn(items, Items, ItemRow) /\ PartialOn(baseline, Items, Policies)
            /\ mark \in Nat \cup {NoMark} /\ armed \subseteq Items
            /\ \A i, j \in DOMAIN items : items[i].rowid = items[j].rowid => i = j
PassOK   == /\ PartialOn(found, Items, ItemRow) /\ PartialOn(drifted, Items, Policies)
            /\ PartialOn(due, Items, Policies) /\ epoch \in Nat /\ cur \in Items \cup {None}
            /\ pc \in {"down", "idle", "discover", "marking", "baseline", "sync", "drift", "dispatch", "retire"}
            /\ pc \in {"marking", "retire"} <=> cur # None
            /\ pc = "marking" => cur \in DOMAIN found
CountsOK == /\ arms \in [Items -> Nat] /\ causes \in [Items -> Nat]
            /\ deliveries \in [Items -> Nat] /\ redone \in [Items -> Nat]
LooksOK  == /\ delivered \in [Items -> Policies \cup {None}] /\ known \subseteq Items
            /\ reused \subseteq Items /\ fuel \in [Steps -> Nat]

LEMMA TypeParts == TypeOK <=> TablesOK /\ PassOK /\ CountsOK /\ LooksOK
BY DEF TypeOK, TablesOK, PassOK, CountsOK, LooksOK

LEMMA TypePartsNext == TablesOK' /\ PassOK' /\ CountsOK' /\ LooksOK' => TypeOK'
BY DEF TypeOK, TablesOK, PassOK, CountsOK, LooksOK

LEMMA InitType == Init => TypeOK /\ Bounded
<1> SUFFICES ASSUME Init PROVE TypeOK /\ Bounded
    OBVIOUS
<1>1. PICK s \in Scenarios : /\ fuel = s.fuel
                             /\ \E r \in Bijection(s.backlog, 1 .. Cardinality(s.backlog)) :
                                  items = [i \in s.backlog |-> [rowid |-> r[i], policy |-> Default]]
    BY DEF Init
<1> DEFINE n == Cardinality(s.backlog)
<1>2. PICK r \in Bijection(s.backlog, 1 .. n) : items = [i \in s.backlog |-> [rowid |-> r[i], policy |-> Default]]
    BY <1>1
<1>3. n \in Nat
    BY BacklogAssumption, FS_CardinalityType
<1>4. s.backlog \subseteq Items /\ s.fuel \in [Steps -> Nat]
    BY FuelAssumption DEF Scenario
<1> HIDE DEF n
<1>5. r \in [s.backlog -> 1 .. n] /\ \A i, j \in s.backlog : r[i] = r[j] => i = j
    BY DEF Bijection, Injection, IsInjective
<1>6. /\ DOMAIN items = s.backlog
      /\ \A i \in s.backlog : items[i].rowid = r[i] /\ r[i] \in 1 .. n /\ items[i] \in ItemRow
    BY <1>2, <1>3, <1>5, DefaultAssumption DEF ItemRow
<1>8. PartialOn(items, Items, ItemRow) /\ Bounded
    <2>1. items = [i \in DOMAIN items |-> items[i]]
        BY <1>2
    <2>2. items \in [DOMAIN items -> ItemRow]
        BY <1>6, <2>1
    <2> QED BY <1>3, <1>4, <1>6, <2>2 DEF PartialOn, Bounded
<1>9. TablesOK
    <2>1. \A i, j \in DOMAIN items : items[i].rowid = items[j].rowid => i = j
        BY <1>5, <1>6
    <2> QED BY <1>8, <2>1 DEF Init, TablesOK, PartialOn
<1>7. PassOK /\ CountsOK /\ LooksOK
    BY <1>1, <1>4 DEF Init, PassOK, CountsOK, LooksOK, PartialOn
<1> QED BY <1>7, <1>8, <1>9, TypeParts

\* Arming counts.
LEMMA ArmType ==
    ASSUME CountsOK, armed \subseteq Items, NEW i \in Items, Arm(i)
    PROVE  arms' \in [Items -> Nat] /\ armed' \subseteq Items
BY DEF CountsOK, Arm

LEMMA RestrictType ==
    ASSUME NEW f, NEW D, NEW R, PartialOn(f, D, R), NEW S, S \subseteq DOMAIN f
    PROVE  PartialOn(Restrict(f, S), D, R) /\ DOMAIN Restrict(f, S) = S /\ \A i \in S : Restrict(f, S)[i] = f[i]
BY DEF PartialOn, Restrict

LEMMA PolicyType ==
    ASSUME PartialOn(items, Items, ItemRow), NEW S, S \subseteq DOMAIN items
    PROVE  PartialOn(Restrict(PolicyOf(items), S), Items, Policies) /\ DOMAIN Restrict(PolicyOf(items), S) = S
BY DEF PartialOn, Restrict, PolicyOf, ItemRow

\* The steps of discover_new_items.
LEMMA DiscoverType ==
    ASSUME TypeOK, Bounded,
           Start \/ FirstLook \/ Discover \/ DiscoverArm \/ DiscoverMark \/ DiscoverEnd
    PROVE  TypeOK'
<1>1. TablesOK /\ PassOK /\ CountsOK /\ LooksOK
    BY TypeParts
<1>2. CASE Start
    BY <1>1, <1>2, TypePartsNext DEF Start, tables, history, TablesOK, PassOK, CountsOK, LooksOK
<1>3. CASE FirstLook
    <2>1. RowidHigh \in Nat
        BY <1>1, HighRowid DEF TablesOK
    <2>2. TablesOK'
        BY <1>1, <1>3, <2>1 DEF FirstLook, TablesOK
    <2>3. PassOK' /\ CountsOK' /\ LooksOK'
        BY <1>1, <1>3 DEF FirstLook, pass, TablesOK, PassOK, CountsOK, LooksOK, PartialOn
    <2> QED BY <2>2, <2>3, TypePartsNext
<1>4. CASE Discover
    <2>1. PartialOn(found', Items, ItemRow)
        BY <1>1, <1>4, RestrictType DEF Discover, TablesOK
    <2>2. PassOK'
        BY <1>1, <1>4, <2>1 DEF Discover, PassOK
    <2>3. TablesOK' /\ CountsOK' /\ LooksOK'
        BY <1>1, <1>4 DEF Discover, tables, history, TablesOK, CountsOK, LooksOK
    <2> QED BY <2>2, <2>3, TypePartsNext
<1>5. CASE DiscoverArm
    <2>1. PICK i \in Items : /\ i \in DOMAIN found /\ cur' = i /\ known' = known \cup {i}
                             /\ UNCHANGED <<armed, arms>> \/ Arm(i)
        BY <1>5 DEF DiscoverArm, NextFound
    <2>2. arms' \in [Items -> Nat] /\ armed' \subseteq Items
        BY <1>1, <2>1, ArmType DEF CountsOK, TablesOK
    <2>3. PassOK'
        BY <1>1, <1>5, <2>1, NoItemAssumption DEF DiscoverArm, PassOK
    <2>4. TablesOK' /\ CountsOK' /\ LooksOK'
        BY <1>1, <1>5, <2>1, <2>2 DEF DiscoverArm, TablesOK, CountsOK, LooksOK
    <2> QED BY <2>3, <2>4, TypePartsNext
<1>6. CASE DiscoverMark
    <2>1. cur \in DOMAIN found /\ found[cur] \in ItemRow /\ cur \in Items
        BY <1>1, <1>6 DEF DiscoverMark, PassOK, PartialOn
    <2>2. PartialOn(baseline', Items, Policies)
        BY <1>1, <1>6, <2>1 DEF DiscoverMark, TablesOK, PartialOn, ItemRow
    <2>3. TablesOK'
        BY <1>1, <1>6, <2>1, <2>2 DEF DiscoverMark, TablesOK, ItemRow
    <2>4. PartialOn(found', Items, ItemRow)
        BY <1>1, <1>6, RestrictType DEF DiscoverMark, PassOK
    <2>5. PassOK'
        BY <1>1, <1>6, <2>4 DEF DiscoverMark, PassOK
    <2>6. CountsOK' /\ LooksOK'
        BY <1>1, <1>6 DEF DiscoverMark, history, CountsOK, LooksOK
    <2> QED BY <2>3, <2>5, <2>6, TypePartsNext
<1>7. CASE DiscoverEnd
    BY <1>1, <1>7, TypePartsNext DEF DiscoverEnd, tables, history, TablesOK, PassOK, CountsOK, LooksOK
<1> QED BY <1>2, <1>3, <1>4, <1>5, <1>6, <1>7

\* The steps of sync_policy_changes and dispatch_due_items.
LEMMA DispatchType ==
    ASSUME TypeOK, Baseline \/ SyncRead \/ SyncArm \/ DispatchRead \/ Deliver \/ Retire \/ PassEnd
    PROVE  TypeOK'
<1>1. TablesOK /\ PassOK /\ CountsOK /\ LooksOK
    BY TypeParts
<1>2. CASE Baseline
    <2>1. PartialOn(baseline', Items, Policies)
        BY <1>1, <1>2 DEF Baseline, TablesOK, PartialOn, ItemRow
    <2>2. TablesOK' /\ PassOK'
        BY <1>1, <1>2, <2>1 DEF Baseline, TablesOK, PassOK
    <2>3. CountsOK' /\ LooksOK'
        BY <1>1, <1>2 DEF Baseline, history, CountsOK, LooksOK
    <2> QED BY <2>2, <2>3, TypePartsNext
<1>3. CASE SyncRead
    <2>1. PartialOn(drifted', Items, Policies)
        BY <1>1, <1>3, PolicyType DEF SyncRead, TablesOK, HasDrifted
    <2>2. PassOK'
        BY <1>1, <1>3, <2>1 DEF SyncRead, PassOK
    <2>3. TablesOK' /\ CountsOK' /\ LooksOK'
        BY <1>1, <1>3 DEF SyncRead, tables, history, TablesOK, CountsOK, LooksOK
    <2> QED BY <2>2, <2>3, TypePartsNext
<1>4. CASE SyncArm
    <2>1. PICK i \in DOMAIN drifted :
            /\ Arm(i) /\ baseline' = [j \in DOMAIN baseline |-> IF j = i THEN drifted[i] ELSE baseline[j]]
            /\ drifted' = Restrict(drifted, DOMAIN drifted \ {i})
        BY <1>4 DEF SyncArm
    <2>2. i \in Items /\ drifted[i] \in Policies
        BY <1>1 DEF PassOK, PartialOn
    <2>3. PartialOn(baseline', Items, Policies)
        BY <1>1, <2>1, <2>2 DEF TablesOK, PartialOn
    <2>6. PartialOn(drifted', Items, Policies)
        BY <1>1, <2>1, RestrictType DEF PassOK
    <2>4. arms' \in [Items -> Nat] /\ armed' \subseteq Items
        BY <1>1, <2>1, <2>2, ArmType DEF TablesOK
    <2>5. TablesOK' /\ PassOK' /\ CountsOK' /\ LooksOK'
        BY <1>1, <1>4, <2>3, <2>4, <2>6 DEF SyncArm, TablesOK, PassOK, CountsOK, LooksOK
    <2> QED BY <2>5, TypePartsNext
<1>5. CASE DispatchRead
    <2>1. PartialOn(due', Items, Policies)
        BY <1>1, <1>5, PolicyType DEF DispatchRead, TablesOK
    <2>2. PassOK'
        BY <1>1, <1>5, <2>1 DEF DispatchRead, PassOK
    <2>3. TablesOK' /\ CountsOK' /\ LooksOK'
        BY <1>1, <1>5 DEF DispatchRead, tables, history, TablesOK, CountsOK, LooksOK
    <2> QED BY <2>2, <2>3, TypePartsNext
<1>6. CASE Deliver
    <2>1. PICK i \in DOMAIN due :
            /\ cur' = i /\ deliveries' = [deliveries EXCEPT ![i] = @ + 1]
            /\ delivered' = [delivered EXCEPT ![i] = due[i]] /\ due' = Restrict(due, DOMAIN due \ {i})
        BY <1>6 DEF Deliver
    <2>2. i \in Items /\ due[i] \in Policies
        BY <1>1 DEF PassOK, PartialOn
    <2>3. PartialOn(due', Items, Policies)
        BY <1>1, <2>1, RestrictType DEF PassOK
    <2>4. PassOK'
        BY <1>1, <1>6, <2>1, <2>2, <2>3, NoItemAssumption DEF Deliver, PassOK
    <2>5. TablesOK' /\ CountsOK' /\ LooksOK'
        BY <1>1, <1>6, <2>1, <2>2 DEF Deliver, tables, TablesOK, CountsOK, LooksOK
    <2> QED BY <2>4, <2>5, TypePartsNext
<1>7. CASE Retire \/ PassEnd
    BY <1>1, <1>7, TypePartsNext DEF Retire, PassEnd, tables, history, TablesOK, PassOK, CountsOK, LooksOK
<1> QED BY <1>2, <1>3, <1>4, <1>5, <1>6, <1>7

\* The steps of the rest of the system.
LEMMA WorldType == ASSUME TypeOK, Bounded, World PROVE TypeOK'
<1>1. TablesOK /\ PassOK /\ CountsOK /\ LooksOK
    BY TypeParts
<1>2. ASSUME NEW i \in Items, Store(i) PROVE TypeOK'
    <2>1. NextRowid \in Nat \ {0} /\ \A j \in DOMAIN items : items[j].rowid < NextRowid
        BY <1>1, HighRowid DEF TablesOK
    <2>2. /\ i \notin DOMAIN items
          /\ items' = [j \in DOMAIN items \cup {i} |->
                          IF j = i THEN [rowid |-> NextRowid, policy |-> Default] ELSE items[j]]
        BY <1>2 DEF Store
    <2> HIDE DEF NextRowid
    <2>3. /\ DOMAIN items' = DOMAIN items \cup {i} /\ items'[i].rowid = NextRowid
          /\ \A j \in DOMAIN items : items'[j] = items[j]
        BY <2>2
    <2>4. PartialOn(items', Items, ItemRow)
        BY <1>1, <2>1, <2>2, DefaultAssumption DEF TablesOK, PartialOn, ItemRow
    <2>5. \A j \in DOMAIN items : items[j].rowid # NextRowid
        BY <1>1, <2>1 DEF TablesOK, PartialOn, ItemRow
    <2>6. \A j, k \in DOMAIN items' : items'[j].rowid = items'[k].rowid => j = k
        BY <1>1, <2>2, <2>3, <2>5 DEF TablesOK
    <2>7. TablesOK'
        BY <1>1, <1>2, <2>4, <2>6 DEF Store, TablesOK
    <2>8. PassOK'
        BY <1>1, <1>2 DEF Store, pass, PassOK
    <2>9. CountsOK' /\ LooksOK'
        BY <1>1, <1>2 DEF Store, Spend, CountsOK, LooksOK, Steps
    <2> QED BY <2>7, <2>8, <2>9, TypePartsNext
<1>3. ASSUME NEW i \in Items, NEW p \in Policies, Override(i, p) PROVE TypeOK'
    <2>1. /\ items' = [items EXCEPT ![i].policy = p] /\ i \in DOMAIN items
        BY <1>3 DEF Override
    <2>2. PartialOn(items', Items, ItemRow) /\ DOMAIN items' = DOMAIN items
          /\ \A j \in DOMAIN items : items'[j].rowid = items[j].rowid
        BY <1>1, <2>1 DEF TablesOK, PartialOn, ItemRow
    <2>3. TablesOK'
        BY <1>1, <1>3, <2>2 DEF Override, TablesOK
    <2>4. PassOK' /\ CountsOK' /\ LooksOK'
        BY <1>1, <1>3 DEF Override, Spend, pass, PassOK, CountsOK, LooksOK, Steps
    <2> QED BY <2>3, <2>4, TypePartsNext
<1>4. ASSUME NEW i \in Items, Rearm(i) PROVE TypeOK'
    <2>1. arms' \in [Items -> Nat] /\ armed' \subseteq Items
        BY <1>1, <1>4, ArmType DEF Rearm, TablesOK
    <2>2. TablesOK' /\ PassOK'
        BY <1>1, <1>4, <2>1 DEF Rearm, pass, TablesOK, PassOK
    <2> DEFINE counted == causes' = [causes EXCEPT ![i] = @ + 1] /\ UNCHANGED <<deliveries, redone>>
               spent   == Spend("rearm") /\ UNCHANGED <<delivered, known, reused>>
    <2>3. counted /\ spent
        BY <1>4 DEF Rearm
    <2>4. CountsOK'
        BY <1>1, <2>1, <2>3 DEF CountsOK
    <2>5. LooksOK'
        BY <1>1, <2>3 DEF Spend, LooksOK, Steps
    <2> QED BY <2>2, <2>4, <2>5, TypePartsNext
<1>5. ASSUME NEW i \in Items, Reset(i) PROVE TypeOK'
    <2>1. PartialOn(baseline', Items, Policies)
        BY <1>1, <1>5, RestrictType DEF Reset, TablesOK
    <2>2. TablesOK' /\ PassOK' /\ CountsOK' /\ LooksOK'
        BY <1>1, <1>5, <2>1 DEF Reset, Spend, pass, history, TablesOK, PassOK, CountsOK, LooksOK, Steps
    <2> QED BY <2>2, TypePartsNext
<1>6. ASSUME NEW i \in Items, Delete(i) PROVE TypeOK'
    <2>1. /\ PartialOn(items', Items, ItemRow) /\ PartialOn(baseline', Items, Policies)
          /\ DOMAIN items' \subseteq DOMAIN items /\ \A j \in DOMAIN items' : items'[j] = items[j]
        BY <1>1, <1>6, RestrictType DEF Delete, TablesOK
    <2>2. TablesOK'
        <3>1. mark' = mark /\ armed' \subseteq armed
            BY <1>6 DEF Delete
        <3>2. \A j, k \in DOMAIN items' : items'[j].rowid = items'[k].rowid => j = k
            <4> TAKE j, k \in DOMAIN items'
            <4>1. j \in DOMAIN items /\ k \in DOMAIN items /\ items'[j] = items[j] /\ items'[k] = items[k]
                BY <2>1
            <4> QED BY <1>1, <4>1 DEF TablesOK
        <3> QED BY <1>1, <2>1, <3>1, <3>2 DEF TablesOK
    <2>3. PassOK' /\ CountsOK' /\ LooksOK'
        BY <1>1, <1>6 DEF Delete, Spend, pass, PassOK, CountsOK, LooksOK, Steps
    <2> QED BY <2>2, <2>3, TypePartsNext
<1>7. CASE Crash
    <2>1. TablesOK' /\ PassOK'
        BY <1>1, <1>7 DEF Crash, tables, TablesOK, PassOK, PartialOn
    <2>2. CountsOK' /\ LooksOK'
        BY <1>1, <1>7 DEF Crash, Spend, CountsOK, LooksOK, Steps
    <2> QED BY <2>1, <2>2, TypePartsNext
<1> QED BY <1>2, <1>3, <1>4, <1>5, <1>6, <1>7 DEF World

\* Steps that store nothing leave the rowids as they are.
LEMMA RowidsStay ==
    ASSUME TypeOK, [Next]_vars, ~ \E i \in Items : Store(i)
    PROVE  DOMAIN items' \subseteq DOMAIN items /\ \A i \in DOMAIN items' : items'[i].rowid = items[i].rowid
<1>1. PartialOn(items, Items, ItemRow)
    BY DEF TypeOK
<1>2. CASE UNCHANGED items
    BY <1>2
<1>3. ASSUME NEW i \in Items, NEW p \in Policies, Override(i, p)
      PROVE  DOMAIN items' = DOMAIN items /\ \A j \in DOMAIN items' : items'[j].rowid = items[j].rowid
    BY <1>1, <1>3 DEF Override, PartialOn, ItemRow
<1>4. ASSUME NEW i \in Items, Delete(i)
      PROVE  DOMAIN items' \subseteq DOMAIN items /\ \A j \in DOMAIN items' : items'[j].rowid = items[j].rowid
    BY <1>4 DEF Delete, Restrict
<1>5. ASSUME Poll \/ Crash \/ UNCHANGED vars PROVE UNCHANGED items
    BY <1>5 DEF Poll, Start, FirstLook, Discover, DiscoverArm, DiscoverMark, DiscoverEnd, Baseline, SyncRead, SyncArm,
        DispatchRead, Deliver, Retire, PassEnd, Crash, vars, tables
<1>6. ASSUME NEW i \in Items, Rearm(i) \/ Reset(i) PROVE UNCHANGED items
    BY <1>6 DEF Rearm, Reset
<1> QED BY <1>2, <1>3, <1>4, <1>5, <1>6 DEF Next, World

LEMMA BoundedStep == TypeOK /\ Bounded /\ [Next]_vars => Bounded'
<1> SUFFICES ASSUME TypeOK, Bounded, [Next]_vars PROVE Bounded'
    OBVIOUS
<1>1. ASSUME NEW i \in Items, Store(i) PROVE Bounded'
    <2>1. /\ NextRowid \in Nat /\ \A j \in DOMAIN items : items[j].rowid \in Nat /\ items[j].rowid < NextRowid
        BY HighRowid DEF TypeOK, PartialOn, ItemRow
    <2>2. items' = [j \in DOMAIN items \cup {i} |->
                       IF j = i THEN [rowid |-> NextRowid, policy |-> Default] ELSE items[j]]
        BY <1>1 DEF Store
    <2> HIDE DEF NextRowid
    <2>3. \A j \in DOMAIN items' : items'[j].rowid <= NextRowid
        BY <2>1, <2>2
    <2> QED BY <2>1, <2>3 DEF Bounded
<1>2. CASE ~ \E i \in Items : Store(i)
    BY <1>2, RowidsStay DEF Bounded
<1> QED BY <1>1, <1>2

LEMMA TypeStep == TypeOK /\ Bounded /\ [Next]_vars => TypeOK'
<1> SUFFICES ASSUME TypeOK, Bounded, [Next]_vars PROVE TypeOK'
    OBVIOUS
<1>1. CASE UNCHANGED vars
    BY <1>1 DEF TypeOK, vars, tables, pass, history
<1>2. CASE Poll
    BY <1>2, DiscoverType, DispatchType DEF Poll
<1>3. CASE World
    BY <1>3, WorldType
<1> QED BY <1>1, <1>2, <1>3 DEF Next

LEMMA Inductive == Spec => [](TypeOK /\ Bounded)
<1>1. TypeOK /\ Bounded /\ [Next]_vars => TypeOK' /\ Bounded'
    BY TypeStep, BoundedStep
<1> QED BY <1>1, InitType, PTL DEF Spec

\* The tables and the pass keep their types, and no two items have one rowid.
THEOREM TypeCorrect == Spec => []TypeOK
BY Inductive, PTL

-----------------------------------------------------------------------------
(* Delivered once per arming. *)

\* An item that is armed, or that the pass has read as armed, has an arming to spare, but for
\* the one in hand.
ToSpare(i) == (i \in armed /\ ~(pc = "retire" /\ cur = i)) \/ i \in DOMAIN due
DeliverInv ==
    /\ pc = "retire" => cur \notin DOMAIN due
    /\ \A i \in Items : deliveries[i] <= arms[i] + redone[i]
    /\ \A i \in Items : ToSpare(i) => deliveries[i] + 1 <= arms[i] + redone[i]

LEMMA DeliverStart == Init => DeliverInv
<1> SUFFICES ASSUME Init PROVE DeliverInv
    OBVIOUS
<1>1. armed = {} /\ due = <<>> /\ pc = "down" /\ \A i \in Items : deliveries[i] = 0 /\ arms[i] = 0 /\ redone[i] = 0
    BY DEF Init
<1> QED BY <1>1 DEF DeliverInv, ToSpare

LEMMA DeliverStep == TypeOK /\ DeliverInv /\ [Next]_vars => DeliverInv'
<1> SUFFICES ASSUME TypeOK, DeliverInv, [Next]_vars PROVE DeliverInv'
    OBVIOUS
<1>1. \A i \in Items : deliveries[i] \in Nat /\ arms[i] \in Nat /\ redone[i] \in Nat
    BY DEF TypeOK
<1>2. armed \subseteq Items /\ DOMAIN due \subseteq Items /\ cur \in Items \cup {None} /\ arms \in [Items -> Nat]
      /\ deliveries \in [Items -> Nat] /\ redone \in [Items -> Nat]
    BY DEF TypeOK, PartialOn
\* Nothing is armed.
<1>3. ASSUME UNCHANGED <<arms, deliveries, redone>>, armed' \subseteq armed, DOMAIN due' \subseteq DOMAIN due \cup armed,
             pc' = "retire" => pc = "retire" /\ cur' = cur /\ UNCHANGED due,
             pc = "retire" => pc' = "retire" \/ (cur \notin armed' /\ UNCHANGED due)
      PROVE  DeliverInv'
    BY <1>1, <1>2, <1>3 DEF DeliverInv, ToSpare
\* One is, if it is not yet.
<1>4. ASSUME NEW i \in Items, Arm(i), UNCHANGED <<deliveries, redone>>, DOMAIN due' \subseteq DOMAIN due,
             pc = "retire" => UNCHANGED <<pc, cur>>, pc # "retire" => pc' # "retire"
      PROVE  DeliverInv'
    <2>1. /\ \A j \in Items : arms'[j] \in Nat /\ arms[j] <= arms'[j]
          /\ \A j \in armed' \ armed : j = i /\ arms'[j] = arms[j] + 1
        BY <1>2, <1>4 DEF Arm
    <2> QED BY <1>1, <1>2, <1>4, <2>1 DEF DeliverInv, ToSpare
<1>5. CASE Start \/ FirstLook \/ Discover \/ DiscoverMark \/ DiscoverEnd \/ Baseline \/ SyncRead \/ PassEnd \/ UNCHANGED vars
    BY <1>3, <1>5 DEF Start, FirstLook, Discover, DiscoverMark, DiscoverEnd, Baseline, SyncRead, PassEnd, vars,
        tables, pass, history
<1>6. CASE DiscoverArm
    <2>1. PICK i \in Items : UNCHANGED <<armed, arms>> \/ Arm(i)
        BY <1>6 DEF DiscoverArm
    <2>2. UNCHANGED <<deliveries, redone, due>> /\ pc = "discover" /\ pc' = "marking"
        BY <1>6 DEF DiscoverArm
    <2> QED BY <1>3, <1>4, <2>1, <2>2
<1>7. CASE SyncArm
    <2>1. PICK i \in DOMAIN drifted : Arm(i)
        BY <1>7 DEF SyncArm
    <2>2. i \in Items
        BY DEF TypeOK, PartialOn
    <2> QED BY <1>4, <1>7, <2>1, <2>2 DEF SyncArm
<1>8. CASE DispatchRead
    BY <1>3, <1>8 DEF DispatchRead, tables, history, Restrict
<1>9. CASE Deliver
    <2>1. PICK i \in DOMAIN due :
            /\ cur' = i /\ deliveries' = [deliveries EXCEPT ![i] = @ + 1] /\ due' = Restrict(due, DOMAIN due \ {i})
        BY <1>9 DEF Deliver
    <2>2. DOMAIN due' = DOMAIN due \ {i} /\ i \in Items
        BY <1>2, <2>1 DEF Restrict
    <2>3. deliveries'[i] = deliveries[i] + 1 /\ \A j \in Items : j # i => deliveries'[j] = deliveries[j]
        BY <1>2, <2>1, <2>2
    <2>4. UNCHANGED <<armed, arms, redone>> /\ pc = "dispatch" /\ pc' = "retire"
        BY <1>9 DEF Deliver, tables
    <2> QED BY <1>1, <1>2, <2>1, <2>2, <2>3, <2>4 DEF DeliverInv, ToSpare
<1>10. CASE Retire
    BY <1>3, <1>10 DEF Retire, history
<1>11. ASSUME NEW i \in Items, Store(i) \/ Reset(i) \/ Delete(i) \/ \E p \in Policies : Override(i, p) PROVE DeliverInv'
    BY <1>3, <1>11 DEF Store, Reset, Delete, Override, pass, history
<1>12. ASSUME NEW i \in Items, Rearm(i) PROVE DeliverInv'
    BY <1>4, <1>12 DEF Rearm, pass
\* What the crash keeps armed after its delivery is delivered once more.
<1>13. CASE Crash
    <2>1. /\ redone' = [i \in Items |-> IF pc = "retire" /\ i = cur THEN redone[i] + 1 ELSE redone[i]]
          /\ due' = <<>> /\ pc' = "down" /\ UNCHANGED <<armed, arms, deliveries>>
        BY <1>13 DEF Crash, tables
    <2> QED BY <1>1, <1>2, <2>1 DEF DeliverInv, ToSpare
<1> QED BY <1>5, <1>6, <1>7, <1>8, <1>9, <1>10, <1>11, <1>12, <1>13 DEF Next, Poll, World

\* However the tables change under a pass and wherever it dies, an item is handed on at
\* most once for each time it was armed, but for the deliveries a crash left armed.
THEOREM DeliversOncePerArm == Spec => []DeliveredOncePerArm
<1>1. DeliverInv => DeliveredOncePerArm
    BY DEF DeliverInv, DeliveredOncePerArm
<1> QED BY <1>1, DeliverStart, DeliverStep, Inductive, PTL DEF Spec

-----------------------------------------------------------------------------
(* Nothing is skipped. *)

\* What the pass has found lies above the watermark, and the row in hand is its lowest.
FoundInv ==
    pc \in {"discover", "marking"} =>
        /\ \A j \in DOMAIN found : found[j].rowid > mark
        /\ \A j, k \in DOMAIN found : found[j].rowid = found[k].rowid => j = k
        /\ pc = "marking" => \A j \in DOMAIN found : found[cur].rowid <= found[j].rowid

\* A row that no discovery has looked at lies above the watermark, and either the pass
\* has found it and not yet reached it, or it lies above everything the pass has found.
Ahead(i) == \/ \A j \in DOMAIN found : items[i].rowid > found[j].rowid
            \/ i \in DOMAIN found /\ items[i].rowid = found[i].rowid /\ ~(pc = "marking" /\ cur = i)
LookInv ==
    \A i \in DOMAIN items \ (known \cup reused) :
        items[i].rowid > mark /\ (pc \in {"discover", "marking"} => Ahead(i))

LEMMA LookStart == Init => FoundInv /\ LookInv
<1> SUFFICES ASSUME Init PROVE FoundInv /\ LookInv
    OBVIOUS
<1>1. mark = NoMark /\ pc = "down" /\ \A i \in DOMAIN items : items[i].rowid \in Nat
    BY InitType DEF Init, TypeOK, PartialOn, ItemRow
<1> QED BY <1>1 DEF FoundInv, LookInv, NoMark

LEMMA FoundStep == TypeOK /\ FoundInv /\ [Next]_vars => FoundInv'
<1> SUFFICES ASSUME TypeOK, FoundInv, [Next]_vars PROVE FoundInv'
    OBVIOUS
<1>1. /\ PartialOn(items, Items, ItemRow) /\ PartialOn(found, Items, ItemRow) /\ mark \in Nat \cup {NoMark}
      /\ \A i, j \in DOMAIN items : items[i].rowid = items[j].rowid => i = j
      /\ pc = "marking" => cur \in DOMAIN found
    BY DEF TypeOK
<1>2. \A j \in DOMAIN found : found[j].rowid \in Nat
    BY <1>1 DEF PartialOn, ItemRow
<1>3. CASE UNCHANGED <<mark, pc, found, cur>>
    BY <1>3 DEF FoundInv
<1>4. CASE pc' \notin {"discover", "marking"}
    BY <1>4 DEF FoundInv
<1>5. CASE Discover
    <2>1. DOMAIN found' \subseteq DOMAIN items
          /\ \A j \in DOMAIN found' : found'[j] = items[j] /\ items[j].rowid > mark
        BY <1>5 DEF Discover, Restrict
    <2>2. mark' = mark /\ pc' = "discover"
        BY <1>5 DEF Discover, tables
    <2>3. \A j, k \in DOMAIN found' : found'[j].rowid = found'[k].rowid => j = k
        BY <1>1, <2>1
    <2> QED BY <2>1, <2>2, <2>3 DEF FoundInv
<1>6. CASE DiscoverArm
    <2>1. cur' \in DOMAIN found /\ \A j \in DOMAIN found : found[cur'].rowid <= found[j].rowid
        BY <1>6 DEF DiscoverArm, NextFound
    <2> QED BY <1>6, <2>1 DEF DiscoverArm, FoundInv
<1>7. CASE DiscoverMark
    <2>1. /\ pc = "marking" /\ pc' = "discover" /\ mark' = found[cur].rowid
          /\ DOMAIN found' = DOMAIN found \ {cur} /\ \A j \in DOMAIN found' : found'[j] = found[j]
        BY <1>7 DEF DiscoverMark, Restrict
    <2> QED BY <1>1, <1>2, <2>1 DEF FoundInv
<1>8. CASE Start \/ FirstLook \/ DiscoverEnd \/ Baseline \/ SyncRead \/ DispatchRead \/ Deliver \/ Retire \/ PassEnd \/ Crash
    BY <1>4, <1>8 DEF Start, FirstLook, DiscoverEnd, Baseline, SyncRead, DispatchRead, Deliver, Retire, PassEnd, Crash, pass
<1>9. CASE SyncArm \/ UNCHANGED vars
    BY <1>3, <1>4, <1>9 DEF SyncArm, vars, tables, pass
<1>10. ASSUME NEW i \in Items, Store(i) \/ Rearm(i) \/ Reset(i) \/ Delete(i) \/ \E p \in Policies : Override(i, p)
       PROVE  FoundInv'
    BY <1>3, <1>10 DEF Store, Rearm, Reset, Delete, Override, pass
<1> QED BY <1>5, <1>6, <1>7, <1>8, <1>9, <1>10 DEF Next, Poll, World

LEMMA LookStep == TypeOK /\ Bounded /\ FoundInv /\ LookInv /\ [Next]_vars => LookInv'
<1> SUFFICES ASSUME TypeOK, Bounded, FoundInv, LookInv, [Next]_vars PROVE LookInv'
    OBVIOUS
<1>1. /\ PartialOn(items, Items, ItemRow) /\ PartialOn(found, Items, ItemRow) /\ mark \in Nat \cup {NoMark}
      /\ pc = "marking" => cur \in DOMAIN found
    BY DEF TypeOK
<1>2. /\ \A j \in DOMAIN found : found[j].rowid \in Nat
      /\ \A j \in DOMAIN items : items[j].rowid \in Nat
    BY <1>1 DEF PartialOn, ItemRow
\* Steps that look at nothing and store nothing.
<1>3. ASSUME DOMAIN items' \subseteq DOMAIN items, \A j \in DOMAIN items' : items'[j].rowid = items[j].rowid,
             known \subseteq known', UNCHANGED <<mark, reused>>,
             pc' \in {"discover", "marking"} => UNCHANGED <<pc, found, cur>>
      PROVE  LookInv'
    BY <1>3 DEF LookInv, Ahead
<1>4. CASE FirstLook
    BY <1>4 DEF FirstLook, pass, LookInv
<1>5. CASE Discover
    <2>1. /\ DOMAIN found' = {j \in DOMAIN items : items[j].rowid > mark} /\ pc' = "discover"
          /\ \A j \in DOMAIN found' : found'[j] = items[j]
          /\ UNCHANGED <<items, mark, known, reused>>
        BY <1>5 DEF Discover, Restrict, tables, history
    <2> QED BY <2>1 DEF LookInv, Ahead
<1>6. CASE DiscoverArm
    BY <1>6 DEF DiscoverArm, LookInv, Ahead
\* The watermark moves to the row in hand: every other one is above it.
<1>7. CASE DiscoverMark
    <2>1. /\ pc = "marking" /\ pc' = "discover" /\ mark' = found[cur].rowid /\ cur \in DOMAIN found
          /\ DOMAIN found' = DOMAIN found \ {cur} /\ \A j \in DOMAIN found' : found'[j] = found[j]
          /\ UNCHANGED <<items, known, reused>>
        BY <1>1, <1>7 DEF DiscoverMark, Restrict, history
    <2> SUFFICES ASSUME NEW i \in DOMAIN items \ (known \cup reused)
                 PROVE  items[i].rowid > mark' /\ Ahead(i)'
        BY <2>1 DEF LookInv
    <2>2. Ahead(i)
        BY <2>1 DEF LookInv
    <2>3. CASE \A j \in DOMAIN found : items[i].rowid > found[j].rowid
        BY <2>1, <2>3 DEF Ahead
    <2>4. CASE i \in DOMAIN found /\ items[i].rowid = found[i].rowid /\ cur # i
        <3>1. found[cur].rowid <= found[i].rowid /\ found[cur].rowid # found[i].rowid
            BY <2>1, <2>4 DEF FoundInv
        <3>2. items[i].rowid > mark'
            BY <1>2, <2>1, <2>4, <3>1
        <3> QED BY <2>1, <2>4, <3>2 DEF Ahead
    <2> QED BY <2>1, <2>2, <2>3, <2>4 DEF Ahead
<1>8. CASE Start \/ DiscoverEnd \/ Baseline \/ SyncRead \/ SyncArm \/ DispatchRead \/ Deliver \/ Retire \/ PassEnd
           \/ Crash \/ UNCHANGED vars
    BY <1>3, <1>8 DEF Start, DiscoverEnd, Baseline, SyncRead, SyncArm, DispatchRead, Deliver, Retire, PassEnd, Crash,
        vars, tables, pass, history
\* A row is stored above everything, or counted as one whose rowid came again.
<1>9. ASSUME NEW i \in Items, Store(i) PROVE LookInv'
    <2>1. NextRowid \in Nat
        BY <1>1, HighRowid
    <2>2. /\ items' = [j \in DOMAIN items \cup {i} |->
                          IF j = i THEN [rowid |-> NextRowid, policy |-> Default] ELSE items[j]]
          /\ known' = known \ {i} /\ i \notin DOMAIN items
          /\ UNCHANGED <<mark, pc, found, cur>>
        BY <1>9 DEF Store, pass
    <2>3. reused' = IF \E n \in {mark} \cup {found[j].rowid : j \in DOMAIN found} : NextRowid <= n
                    THEN reused \cup {i} ELSE reused \ {i}
        BY <1>9 DEF Store
    <2> HIDE DEF NextRowid
    <2>4. /\ DOMAIN items' = DOMAIN items \cup {i} /\ items'[i].rowid = NextRowid
          /\ \A j \in DOMAIN items : items'[j] = items[j]
        BY <2>2
    <2> SUFFICES ASSUME NEW k \in DOMAIN items' \ (known' \cup reused')
                 PROVE  items'[k].rowid > mark /\ (pc \in {"discover", "marking"} => Ahead(k)')
        BY <2>2 DEF LookInv
    <2>5. CASE k = i
        <3>1. ~ \E n \in {mark} \cup {found[j].rowid : j \in DOMAIN found} : NextRowid <= n
            BY <2>3, <2>5
        <3>2. NextRowid > mark /\ \A j \in DOMAIN found : NextRowid > found[j].rowid
            BY <1>1, <1>2, <2>1, <3>1 DEF NoMark
        <3> QED BY <2>2, <2>4, <2>5, <3>2 DEF Ahead
    <2>6. CASE k # i
        <3>1. k \in DOMAIN items \ (known \cup reused) /\ items'[k] = items[k]
            BY <2>2, <2>3, <2>4, <2>6
        <3> QED BY <2>2, <3>1 DEF LookInv, Ahead
    <2> QED BY <2>5, <2>6
<1>10. ASSUME NEW i \in Items, Rearm(i) \/ Reset(i) \/ Delete(i) \/ \E p \in Policies : Override(i, p),
              ~ \E k \in Items : Store(k)
       PROVE  LookInv'
    <2>1. DOMAIN items' \subseteq DOMAIN items /\ \A j \in DOMAIN items' : items'[j].rowid = items[j].rowid
        BY <1>10, RowidsStay
    <2>2. UNCHANGED <<known, mark, reused, pc, found, cur>>
        BY <1>10 DEF Rearm, Reset, Delete, Override, pass, history
    <2> QED BY <1>3, <2>1, <2>2
<1> QED BY <1>4, <1>5, <1>6, <1>7, <1>8, <1>9, <1>10 DEF Next, Poll, World

\* Whatever is stored, edited or deleted while a pass works through what it found, and
\* wherever the process dies, the watermark passes no row unseen, but for one that was
\* stored at a rowid it had reached.
THEOREM SkipsNothing == Spec => []NothingIsSkipped
<1>1. TypeOK /\ LookInv => NothingIsSkipped
    BY DEF TypeOK, PartialOn, ItemRow, LookInv, NothingIsSkipped
<1>2. Init => FoundInv /\ LookInv
    BY LookStart
<1>3. TypeOK /\ Bounded /\ FoundInv /\ LookInv /\ [Next]_vars => (FoundInv /\ LookInv)'
    BY FoundStep, LookStep
<1> QED BY <1>1, <1>2, <1>3, Inductive, PTL DEF Spec

-----------------------------------------------------------------------------
(* Armed for a reason. *)

One(b)    == IF b THEN 1 ELSE 0
Found(i)  == pc \in {"discover", "marking"} /\ i \in DOMAIN found
Listed(i) == pc = "drift" /\ i \in DOMAIN drifted
Policy(i) == IF i \in DOMAIN items THEN items[i].policy ELSE Default

\* The armings that are still to come of what has happened: the discovery under way, the
\* next one, the drift that has been read, and the one that is to be seen, be it the policy
\* that a discovery will record of a row that is gone by now.
ToArm(i)   == Found(i) /\ ~Stale(i) /\ ~(pc = "marking" /\ cur = i)
ToFind(i)  == /\ mark # NoMark /\ i \in DOMAIN items /\ items[i].rowid > mark /\ ~Stale(i)
              /\ ~(Found(i) /\ found[i].rowid = items[i].rowid)
ToSync(i)  == Listed(i)
ToDrift(i) == \/ Found(i) /\ Policy(i) # found[i].policy
              \/ i \in DOMAIN baseline /\ Policy(i) # (IF Listed(i) THEN drifted[i] ELSE baseline[i])

Owes(i)   == arms[i] + One(ToArm(i)) + One(ToFind(i)) + One(ToSync(i)) + One(ToDrift(i))
CauseInv  == /\ pc \in {"discover", "marking"} => mark # NoMark
             /\ \A i \in Items : Owes(i) <= causes[i]

LEMMA OneType == \A b : One(b) \in {0, 1} /\ (b => One(b) = 1) /\ (~b => One(b) = 0)
BY DEF One

\* A step that arms nothing and gives nothing to arm.
LEMMA Keeps ==
    ASSUME TypeOK, NEW i \in Items, Owes(i) <= causes[i], arms'[i] = arms[i],
           causes'[i] \in Nat, causes[i] <= causes'[i],
           ToArm(i)' => ToArm(i), ToFind(i)' => ToFind(i), ToSync(i)' => ToSync(i), ToDrift(i)' => ToDrift(i)
    PROVE  Owes(i)' <= causes'[i]
<1>1. arms[i] \in Nat /\ causes[i] \in Nat
    BY DEF TypeOK
<1>2. /\ One(ToArm(i)') <= One(ToArm(i)) /\ One(ToFind(i)') <= One(ToFind(i))
      /\ One(ToSync(i)') <= One(ToSync(i)) /\ One(ToDrift(i)') <= One(ToDrift(i))
    BY DEF One
<1>3. /\ One(ToArm(i)) \in {0, 1} /\ One(ToFind(i)) \in {0, 1} /\ One(ToSync(i)) \in {0, 1} /\ One(ToDrift(i)) \in {0, 1}
      /\ One(ToArm(i)') \in {0, 1} /\ One(ToFind(i)') \in {0, 1} /\ One(ToSync(i)') \in {0, 1} /\ One(ToDrift(i)') \in {0, 1}
    BY DEF One
<1>4. /\ Owes(i) = arms[i] + One(ToArm(i)) + One(ToFind(i)) + One(ToSync(i)) + One(ToDrift(i))
      /\ Owes(i)' = arms'[i] + One(ToArm(i)') + One(ToFind(i)') + One(ToSync(i)') + One(ToDrift(i)')
    BY DEF Owes, One
<1> HIDE DEF Owes, One
<1> QED BY <1>1, <1>2, <1>3, <1>4

\* A step that arms, or gives one thing to arm, for which there is one cause more or one thing
\* less to arm.
LEMMA Trades ==
    ASSUME TypeOK, NEW i \in Items, Owes(i) <= causes[i], arms'[i] \in Nat, causes'[i] \in Nat,
           arms'[i] - arms[i] + One(ToArm(i)') + One(ToFind(i)') + One(ToSync(i)') + One(ToDrift(i)')
             <= causes'[i] - causes[i] + One(ToArm(i)) + One(ToFind(i)) + One(ToSync(i)) + One(ToDrift(i))
    PROVE  Owes(i)' <= causes'[i]
<1>1. arms[i] \in Nat /\ causes[i] \in Nat
    BY DEF TypeOK
<1>2. /\ One(ToArm(i)) \in {0, 1} /\ One(ToFind(i)) \in {0, 1} /\ One(ToSync(i)) \in {0, 1} /\ One(ToDrift(i)) \in {0, 1}
      /\ One(ToArm(i)') \in {0, 1} /\ One(ToFind(i)') \in {0, 1} /\ One(ToSync(i)') \in {0, 1} /\ One(ToDrift(i)') \in {0, 1}
    BY DEF One
<1>3. /\ Owes(i) = arms[i] + One(ToArm(i)) + One(ToFind(i)) + One(ToSync(i)) + One(ToDrift(i))
      /\ Owes(i)' = arms'[i] + One(ToArm(i)') + One(ToFind(i)') + One(ToSync(i)') + One(ToDrift(i)')
    BY DEF Owes, One
<1> HIDE DEF Owes, One
<1> QED BY <1>1, <1>2, <1>3

LEMMA CauseStart == Init => CauseInv
<1> SUFFICES ASSUME Init PROVE CauseInv
    OBVIOUS
<1>1. /\ mark = NoMark /\ baseline = <<>> /\ pc = "down"
      /\ arms = [i \in Items |-> 0] /\ causes = [i \in Items |-> 0]
    BY DEF Init
<1>2. \A i \in Items : ~ToArm(i) /\ ~ToFind(i) /\ ~ToSync(i) /\ ~ToDrift(i)
    BY <1>1 DEF ToArm, ToFind, ToSync, ToDrift, Found, Listed
<1>3. \A i \in Items : Owes(i) = 0
    BY <1>1, <1>2 DEF Owes, One
<1> QED BY <1>1, <1>3 DEF CauseInv

\* What a pass owes: the steps of the poll loop.
LEMMA CausePoll ==
    ASSUME TypeOK, Bounded, FoundInv, CauseInv, Poll, NEW k \in Items
    PROVE  Owes(k)' <= causes'[k]
<1>1. /\ PartialOn(items, Items, ItemRow) /\ PartialOn(found, Items, ItemRow) /\ mark \in Nat \cup {NoMark}
      /\ PartialOn(drifted, Items, Policies) /\ PartialOn(baseline, Items, Policies)
      /\ arms \in [Items -> Nat] /\ causes \in [Items -> Nat] /\ epoch \in Nat
      /\ pc = "marking" => cur \in DOMAIN found
    BY DEF TypeOK
<1>2. Owes(k) <= causes[k]
    BY DEF CauseInv
<1>3. \A j \in DOMAIN found : found[j].rowid \in Nat
    BY <1>1 DEF PartialOn, ItemRow
<1>4. \A j \in DOMAIN items : items[j].rowid \in Nat
    BY <1>1 DEF PartialOn, ItemRow
\* What is fresh for a later process was fresh before.
<1>5. CASE Start
    <2>1. epoch' = epoch + 1 /\ pc = "down" /\ pc' = "idle" /\ UNCHANGED <<items, mark, baseline, found, drifted, arms, causes>>
        BY <1>5 DEF Start, tables, history
    <2>2. Stale(k) => Stale(k)'
        BY <1>1, <2>1, DatesAssumption DEF Stale
    <2>3. /\ (ToArm(k)' => ToArm(k)) /\ (ToFind(k)' => ToFind(k))
          /\ (ToSync(k)' => ToSync(k)) /\ (ToDrift(k)' => ToDrift(k))
        BY <2>1, <2>2 DEF ToArm, ToFind, ToSync, ToDrift, Found, Listed, Policy
    <2>4. arms'[k] = arms[k] /\ causes'[k] \in Nat /\ causes[k] <= causes'[k]
        BY <1>1, <2>1
    <2> QED BY <1>2, <2>3, <2>4, Keeps
<1>6. CASE FirstLook
    <2>1. mark' = RowidHigh /\ pc = "idle" /\ UNCHANGED <<items, baseline, pc, found, drifted, cur, arms, causes>>
        BY <1>6 DEF FirstLook, pass
    <2>2. RowidHigh \in Nat /\ \A j \in DOMAIN items : items[j].rowid <= RowidHigh
        BY <1>1, HighRowid
    <2> HIDE DEF RowidHigh
    <2>3. ~ToFind(k)'
        BY <1>4, <2>1, <2>2 DEF ToFind
    <2>4. ~ToArm(k)' /\ ~ToSync(k)' /\ (ToDrift(k)' => ToDrift(k))
        BY <2>1 DEF ToArm, ToSync, ToDrift, Found, Listed, Policy
    <2> QED BY <1>1, <1>2, <2>1, <2>3, <2>4, Keeps
\* What was to be found is what the discovery is going to arm.
<1>7. CASE Discover
    <2>1. /\ pc = "idle" /\ pc' = "discover" /\ mark # NoMark /\ UNCHANGED <<items, mark, baseline, epoch, drifted, arms, causes>>
          /\ DOMAIN found' = {j \in DOMAIN items : items[j].rowid > mark}
          /\ \A j \in DOMAIN found' : found'[j] = items[j]
        BY <1>7 DEF Discover, Restrict, tables, history
    <2>2. ToArm(k)' => ToFind(k)
        BY <2>1 DEF ToArm, ToFind, Found, Stale
    <2>3. ~ToFind(k)' /\ ~ToSync(k)' /\ ~ToSync(k) /\ ~ToArm(k)
        BY <2>1 DEF ToFind, ToSync, ToArm, Found, Listed
    <2>4. ToDrift(k)' => ToDrift(k)
        BY <2>1 DEF ToDrift, Found, Listed, Policy
    <2>5. One(ToArm(k)') <= One(ToFind(k)) /\ One(ToDrift(k)') <= One(ToDrift(k))
        BY <2>2, <2>4 DEF One
    <2>6. One(ToFind(k)') = 0 /\ One(ToSync(k)') = 0 /\ One(ToSync(k)) = 0 /\ One(ToArm(k)) = 0
        BY <2>3 DEF One
    <2>7. One(ToArm(k)') \in {0, 1} /\ One(ToFind(k)) \in {0, 1} /\ One(ToDrift(k)') \in {0, 1} /\ One(ToDrift(k)) \in {0, 1}
        BY DEF One
    <2> QED BY <1>1, <1>2, <2>1, <2>5, <2>6, <2>7, Trades
<1>8. CASE DiscoverArm
    <2>1. PICK i \in Items : /\ i \in DOMAIN found /\ cur' = i
                             /\ IF Stale(i) THEN UNCHANGED <<armed, arms>> ELSE Arm(i)
        BY <1>8 DEF DiscoverArm, NextFound
    <2>2. pc = "discover" /\ pc' = "marking" /\ UNCHANGED <<items, mark, baseline, epoch, found, drifted, causes>>
        BY <1>8 DEF DiscoverArm
    <2>3. /\ (ToFind(k)' => ToFind(k)) /\ (ToDrift(k)' => ToDrift(k))
          /\ (ToSync(k)' => ToSync(k)) /\ (ToArm(k)' => ToArm(k))
        BY <2>1, <2>2 DEF ToArm, ToFind, ToSync, ToDrift, Found, Listed, Policy, Stale
    <2>4. CASE arms'[k] = arms[k]
        <3>1. causes'[k] \in Nat /\ causes[k] <= causes'[k]
            BY <1>1, <2>2
        <3> QED BY <1>2, <3>1, <2>3, <2>4, Keeps
    <2>5. CASE arms'[k] # arms[k]
        <3>1. k = i /\ ~Stale(k) /\ arms'[k] = arms[k] + 1
            BY <1>1, <2>1, <2>5 DEF Arm
        <3>2. ToArm(k) /\ ~ToArm(k)'
            BY <2>1, <2>2, <3>1 DEF ToArm, Found
        <3>3. One(ToArm(k)) = 1 /\ One(ToArm(k)') = 0
            BY <3>2 DEF One
        <3>4. /\ One(ToFind(k)') <= One(ToFind(k)) /\ One(ToSync(k)') <= One(ToSync(k)) /\ One(ToDrift(k)') <= One(ToDrift(k))
            BY <2>3 DEF One
        <3>5. /\ One(ToFind(k)) \in {0, 1} /\ One(ToSync(k)) \in {0, 1} /\ One(ToDrift(k)) \in {0, 1}
              /\ One(ToFind(k)') \in {0, 1} /\ One(ToSync(k)') \in {0, 1} /\ One(ToDrift(k)') \in {0, 1}
            BY DEF One
        <3>6. arms[k] \in Nat /\ arms'[k] \in Nat /\ causes[k] \in Nat /\ causes'[k] = causes[k]
            BY <1>1, <2>2, <3>1
        <3>7. arms'[k] - arms[k] + One(ToArm(k)') + One(ToFind(k)') + One(ToSync(k)') + One(ToDrift(k)')
                <= causes'[k] - causes[k] + One(ToArm(k)) + One(ToFind(k)) + One(ToSync(k)) + One(ToDrift(k))
            BY <3>1, <3>3, <3>4, <3>5, <3>6
        <3> QED BY <1>2, <3>6, <3>7, Trades
    <2> QED BY <2>4, <2>5
\* The policy recorded is the one that was found: an edit since then is still to be seen.
<1>9. CASE DiscoverMark
    <2>1. /\ pc = "marking" /\ pc' = "discover" /\ mark' = found[cur].rowid /\ cur \in DOMAIN found /\ cur' = None
          /\ DOMAIN found' = DOMAIN found \ {cur} /\ \A j \in DOMAIN found' : found'[j] = found[j]
          /\ DOMAIN baseline' = DOMAIN baseline \cup {cur} /\ baseline'[cur] = found[cur].policy
          /\ \A j \in DOMAIN baseline : j # cur => baseline'[j] = baseline[j]
          /\ UNCHANGED <<items, epoch, drifted, arms, causes>>
        BY <1>1, <1>9 DEF DiscoverMark, Restrict, history
    <2>2. found[cur].rowid > mark /\ found[cur].rowid \in Nat
        BY <1>3, <2>1 DEF FoundInv
    <2>7. mark # NoMark
        BY <2>1 DEF CauseInv
    <2>3. ToArm(k)' => ToArm(k)
        BY <2>1, NoItemAssumption DEF ToArm, Found, Stale
    <2>4. ToFind(k)' => ToFind(k)
        <3>1. (k \in DOMAIN items /\ items[k].rowid > found[cur].rowid) => items[k].rowid > mark /\ (k = cur => items[k].rowid # found[k].rowid)
            BY <1>1, <1>4, <2>2, <2>7
        <3> QED BY <2>1, <2>7, <3>1 DEF ToFind, Found, Stale
    <2>5. ~ToSync(k)'
        BY <2>1 DEF ToSync, Listed
    <2>6. ToDrift(k)' => ToDrift(k)
        <3>1. CASE k = cur
            BY <2>1, <3>1 DEF ToDrift, Found, Listed, Policy
        <3>2. CASE k # cur
            BY <2>1, <3>2 DEF ToDrift, Found, Listed, Policy
        <3> QED BY <3>1, <3>2
    <2> QED BY <1>1, <1>2, <2>1, <2>3, <2>4, <2>5, <2>6, Keeps
<1>10. CASE DiscoverEnd \/ DispatchRead \/ Deliver \/ Retire \/ PassEnd
    <2>1. /\ pc \in {"dispatch", "retire"} \/ (pc = "drift" /\ DOMAIN drifted = {}) \/ (pc = "discover" /\ DOMAIN found = {})
          /\ pc' \in {"baseline", "dispatch", "retire", "idle"}
          /\ UNCHANGED <<items, mark, baseline, epoch, found, drifted, arms, causes>>
        BY <1>10 DEF DiscoverEnd, DispatchRead, Deliver, Retire, PassEnd, tables, history
    <2>2. /\ (ToArm(k)' => ToArm(k)) /\ (ToFind(k)' => ToFind(k))
          /\ (ToSync(k)' => ToSync(k)) /\ (ToDrift(k)' => ToDrift(k))
        BY <2>1 DEF ToArm, ToFind, ToSync, ToDrift, Found, Listed, Policy, Stale
    <2> QED BY <1>1, <1>2, <2>1, <2>2, Keeps
<1>11. CASE Baseline
    <2>1. /\ pc = "baseline" /\ pc' = "sync" /\ DOMAIN baseline' = DOMAIN baseline \cup DOMAIN items
          /\ \A j \in DOMAIN baseline' : baseline'[j] = IF j \in DOMAIN baseline THEN baseline[j] ELSE items[j].policy
          /\ UNCHANGED <<items, mark, epoch, found, drifted, arms, causes>>
        BY <1>11 DEF Baseline, history
    <2>2. /\ (ToArm(k)' => ToArm(k)) /\ (ToFind(k)' => ToFind(k))
          /\ (ToSync(k)' => ToSync(k)) /\ (ToDrift(k)' => ToDrift(k))
        BY <2>1 DEF ToArm, ToFind, ToSync, ToDrift, Found, Listed, Policy, Stale
    <2> QED BY <1>1, <1>2, <2>1, <2>2, Keeps
\* A drift that is read is no longer to be seen.
<1>12. CASE SyncRead
    <2>1. /\ pc = "sync" /\ pc' = "drift" /\ DOMAIN drifted' = {j \in Items : HasDrifted(j)}
          /\ \A j \in DOMAIN drifted' : drifted'[j] = items[j].policy
          /\ UNCHANGED <<items, mark, baseline, epoch, found, arms, causes>>
        BY <1>12 DEF SyncRead, tables, history, Restrict, PolicyOf, HasDrifted
    <2>2. ~ToArm(k)' /\ (ToFind(k)' => ToFind(k)) /\ ~ToSync(k)
        BY <2>1 DEF ToArm, ToFind, ToSync, Found, Listed, Stale
    <2>3. CASE HasDrifted(k)
        <3>1. ToDrift(k) /\ ~ToDrift(k)'
            BY <2>1, <2>3 DEF ToDrift, Found, Listed, Policy, HasDrifted
        <3>2. One(ToDrift(k)) = 1 /\ One(ToDrift(k)') = 0 /\ One(ToArm(k)') = 0 /\ One(ToFind(k)') <= One(ToFind(k)) /\ One(ToSync(k)) = 0
            BY <2>2, <3>1 DEF One
        <3>3. One(ToSync(k)') \in {0, 1} /\ One(ToArm(k)) \in {0, 1} /\ One(ToFind(k)') \in {0, 1} /\ One(ToFind(k)) \in {0, 1}
            BY DEF One
        <3>4. arms[k] \in Nat /\ arms'[k] = arms[k] /\ causes[k] \in Nat /\ causes'[k] = causes[k]
            BY <1>1, <2>1
        <3>5. arms'[k] - arms[k] + One(ToArm(k)') + One(ToFind(k)') + One(ToSync(k)') + One(ToDrift(k)')
                <= causes'[k] - causes[k] + One(ToArm(k)) + One(ToFind(k)) + One(ToSync(k)) + One(ToDrift(k))
            BY <3>2, <3>3, <3>4
        <3> QED BY <1>2, <3>4, <3>5, Trades
    <2>4. CASE ~HasDrifted(k)
        <3>1. ~ToSync(k)' /\ (ToDrift(k)' => ToDrift(k))
            BY <2>1, <2>4 DEF ToSync, ToDrift, Found, Listed, Policy
        <3>2. arms'[k] = arms[k] /\ causes'[k] \in Nat /\ causes[k] <= causes'[k]
            BY <1>1, <2>1
        <3> QED BY <1>2, <2>2, <3>1, <3>2, Keeps
    <2> QED BY <2>3, <2>4
<1>13. CASE SyncArm
    <2>1. PICK i \in DOMAIN drifted :
            /\ Arm(i) /\ baseline' = [j \in DOMAIN baseline |-> IF j = i THEN drifted[i] ELSE baseline[j]]
            /\ DOMAIN drifted' = DOMAIN drifted \ {i} /\ \A j \in DOMAIN drifted' : drifted'[j] = drifted[j]
        BY <1>13 DEF SyncArm, Restrict
    <2>2. pc = "drift" /\ UNCHANGED <<items, mark, epoch, pc, found, cur, causes>>
        BY <1>13 DEF SyncArm
    <2>3. /\ (ToArm(k)' => ToArm(k)) /\ (ToFind(k)' => ToFind(k)) /\ (ToSync(k)' => ToSync(k))
        BY <2>1, <2>2 DEF ToArm, ToFind, ToSync, Found, Listed, Stale
    <2>6. ToDrift(k)' => ToDrift(k)
        BY <2>1, <2>2 DEF ToDrift, Found, Listed, Policy
    <2>4. CASE arms'[k] = arms[k]
        <3>1. causes'[k] \in Nat /\ causes[k] <= causes'[k]
            BY <1>1, <2>2
        <3> QED BY <1>2, <3>1, <2>3, <2>4, <2>6, Keeps
    <2>5. CASE arms'[k] # arms[k]
        <3>1. k = i /\ arms'[k] = arms[k] + 1
            BY <1>1, <2>1, <2>5 DEF Arm
        <3>2. ToSync(k) /\ ~ToSync(k)'
            BY <2>1, <2>2, <3>1 DEF ToSync, Listed
        <3>3. One(ToSync(k)) = 1 /\ One(ToSync(k)') = 0
            BY <3>2 DEF One
        <3>4. /\ One(ToFind(k)') <= One(ToFind(k)) /\ One(ToArm(k)') <= One(ToArm(k)) /\ One(ToDrift(k)') <= One(ToDrift(k))
            BY <2>3, <2>6 DEF One
        <3>5. /\ One(ToFind(k)) \in {0, 1} /\ One(ToArm(k)) \in {0, 1} /\ One(ToDrift(k)) \in {0, 1}
              /\ One(ToFind(k)') \in {0, 1} /\ One(ToArm(k)') \in {0, 1} /\ One(ToDrift(k)') \in {0, 1}
            BY DEF One
        <3>6. arms[k] \in Nat /\ arms'[k] \in Nat /\ causes[k] \in Nat /\ causes'[k] = causes[k]
            BY <1>1, <2>2, <3>1
        <3>7. arms'[k] - arms[k] + One(ToArm(k)') + One(ToFind(k)') + One(ToSync(k)') + One(ToDrift(k)')
                <= causes'[k] - causes[k] + One(ToArm(k)) + One(ToFind(k)) + One(ToSync(k)) + One(ToDrift(k))
            BY <3>1, <3>3, <3>4, <3>5, <3>6
        <3> QED BY <1>2, <3>6, <3>7, Trades
    <2> QED BY <2>4, <2>5
<1> QED BY <1>5, <1>6, <1>7, <1>8, <1>9, <1>10, <1>11, <1>12, <1>13 DEF Poll

\* What the rest of the system gives to arm.
LEMMA CauseWorld ==
    ASSUME TypeOK, Bounded, CauseInv, World, NEW k \in Items
    PROVE  Owes(k)' <= causes'[k]
<1>1. /\ PartialOn(items, Items, ItemRow) /\ PartialOn(baseline, Items, Policies)
      /\ arms \in [Items -> Nat] /\ causes \in [Items -> Nat]
    BY DEF TypeOK
<1>2. Owes(k) <= causes[k] /\ arms[k] \in Nat /\ causes[k] \in Nat
    BY <1>1 DEF CauseInv
\* At most one thing more to arm, and one cause more.
<1>3. ASSUME arms'[k] = arms[k], causes'[k] = causes[k] + 1, ToArm(k)' => ToArm(k), ToSync(k)' => ToSync(k),
             (ToFind(k)' => ToFind(k)) \/ (ToDrift(k)' => ToDrift(k))
      PROVE  Owes(k)' <= causes'[k]
    <2>1. /\ One(ToArm(k)') <= One(ToArm(k)) /\ One(ToSync(k)') <= One(ToSync(k))
          /\ One(ToFind(k)') <= One(ToFind(k)) \/ One(ToDrift(k)') <= One(ToDrift(k))
        BY <1>3 DEF One
    <2>2. /\ One(ToArm(k)) \in {0, 1} /\ One(ToFind(k)) \in {0, 1} /\ One(ToSync(k)) \in {0, 1} /\ One(ToDrift(k)) \in {0, 1}
          /\ One(ToArm(k)') \in {0, 1} /\ One(ToFind(k)') \in {0, 1} /\ One(ToSync(k)') \in {0, 1} /\ One(ToDrift(k)') \in {0, 1}
        BY DEF One
    <2>3. arms'[k] \in Nat /\ causes'[k] \in Nat
        BY <1>2, <1>3
    <2>4. arms'[k] - arms[k] + One(ToArm(k)') + One(ToFind(k)') + One(ToSync(k)') + One(ToDrift(k)')
            <= causes'[k] - causes[k] + One(ToArm(k)) + One(ToFind(k)) + One(ToSync(k)) + One(ToDrift(k))
        BY <1>2, <1>3, <2>1, <2>2
    <2> QED BY <1>2, <2>3, <2>4, Trades
\* A row of the default policy, which is what a policy recorded of a row gone by now drifted from.
<1>4. ASSUME NEW i \in Items, Store(i) PROVE Owes(k)' <= causes'[k]
    <2>1. /\ i \notin DOMAIN items
          /\ items' = [j \in DOMAIN items \cup {i} |->
                          IF j = i THEN [rowid |-> NextRowid, policy |-> Default] ELSE items[j]]
          /\ causes' = [causes EXCEPT ![i] = IF mark = NoMark \/ Stale(i) THEN @ ELSE @ + 1]
          /\ UNCHANGED <<mark, baseline, epoch, pc, found, drifted, cur, arms>>
        BY <1>4 DEF Store, pass
    <2> HIDE DEF NextRowid
    <2>2. /\ DOMAIN items' = DOMAIN items \cup {i} /\ items'[i].policy = Default
          /\ \A j \in DOMAIN items : items'[j] = items[j]
        BY <2>1
    <2>3. (ToArm(k)' => ToArm(k)) /\ (ToSync(k)' => ToSync(k))
        BY <2>1 DEF ToArm, ToSync, Found, Listed, Stale
    <2>4. ToDrift(k)' => ToDrift(k)
        <3>1. Policy(k)' = Policy(k)
            BY <2>1, <2>2 DEF Policy
        <3> HIDE DEF Policy
        <3> QED BY <2>1, <3>1 DEF ToDrift, Found, Listed
    <2>5. CASE causes'[k] = causes[k] + 1
        BY <1>3, <2>1, <2>3, <2>4, <2>5
    <2>6. CASE causes'[k] # causes[k] + 1
        <3>1. causes'[k] = causes[k] /\ (k = i => mark = NoMark \/ Stale(i))
            BY <1>1, <2>1, <2>6
        <3>2. ToFind(k)' => ToFind(k)
            BY <2>1, <2>2, <3>1 DEF ToFind, Found, Stale
        <3>3. arms'[k] = arms[k] /\ causes'[k] \in Nat /\ causes[k] <= causes'[k]
            BY <1>2, <2>1, <3>1
        <3> QED BY <1>2, <2>3, <2>4, <3>2, <3>3, Keeps
    <2> QED BY <2>5, <2>6
<1>5. ASSUME NEW i \in Items, NEW p \in Policies, Override(i, p) PROVE Owes(k)' <= causes'[k]
    <2>1. /\ i \in DOMAIN items /\ items' = [items EXCEPT ![i].policy = p]
          /\ causes' = [causes EXCEPT ![i] = @ + 1]
          /\ UNCHANGED <<mark, baseline, epoch, pc, found, drifted, cur, arms>>
        BY <1>5 DEF Override, pass
    <2>2. /\ DOMAIN items' = DOMAIN items /\ \A j \in DOMAIN items : j # i => items'[j] = items[j]
          /\ items'[i].rowid = items[i].rowid
        BY <1>1, <2>1 DEF PartialOn, ItemRow
    <2>3. (ToArm(k)' => ToArm(k)) /\ (ToSync(k)' => ToSync(k)) /\ (ToFind(k)' => ToFind(k))
        BY <2>1, <2>2 DEF ToArm, ToSync, ToFind, Found, Listed, Stale
    <2>4. CASE k = i
        <3>1. arms'[k] = arms[k] /\ causes'[k] = causes[k] + 1
            BY <1>1, <2>1, <2>4
        <3> QED BY <1>3, <2>3, <3>1
    <2>5. CASE k # i
        <3>1. Policy(k)' = Policy(k)
            BY <2>2, <2>5 DEF Policy
        <3>2. ToDrift(k)' => ToDrift(k)
            BY <2>1, <3>1 DEF ToDrift, Found, Listed
        <3>3. arms'[k] = arms[k] /\ causes'[k] \in Nat /\ causes[k] <= causes'[k]
            BY <1>1, <1>2, <2>1, <2>5
        <3> QED BY <1>2, <2>3, <3>2, <3>3, Keeps
    <2> QED BY <2>4, <2>5
<1>6. ASSUME NEW i \in Items, Rearm(i) PROVE Owes(k)' <= causes'[k]
    <2>1. /\ Arm(i) /\ causes' = [causes EXCEPT ![i] = @ + 1]
          /\ UNCHANGED <<items, mark, baseline, epoch, pc, found, drifted, cur>>
        BY <1>6 DEF Rearm, pass
    <2>2. /\ ToArm(k)' <=> ToArm(k)
          /\ ToFind(k)' <=> ToFind(k)
          /\ ToSync(k)' <=> ToSync(k)
          /\ ToDrift(k)' <=> ToDrift(k)
        BY <2>1 DEF ToArm, ToFind, ToSync, ToDrift, Found, Listed, Policy, Stale
    <2>3. /\ One(ToArm(k)') = One(ToArm(k)) /\ One(ToFind(k)') = One(ToFind(k))
          /\ One(ToSync(k)') = One(ToSync(k)) /\ One(ToDrift(k)') = One(ToDrift(k))
        BY <2>2 DEF One
    <2>4. /\ One(ToArm(k)) \in {0, 1} /\ One(ToFind(k)) \in {0, 1} /\ One(ToSync(k)) \in {0, 1} /\ One(ToDrift(k)) \in {0, 1}
        BY DEF One
    <2>5. arms'[k] \in Nat /\ causes'[k] \in Nat /\ arms'[k] - arms[k] <= causes'[k] - causes[k]
        BY <1>1, <2>1 DEF Arm
    <2>6. arms'[k] - arms[k] + One(ToArm(k)') + One(ToFind(k)') + One(ToSync(k)') + One(ToDrift(k)')
            <= causes'[k] - causes[k] + One(ToArm(k)) + One(ToFind(k)) + One(ToSync(k)) + One(ToDrift(k))
        BY <1>2, <2>3, <2>4, <2>5
    <2> QED BY <1>2, <2>5, <2>6, Trades
<1>7. ASSUME NEW i \in Items, Reset(i) PROVE Owes(k)' <= causes'[k]
    <2>1. /\ DOMAIN baseline' = DOMAIN baseline \ {i} /\ \A j \in DOMAIN baseline' : baseline'[j] = baseline[j]
          /\ UNCHANGED <<items, mark, epoch, pc, found, drifted, cur, arms, causes>>
        BY <1>7 DEF Reset, Restrict, pass, history
    <2>2. /\ ToArm(k)' => ToArm(k)
          /\ ToFind(k)' => ToFind(k)
          /\ ToSync(k)' => ToSync(k)
          /\ ToDrift(k)' => ToDrift(k)
        BY <2>1 DEF ToArm, ToFind, ToSync, ToDrift, Found, Listed, Policy, Stale
    <2>3. arms'[k] = arms[k] /\ causes'[k] \in Nat /\ causes[k] <= causes'[k]
        BY <1>2, <2>1
    <2> QED BY <1>2, <2>2, <2>3, Keeps
\* The policy of a row deleted after it was found will be recorded all the same.
<1>8. ASSUME NEW i \in Items, Delete(i) PROVE Owes(k)' <= causes'[k]
    <2>1. /\ DOMAIN items' = DOMAIN items \ {i} /\ \A j \in DOMAIN items' : items'[j] = items[j]
          /\ DOMAIN baseline' = DOMAIN baseline \ {i} /\ \A j \in DOMAIN baseline' : baseline'[j] = baseline[j]
          /\ causes' = [causes EXCEPT ![i] = IF i \in DOMAIN found THEN @ + 1 ELSE @]
          /\ UNCHANGED <<mark, epoch, pc, found, drifted, cur, arms>>
        BY <1>8 DEF Delete, Restrict, pass
    <2>2. (ToArm(k)' => ToArm(k)) /\ (ToSync(k)' => ToSync(k)) /\ (ToFind(k)' => ToFind(k))
        BY <2>1 DEF ToArm, ToSync, ToFind, Found, Listed, Stale
    <2>3. CASE k = i /\ i \in DOMAIN found
        <3>1. arms'[k] = arms[k] /\ causes'[k] = causes[k] + 1
            BY <1>1, <2>1, <2>3
        <3> QED BY <1>3, <2>2, <3>1
    <2>4. CASE ~(k = i /\ i \in DOMAIN found)
        <3>1. arms'[k] = arms[k] /\ causes'[k] \in Nat /\ causes[k] <= causes'[k]
            BY <1>1, <1>2, <2>1, <2>4
        <3>2. CASE k = i
            <4>1. ~ToDrift(k)'
                BY <2>1, <2>4, <3>2 DEF ToDrift, Found
            <4> QED BY <1>2, <2>2, <3>1, <4>1, Keeps
        <3>3. CASE k # i
            <4>1. Policy(k)' = Policy(k)
                BY <2>1, <3>3 DEF Policy
            <4>2. ToDrift(k)' => ToDrift(k)
                BY <2>1, <4>1 DEF ToDrift, Found, Listed
            <4> QED BY <1>2, <2>2, <3>1, <4>2, Keeps
        <3> QED BY <3>2, <3>3
    <2> QED BY <2>3, <2>4
\* A discovery cut short is to be made again, a drift that was read to be seen again.
<1>9. CASE Crash
    <2>1. /\ pc' = "down" /\ found' = <<>> /\ drifted' = <<>>
          /\ causes' = [i \in Items |-> IF pc = "marking" /\ i = cur THEN causes[i] + 1 ELSE causes[i]]
          /\ UNCHANGED <<items, mark, baseline, epoch, arms>>
        BY <1>9 DEF Crash, tables
    <2>2. ~ToArm(k)' /\ ~ToSync(k)'
        BY <2>1 DEF ToArm, ToSync, Found, Listed
    <2>3. (ToFind(k)' /\ ~ToFind(k)) => ToArm(k) \/ (pc = "marking" /\ cur = k)
        BY <2>1 DEF ToFind, ToArm, Found, Stale
    <2>4. (ToDrift(k)' /\ ~ToDrift(k)) => ToSync(k)
        BY <2>1 DEF ToDrift, ToSync, Found, Listed, Policy
    <2>5. causes'[k] = IF pc = "marking" /\ cur = k THEN causes[k] + 1 ELSE causes[k]
        BY <2>1
    <2>6. /\ One(ToArm(k)') = 0 /\ One(ToSync(k)') = 0 /\ One(ToDrift(k)') <= One(ToDrift(k)) + One(ToSync(k))
          /\ One(ToFind(k)') <= One(ToFind(k)) + One(ToArm(k)) + (causes'[k] - causes[k])
        BY <1>2, <2>2, <2>3, <2>4, <2>5 DEF One
    <2>7. /\ One(ToArm(k)) \in {0, 1} /\ One(ToFind(k)) \in {0, 1} /\ One(ToSync(k)) \in {0, 1} /\ One(ToDrift(k)) \in {0, 1}
          /\ One(ToFind(k)') \in {0, 1} /\ One(ToDrift(k)') \in {0, 1}
        BY DEF One
    <2>8. arms'[k] = arms[k] /\ arms'[k] \in Nat /\ causes'[k] \in Nat
        BY <1>2, <2>1, <2>5
    <2>9. arms'[k] - arms[k] + One(ToArm(k)') + One(ToFind(k)') + One(ToSync(k)') + One(ToDrift(k)')
            <= causes'[k] - causes[k] + One(ToArm(k)) + One(ToFind(k)) + One(ToSync(k)) + One(ToDrift(k))
        BY <1>2, <2>6, <2>7, <2>8
    <2> QED BY <1>2, <2>8, <2>9, Trades
<1> QED BY <1>4, <1>5, <1>6, <1>7, <1>8, <1>9 DEF World

LEMMA CauseStep == TypeOK /\ Bounded /\ FoundInv /\ CauseInv /\ [Next]_vars => CauseInv'
<1> SUFFICES ASSUME TypeOK, Bounded, FoundInv, CauseInv, [Next]_vars PROVE CauseInv'
    OBVIOUS
<1>1. pc' \in {"discover", "marking"} => mark' # NoMark
    <2>1. CASE UNCHANGED <<pc, mark>>
        BY <2>1 DEF CauseInv
    <2>2. CASE pc' \notin {"discover", "marking"}
        BY <2>2
    <2>3. CASE Discover \/ DiscoverArm
        BY <2>3 DEF Discover, DiscoverArm, tables, CauseInv
    <2>4. CASE DiscoverMark
        BY <2>4 DEF DiscoverMark, TypeOK, PartialOn, ItemRow, NoMark
    <2>5. CASE FirstLook
        BY <2>2, <2>5 DEF FirstLook, pass
    <2>6. CASE Start \/ DiscoverEnd \/ Baseline \/ SyncRead \/ SyncArm \/ DispatchRead \/ Deliver \/ Retire \/ PassEnd
               \/ Crash \/ UNCHANGED vars
        BY <2>1, <2>2, <2>6 DEF Start, DiscoverEnd, Baseline, SyncRead, SyncArm, DispatchRead, Deliver, Retire, PassEnd,
            Crash, vars, tables, pass
    <2>7. ASSUME NEW i \in Items, Store(i) \/ Rearm(i) \/ Reset(i) \/ Delete(i) \/ \E p \in Policies : Override(i, p)
          PROVE  UNCHANGED <<pc, mark>>
        BY <2>7 DEF Store, Rearm, Reset, Delete, Override, pass
    <2> QED BY <2>1, <2>3, <2>4, <2>5, <2>6, <2>7 DEF Next, Poll, World
<1>2. ASSUME NEW k \in Items PROVE Owes(k)' <= causes'[k]
    <2>1. CASE UNCHANGED vars
        <3>1. UNCHANGED <<items, mark, baseline, epoch, pc, found, drifted, cur, arms, causes>>
            BY <2>1 DEF vars, tables, pass, history
        <3>2. /\ ToArm(k)' => ToArm(k)
              /\ ToFind(k)' => ToFind(k)
              /\ ToSync(k)' => ToSync(k)
              /\ ToDrift(k)' => ToDrift(k)
            BY <3>1 DEF ToArm, ToFind, ToSync, ToDrift, Found, Listed, Policy, Stale
        <3>3. Owes(k) <= causes[k] /\ arms'[k] = arms[k] /\ causes'[k] \in Nat /\ causes[k] <= causes'[k]
            BY <3>1 DEF TypeOK, CauseInv
        <3> QED BY <3>2, <3>3, Keeps
    <2> QED BY <2>1, CausePoll, CauseWorld DEF Next
<1> QED BY <1>1, <1>2 DEF CauseInv

\* However stores, edits, deletions and crashes fall between the steps of a pass, an item is
\* armed at most once for each thing that entitles it to be.
THEOREM ArmsHaveCauses == Spec => []ArmsAreCaused
<1>1. TypeOK /\ CauseInv => ArmsAreCaused
    <2> SUFFICES ASSUME TypeOK, CauseInv, NEW i \in Items PROVE arms[i] <= causes[i]
        BY DEF ArmsAreCaused
    <2>1. Owes(i) <= causes[i] /\ arms[i] \in Nat /\ causes[i] \in Nat
        BY DEF TypeOK, CauseInv
    <2>2. /\ One(ToArm(i)) \in {0, 1} /\ One(ToFind(i)) \in {0, 1} /\ One(ToSync(i)) \in {0, 1} /\ One(ToDrift(i)) \in {0, 1}
        BY DEF One
    <2>3. Owes(i) = arms[i] + One(ToArm(i)) + One(ToFind(i)) + One(ToSync(i)) + One(ToDrift(i))
        BY DEF Owes
    <2> HIDE DEF Owes, One
    <2> QED BY <2>1, <2>2, <2>3
<1>2. Init => FoundInv /\ CauseInv
    BY LookStart, CauseStart
<1>3. TypeOK /\ Bounded /\ FoundInv /\ CauseInv /\ [Next]_vars => (FoundInv /\ CauseInv)'
    BY FoundStep, CauseStep
<1> QED BY <1>1, <1>2, <1>3, Inductive, PTL DEF Spec
=============================================================================
