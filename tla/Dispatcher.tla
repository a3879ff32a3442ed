----------------------------- MODULE Dispatcher -----------------------------
(***************************************************************************)
(* The dispatcher (dispatcher/watcher.py, override.py): a poll loop over   *)
(* the items table that decides when an item goes live once.               *)
(*                                                                         *)
(*   discover   rows above the watermark are armed, the stale ones skipped *)
(*   sync       rows whose policy drifted from the recorded one are armed  *)
(*   dispatch   armed rows are handed to the handler, then retired         *)
(*                                                                         *)
(* One action is one committed transaction together with the reads that    *)
(* lead to it; a list a pass works through was read by one query and ages  *)
(* while adapters, the operator and the ui write the same tables.          *)
(*                                                                         *)
(* source_date_time and the start of the process are ranks on one scale:   *)
(* epoch counts the starts, an item is stale when its Date is below it.    *)
(***************************************************************************)
EXTENDS Integers, FiniteSets, Functions

CONSTANTS Items,      \* items.(source, item_id)
          Policies,   \* names of policies
          Default,    \* the policy a stored item carries
          Date,       \* source_date_time: [Items -> Nat \cup {Undated}]
          Undated,
          Scenarios,  \* the items there before the first start, and how often the
                      \* environment may take each step
          None        \* no item

Steps == {"store", "override", "rearm", "reset", "delete", "crash"}

Scenario == [backlog : SUBSET Items, fuel : [Steps -> Nat]]

ASSUME DefaultAssumption  == Default \in Policies
ASSUME DatesAssumption    == Date \in [Items -> Nat \cup {Undated}] /\ Undated \notin Nat
ASSUME FuelAssumption     == Scenarios \subseteq Scenario
ASSUME BacklogAssumption  == \A s \in Scenarios : IsFiniteSet(s.backlog)
ASSUME NoItemAssumption   == None \notin Items

VARIABLES
    \* tables: items, dispatcher_state.last_seen_rowid (NoMark: no row),
    \* trigger_dispatches, item_policy_state
    items, mark, armed, baseline,
    \* the process: its start, where the pass is, the rows each of its three queries
    \* returned and the row in hand
    epoch, pc, found, drifted, due, cur,
    fuel,
    \* history: how often an item was armed, what entitles it to be armed, how often it
    \* was delivered, deliveries that a crash made the next process repeat, the policy
    \* of the last delivery, and the stored items a discovery has looked at
    arms, causes, deliveries, redone, delivered, known,
    \* stored at a rowid the watermark or the pass under way had already reached
    reused

tables  == <<items, mark, armed, baseline>>
pass    == <<pc, found, drifted, due, cur>>
history == <<arms, causes, deliveries, redone, delivered, known, reused>>
vars    == <<tables, epoch, pass, fuel, history>>

NoMark   == -1
ItemRow  == [rowid : Nat \ {0}, policy : Policies]
PolicyOf(t) == [i \in DOMAIN t |-> t[i].policy]
PartialOn(f, D, R) == DOMAIN f \subseteq D /\ f \in [DOMAIN f -> R]
Stale(i) == Date[i] # Undated /\ Date[i] < epoch

\* items has a composite primary key and no AUTOINCREMENT: SQLite gives a new row the
\* largest rowid in use plus one, so the rowid of a deleted newest row comes again.
RowidHigh == CHOOSE n \in {0} \cup {items[i].rowid : i \in DOMAIN items} :
                 \A i \in DOMAIN items : items[i].rowid <= n
NextRowid == RowidHigh + 1

TypeOK ==
    /\ PartialOn(items, Items, ItemRow) /\ PartialOn(found, Items, ItemRow)
    /\ mark \in Nat \cup {NoMark} /\ armed \subseteq Items
    /\ PartialOn(baseline, Items, Policies)
    /\ PartialOn(drifted, Items, Policies) /\ PartialOn(due, Items, Policies)
    /\ epoch \in Nat /\ cur \in Items \cup {None}
    /\ pc \in {"down", "idle", "discover", "marking", "baseline", "sync", "drift", "dispatch", "retire"}
    /\ pc \in {"marking", "retire"} <=> cur # None
    /\ pc = "marking" => cur \in DOMAIN found
    /\ \A i, j \in DOMAIN items : items[i].rowid = items[j].rowid => i = j
    /\ fuel \in [Steps -> Nat]
    /\ arms \in [Items -> Nat] /\ causes \in [Items -> Nat]
    /\ deliveries \in [Items -> Nat] /\ redone \in [Items -> Nat]
    /\ delivered \in [Items -> Policies \cup {None}] /\ known \subseteq Items
    /\ reused \subseteq Items

Init ==
    /\ \E s \in Scenarios :
        /\ fuel = s.fuel
        /\ \E r \in Bijection(s.backlog, 1 .. Cardinality(s.backlog)) :
            items = [i \in s.backlog |-> [rowid |-> r[i], policy |-> Default]]
    /\ mark = NoMark /\ armed = {} /\ baseline = <<>>
    /\ epoch = 0 /\ pc = "down" /\ found = <<>> /\ drifted = <<>> /\ due = <<>> /\ cur = None
    /\ arms = [i \in Items |-> 0] /\ causes = [i \in Items |-> 0]
    /\ deliveries = [i \in Items |-> 0] /\ redone = [i \in Items |-> 0]
    /\ delivered = [i \in Items |-> None] /\ known = {} /\ reused = {}

Spend(step) == fuel[step] > 0 /\ fuel' = [fuel EXCEPT ![step] = @ - 1]

\* _arm: INSERT ... ON CONFLICT DO NOTHING.
Arm(i) == /\ armed' = armed \cup {i}
          /\ arms' = IF i \in armed THEN arms ELSE [arms EXCEPT ![i] = @ + 1]

-----------------------------------------------------------------------------
(* discover_new_items                                                        *)

Start ==
    /\ pc = "down"
    /\ pc' = "idle" /\ epoch' = epoch + 1
    /\ UNCHANGED <<tables, found, drifted, due, cur, fuel, history>>

\* The consumer's first look skips the backlog.
FirstLook ==
    /\ pc = "idle" /\ mark = NoMark
    /\ mark' = RowidHigh
    /\ known' = DOMAIN items
    /\ UNCHANGED <<items, armed, baseline, epoch, pass, fuel, arms, causes, deliveries, redone,
                   delivered, reused>>

Discover ==
    /\ pc = "idle" /\ mark # NoMark
    /\ found' = Restrict(items, {i \in DOMAIN items : items[i].rowid > mark})
    /\ pc' = "discover"
    /\ UNCHANGED <<tables, epoch, drifted, due, cur, fuel, history>>

\* A mutant and the order of the code: ORDER BY rowid.
NextFoundAny(i)  == i \in DOMAIN found
NextFound(i) == i \in DOMAIN found /\ \A j \in DOMAIN found : found[i].rowid <= found[j].rowid

\* A mutant: stale rows are armed like the others.
DiscoverArmAll ==
    /\ pc = "discover"
    /\ \E i \in Items :
        /\ NextFound(i)
        /\ cur' = i
        /\ Arm(i)
        /\ known' = known \cup {i}
    /\ pc' = "marking"
    /\ UNCHANGED <<items, mark, baseline, epoch, found, drifted, due, fuel, causes, deliveries,
                   redone, delivered, reused>>

\* The audit row (item.discovered) commits the arming, before the watermark moves.
DiscoverArm ==
    /\ pc = "discover"
    /\ \E i \in Items :
        /\ NextFound(i)
        /\ cur' = i
        /\ IF Stale(i) THEN UNCHANGED <<armed, arms>> ELSE Arm(i)
        /\ known' = known \cup {i}
    /\ pc' = "marking"
    /\ UNCHANGED <<items, mark, baseline, epoch, found, drifted, due, fuel, causes, deliveries,
                   redone, delivered, reused>>

DiscoverMark ==
    /\ pc = "marking"
    /\ baseline' = [i \in DOMAIN baseline \cup {cur} |->
                        IF i = cur THEN found[cur].policy ELSE baseline[i]]
    /\ mark' = found[cur].rowid
    /\ found' = Restrict(found, DOMAIN found \ {cur})
    /\ cur' = None /\ pc' = "discover"
    /\ UNCHANGED <<items, armed, epoch, drifted, due, fuel, history>>

DiscoverEnd ==
    /\ pc = "discover" /\ DOMAIN found = {}
    /\ pc' = "baseline"
    /\ UNCHANGED <<tables, epoch, found, drifted, due, cur, fuel, history>>

-----------------------------------------------------------------------------
(* sync_policy_changes                                                       *)

\* A row this consumer never recorded gets its current policy, silently.
Baseline ==
    /\ pc = "baseline"
    /\ baseline' = [i \in DOMAIN baseline \cup DOMAIN items |->
                        IF i \in DOMAIN baseline THEN baseline[i] ELSE items[i].policy]
    /\ pc' = "sync"
    /\ UNCHANGED <<items, mark, armed, epoch, found, drifted, due, cur, fuel, history>>

HasDrifted(i) == i \in DOMAIN items \cap DOMAIN baseline /\ items[i].policy # baseline[i]

\* A mutant: only rows already tracked in trigger_dispatches are compared.
SyncReadArmed ==
    /\ pc = "sync"
    /\ drifted' = Restrict(PolicyOf(items), {i \in armed : HasDrifted(i)})
    /\ pc' = "drift"
    /\ UNCHANGED <<tables, epoch, found, due, cur, fuel, history>>

SyncRead ==
    /\ pc = "sync"
    /\ drifted' = Restrict(PolicyOf(items), {i \in Items : HasDrifted(i)})
    /\ pc' = "drift"
    /\ UNCHANGED <<tables, epoch, found, due, cur, fuel, history>>

\* One commit: the arming, and an UPDATE that needs the row to be there still.
SyncArm ==
    /\ pc = "drift"
    /\ \E i \in DOMAIN drifted :
        /\ Arm(i)
        /\ baseline' = [j \in DOMAIN baseline |-> IF j = i THEN drifted[i] ELSE baseline[j]]
        /\ drifted' = Restrict(drifted, DOMAIN drifted \ {i})
    /\ UNCHANGED <<items, mark, epoch, pc, found, due, cur, fuel, causes, deliveries, redone,
                   delivered, known, reused>>

-----------------------------------------------------------------------------
(* dispatch_due_items                                                        *)

\* A mutant: a left join.
DispatchReadLeft ==
    /\ pc = "drift" /\ DOMAIN drifted = {}
    /\ due' = [i \in armed |-> IF i \in DOMAIN items THEN items[i].policy ELSE None]
    /\ pc' = "dispatch"
    /\ UNCHANGED <<tables, epoch, found, drifted, cur, fuel, history>>

\* Another: staleness asked about a second time.
DispatchReadFresh ==
    /\ pc = "drift" /\ DOMAIN drifted = {}
    /\ due' = Restrict(PolicyOf(items), {i \in armed \cap DOMAIN items : ~Stale(i)})
    /\ pc' = "dispatch"
    /\ UNCHANGED <<tables, epoch, found, drifted, cur, fuel, history>>

\* The join with items leaves an armed row out whose item is gone.
DispatchRead ==
    /\ pc = "drift" /\ DOMAIN drifted = {}
    /\ due' = Restrict(PolicyOf(items), armed \cap DOMAIN items)
    /\ pc' = "dispatch"
    /\ UNCHANGED <<tables, epoch, found, drifted, cur, fuel, history>>

\* The handler is called and its outcome recorded, success or not (item.dispatched is
\* the event the actions subscribe to).
Deliver ==
    /\ pc = "dispatch"
    /\ \E i \in DOMAIN due :
        /\ cur' = i
        /\ deliveries' = [deliveries EXCEPT ![i] = @ + 1]
        /\ delivered' = [delivered EXCEPT ![i] = due[i]]
        /\ due' = Restrict(due, DOMAIN due \ {i})
    /\ pc' = "retire"
    /\ UNCHANGED <<tables, epoch, found, drifted, fuel, arms, causes, redone, known, reused>>

\* A mutant: the row is left armed.
RetireNot ==
    /\ pc = "retire"
    /\ cur' = None /\ pc' = "dispatch"
    /\ UNCHANGED <<tables, epoch, found, drifted, due, fuel, history>>

Retire ==
    /\ pc = "retire"
    /\ armed' = armed \ {cur}
    /\ cur' = None /\ pc' = "dispatch"
    /\ UNCHANGED <<items, mark, baseline, epoch, found, drifted, due, fuel, history>>

PassEnd ==
    /\ pc = "dispatch" /\ DOMAIN due = {}
    /\ pc' = "idle"
    /\ UNCHANGED <<tables, epoch, found, drifted, due, cur, fuel, history>>

-----------------------------------------------------------------------------
(* The adapters, the operator, and the end of the process.                   *)

\* store_reading: INSERT OR IGNORE, so only an item that is not there changes anything.
Store(i) ==
    /\ Spend("store")
    /\ i \notin DOMAIN items
    /\ items' = [j \in DOMAIN items \cup {i} |->
                    IF j = i THEN [rowid |-> NextRowid, policy |-> Default] ELSE items[j]]
    /\ known' = known \ {i}
    /\ reused' = IF \E n \in {mark} \cup {found[j].rowid : j \in DOMAIN found} : NextRowid <= n
                 THEN reused \cup {i} ELSE reused \ {i}
    /\ causes' = [causes EXCEPT ![i] = IF mark = NoMark \/ Stale(i) THEN @ ELSE @ + 1]
    /\ UNCHANGED <<mark, armed, baseline, epoch, pass, arms, deliveries, redone, delivered>>

\* override_item
Override(i, p) ==
    /\ Spend("override")
    /\ i \in DOMAIN items /\ p # items[i].policy
    /\ items' = [items EXCEPT ![i].policy = p]
    /\ causes' = [causes EXCEPT ![i] = @ + 1]
    /\ UNCHANGED <<mark, armed, baseline, epoch, pass, arms, deliveries, redone, delivered, known, reused>>

\* rearm_item: refused while the row is still armed.
Rearm(i) ==
    /\ Spend("rearm")
    /\ i \in DOMAIN items \ armed
    /\ Arm(i)
    /\ causes' = [causes EXCEPT ![i] = @ + 1]
    /\ UNCHANGED <<items, mark, baseline, epoch, pass, deliveries, redone, delivered, known, reused>>

\* reset_dispatch_state
Reset(i) ==
    /\ Spend("reset")
    /\ i \in armed \cup DOMAIN baseline
    /\ armed' = armed \ {i}
    /\ baseline' = Restrict(baseline, DOMAIN baseline \ {i})
    /\ UNCHANGED <<items, mark, epoch, pass, history>>

\* dev_ops.delete_item.  A pass that has found the row will still record its policy,
\* which arms the item if it is stored again with another one.
Delete(i) ==
    /\ Spend("delete")
    /\ i \in DOMAIN items
    /\ items' = Restrict(items, DOMAIN items \ {i})
    /\ armed' = armed \ {i}
    /\ baseline' = Restrict(baseline, DOMAIN baseline \ {i})
    /\ causes' = [causes EXCEPT ![i] = IF i \in DOMAIN found THEN @ + 1 ELSE @]
    /\ UNCHANGED <<mark, epoch, pass, arms, deliveries, redone, delivered, known, reused>>

\* The tables survive.  An item delivered and not yet retired is delivered again, one
\* armed and not yet marked is discovered again.
Crash ==
    /\ Spend("crash")
    /\ pc # "down"
    /\ pc' = "down" /\ found' = <<>> /\ drifted' = <<>> /\ due' = <<>> /\ cur' = None
    /\ redone' = [i \in Items |-> IF pc = "retire" /\ i = cur THEN redone[i] + 1 ELSE redone[i]]
    /\ causes' = [i \in Items |-> IF pc = "marking" /\ i = cur THEN causes[i] + 1 ELSE causes[i]]
    /\ UNCHANGED <<tables, epoch, arms, deliveries, delivered, known, reused>>

-----------------------------------------------------------------------------
Poll == \/ Start \/ FirstLook \/ Discover \/ DiscoverArm \/ DiscoverMark \/ DiscoverEnd
        \/ Baseline \/ SyncRead \/ SyncArm \/ DispatchRead \/ Deliver \/ Retire \/ PassEnd

World == \/ \E i \in Items : \/ Store(i) \/ Rearm(i) \/ Reset(i) \/ Delete(i)
                             \/ \E p \in Policies : Override(i, p)
         \/ Crash

Next == Poll \/ World

Spec == Init /\ [][Next]_vars

\* The process is restarted and its poll loop never stops (main catches what a poll
\* raises); nothing is assumed of the rest of the system.
FairSpec == Spec /\ WF_vars(Poll)

-----------------------------------------------------------------------------
(* Properties.                                                               *)

\* An item is handed on at most once for each time it was armed; the only repeats are
\* the rows a crash left armed after their delivery.
DeliveredOncePerArm == \A i \in Items : deliveries[i] <= arms[i] + redone[i]

\* Nothing floods the air: an item is armed at most once for each reason to (a fresh
\* row stored after the first start, an operator's edit or rearm, a discovery that a
\* crash or the deletion of its row cut short).  The backlog and the stale rows have no such reason.
ArmsAreCaused == \A i \in Items : arms[i] <= causes[i]

\* The watermark moves past no row that no discovery looked at, whatever is stored or
\* deleted while a pass works through the rows it found and wherever it dies, except
\* rows that took over the rowid of a deleted one.
NothingIsSkipped ==
    mark # NoMark => \A i \in DOMAIN items : items[i].rowid <= mark => i \in known \cup reused

\* A policy edited on a row the watermark has passed is delivered under the new policy in
\* the end, even if the process dies on the way, unless it is edited again, deleted or
\* reset.  (A row edited before a discovery looked at it has the new policy recorded by
\* that discovery: no drift is left to see, so a stale one is not delivered for its edit.)
EditIsDelivered ==
    \A i \in Items, p \in Policies :
        HasDrifted(i) /\ items[i].policy = p /\ items[i].rowid <= mark
            ~> \/ delivered[i] = p
               \/ i \notin DOMAIN items \/ i \notin DOMAIN baseline
               \/ items[i].policy # p

\* What is armed is retired in the end, as long as its item is there.
ArmedIsRetired ==
    \A i \in Items : i \in armed /\ i \in DOMAIN items ~> i \notin armed \/ i \notin DOMAIN items

-----------------------------------------------------------------------------
(* What the repository says of the program and the program does not do.      *)

\* "Finds rows inserted into `items` since this consumer last looked": no stored row is
\* below the watermark without a discovery having looked at it.
NewItemsAreDiscovered ==
    mark # NoMark => \A i \in DOMAIN items : items[i].rowid <= mark => i \in known
=============================================================================
