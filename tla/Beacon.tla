------------------------------- MODULE Beacon -------------------------------
(***************************************************************************)
(* The beacon process (beacon/__main__.py) around the durable transmit     *)
(* schedule.  Three threads and the ui share the SQLite file and hold no   *)
(* lock between two commits:                                               *)
(*                                                                         *)
(*   mqtt     one item.content_ready message at a time is turned into      *)
(*            schedule rows (_handle_content_ready_event);                 *)
(*   house    reconciles publishes that never arrived, by the same         *)
(*            handler, and purges stale rows (_run_housekeeping_loop);     *)
(*   transmit reads a snapshot of the due rows and airs them one by one    *)
(*            (_run_transmit_loop, _drain_kind);                           *)
(*   ui       re-schedules an item on the operator's request               *)
(*            (schedule_retransmit), deletes items, edits settings.        *)
(*                                                                         *)
(* One action is one committed transaction together with the reads that    *)
(* lead to it.  The environment (publishes, operator edits, losses,        *)
(* crashes) may take each kind of step as often as a budget says.          *)
(***************************************************************************)
EXTENDS TxSchedule

CONSTANTS EventKey,   \* items.event_key: [Items -> keys], NoKey for NULL
          NoKey,
          Date,       \* items.source_date_time: [Items -> Nat]
          ChunkSets,  \* the chunk index sets actions.chunk may store
          MaxCap,     \* the largest transmit count an operator may set
          QueueSizes, \* the queue sizes an operator may set (0: no limit)
          FirstDue,   \* what _transmit_due may say of a row never sent:
                      \* {TRUE} for once and interval, BOOLEAN for cron
          Messages,   \* beacon_manual_tx.id
          Scenarios,  \* the settings of a behaviour's start, the chunks its items
                      \* have, and how often the environment may take each step
          None        \* no item, no job, no unit, no message

Steps == {"publish", "republish", "rechunk", "lose", "duplicate", "second", "age", "crash", "fail",
          "type", "enable", "policy", "queue", "retransmit", "delete", "manual"}

Scenario == [type : Kinds, cap : 1 .. MaxCap, max : QueueSizes, chunks : SUBSET Chunks,
             fuel : [Steps -> Nat]]

ASSUME DateAssumption     == Date \in [Items -> Nat]
ASSUME ChunkSetAssumption == ChunkSets \subseteq SUBSET Chunks
ASSUME MaxCapAssumption   == MaxCap \in Nat \ {0}
ASSUME QueueAssumption    == QueueSizes \subseteq Nat
ASSUME FirstDueAssumption == FirstDue \subseteq BOOLEAN
ASSUME MessageAssumption  == Messages \subseteq Nat
ASSUME ScenarioAssumption == Scenarios \subseteq Scenario

VARIABLES
    \* settings, policies and the tables other components own
    beaconType, enabled, cap, queueMax, stored, chunks, published,
    \* MQTT: messages in flight, the next CloudEvent id, and the item that
    \* actions.content_ready has published and not yet marked
    msgs, nextId, marking,
    \* the schedule, and beacon's audit rows beacon.content_ready.enqueued:
    \* the latest recorded_at per item and the event ids
    sched, enqueued, handled,
    \* the threads' local state
    job, housePc, houseKind, missed, txPc, txKind, batch, airing,
    \* beacon_manual_tx, the transmit thread's snapshot of it, the message on air
    manual, manualList, sending,
    clock, fuel,
    \* history: airings of a unit since it was last armed, airings whose
    \* record a crash lost, airings since another thread removed its row
    \* (-1: not removed), items declared superseded since their last publish,
    \* and the same two counts for manual messages
    aired, lost, ghost, beaten, tried, relived

settings == <<beaconType, enabled, cap, queueMax>>
tables   == <<stored, chunks, published>>
broker   == <<msgs, nextId, marking>>
audit    == <<enqueued, handled>>
house    == <<housePc, houseKind, missed>>
transmit == <<txPc, txKind, batch, airing>>
desk     == <<manual, manualList, sending, tried, relived>>
history  == <<aired, lost, ghost, beaten>>
vars     == <<settings, tables, broker, sched, audit, job, house, transmit, desk,
              clock, fuel, history>>

Handlers == {"mqtt", "house", "ui"}
Job      == [item : Items, eid : Nat, kind : Kinds, max : Nat,
             older : SUBSET Unit, todo : SUBSET Unit]
Airing   == [unit : Unit, gen : Nat, retire : BOOLEAN]

ASSUME NoneAssumption == None \notin Airing /\ None \notin Messages

TypeOK ==
    /\ beaconType \in Kinds /\ enabled \in BOOLEAN /\ cap \in 1 .. MaxCap /\ queueMax \in QueueSizes
    /\ stored \subseteq Items /\ chunks \in [Items -> SUBSET Chunks]
    /\ published \in [Items -> Nat] /\ enqueued \in [Items -> Nat]
    /\ msgs \subseteq [eid : Nat \ {0}, item : Items]
    /\ nextId \in Nat \ {0} /\ handled \subseteq Nat
    /\ marking \in Items \cup {None}
    /\ Table(sched) /\ Table(batch)
    /\ job \in [Handlers -> Job \cup {None}]
    /\ housePc \in {"idle", "reconcile"} /\ houseKind \in Kinds
    /\ missed \subseteq Items
    /\ txPc \in {"start", "drain", "manual"} /\ txKind \in Kinds
    /\ airing \in Airing \cup {None}
    /\ manual \in [Messages -> Kinds \cup {"new", "gone"}]
    /\ manualList \subseteq Messages /\ sending \in Messages \cup {None}
    /\ tried \in [Messages -> Nat] /\ relived \in [Messages -> Nat]
    /\ clock \in Nat /\ fuel \in [Steps -> Nat]
    /\ aired \in [Unit -> Nat] /\ lost \in [Unit -> Nat] /\ ghost \in [Unit -> Int]
    /\ beaten \subseteq Items

Init ==
    /\ \E s \in Scenarios : /\ beaconType = s.type /\ cap = s.cap /\ queueMax = s.max
                          /\ fuel = s.fuel /\ chunks = [i \in Items |-> s.chunks]
    /\ enabled = TRUE /\ stored = Items
    /\ published = [i \in Items |-> 0] /\ enqueued = [i \in Items |-> 0]
    /\ msgs = {} /\ nextId = 1 /\ handled = {} /\ marking = None
    /\ sched = <<>> /\ batch = <<>>
    /\ job = [h \in Handlers |-> None]
    /\ housePc = "idle" /\ houseKind = "voice" /\ missed = {}
    /\ txPc = "start" /\ txKind = "voice" /\ airing = None
    /\ manual = [m \in Messages |-> "new"] /\ manualList = {} /\ sending = None
    /\ tried = [m \in Messages |-> 0] /\ relived = [m \in Messages |-> 0]
    /\ clock = 1
    /\ aired = [u \in Unit |-> 0] /\ lost = [u \in Unit |-> 0]
    /\ ghost = [u \in Unit |-> -1] /\ beaten = {}

Spend(step) == fuel[step] > 0 /\ fuel' = [fuel EXCEPT ![step] = @ - 1]

\* Rows taken from the schedule by anyone but the transmit thread.
Removed(S) == ghost' = [u \in Unit |-> IF u \in S \cap DOMAIN sched THEN 0 ELSE ghost[u]]

-----------------------------------------------------------------------------
(* The handler of one item.content_ready, run by the mqtt thread for a      *)
(* message and by the house thread for a missed publish (event id 0).       *)

SameEvent(i, j) == /\ {i, j} \subseteq stored
                   /\ EventKey[i] # NoKey /\ EventKey[i] = EventKey[j]

NewerPending(i, k) == {u \in OfKind(sched, k) : SameEvent(u.item, i) /\ Date[u.item] > Date[i]}
OlderPending(i, k) == {u \in OfKind(sched, k) : SameEvent(u.item, i) /\ Date[u.item] < Date[i]}

\* The queue size and the chunks are read once the last older row is retired.
Plan(i, eid, k, max, older) ==
    [item |-> i, eid |-> eid, kind |-> k, max |-> max, older |-> older,
     todo |-> IF older = {} THEN UnitsOf(i, k, chunks[i]) ELSE {}]

\* The reads up to the first commit: superseded, or a job for handler h.
Handle(h, i, eid) ==
    /\ job[h] = None
    /\ IF NewerPending(i, beaconType) # {}
       THEN beaten' = beaten \cup {i} /\ UNCHANGED job
       ELSE /\ job' = [job EXCEPT ![h] =
                        Plan(i, eid, beaconType, queueMax, OlderPending(i, beaconType))]
            /\ UNCHANGED beaten

\* _retire_older_for_event_key: one row and its audit row per commit.
RetireOlder(h) ==
    /\ job[h] # None
    /\ \E u \in job[h].older :
        /\ sched' = Without(sched, {u})
        /\ Removed({u})
        /\ job' = [job EXCEPT ![h] = Plan(@.item, @.eid, @.kind, queueMax, @.older \ {u})]
        /\ beaten' = beaten \cup {u.item}
    /\ UNCHANGED <<settings, tables, broker, audit, house, transmit, desk, clock, fuel,
                   aired, lost>>

\* add_tx_schedule_unit, lowest chunk index first; the ui's schedule_retransmit
\* passes no max_size (0).  A row the trim drops counts as removed, u itself included.
AddRow(h) ==
    /\ job[h] # None
    /\ job[h].older = {}
    /\ HasRoom(sched)
    /\ \E u \in job[h].todo, due \in FirstDue :
        /\ \A v \in job[h].todo : u.ref <= v.ref
        /\ LET t == AddUnit(sched, u, job[h].eid, due, job[h].max)
               dropped == (DOMAIN sched \cup {u}) \ DOMAIN t
           IN  /\ sched' = t
               /\ ghost' = [v \in Unit |-> IF v \in dropped THEN 0
                                           ELSE IF v = u THEN -1 ELSE ghost[v]]
        /\ job' = [job EXCEPT ![h].todo = @ \ {u}]
        /\ aired' = [aired EXCEPT ![u] = 0]
        /\ lost'  = [lost EXCEPT ![u] = 0]
    /\ UNCHANGED <<settings, tables, broker, audit, house, transmit, desk, clock, fuel, beaten>>

\* The audit row that closes the job: beacon.content_ready.enqueued, which the
\* reconcile query reads, or the ui's beacon.retransmit.enqueued, which it does not.
Finish(h) ==
    /\ job[h] # None
    /\ job[h].older = {} /\ job[h].todo = {}
    /\ job' = [job EXCEPT ![h] = None]
    /\ IF h = "ui"
       THEN UNCHANGED audit
       ELSE /\ enqueued' = [enqueued EXCEPT ![job[h].item] = clock]
            /\ handled'  = handled \cup ({job[h].eid} \ {0})
    /\ UNCHANGED <<settings, tables, broker, sched, house, transmit, desk, clock, fuel, history>>

-----------------------------------------------------------------------------
(* mqtt thread: on_message, at most once per event id (_already_enqueued).  *)
(* A message may stay in flight: QoS 1 delivers at least once.              *)

AlwaysFresh(eid) == FALSE                      \* a mutant: no look at the audit log
AlreadyEnqueued(eid) == eid \in handled

Receive ==
    /\ job["mqtt"] = None
    /\ \E m \in msgs :
        /\ \/ msgs' = msgs \ {m} /\ UNCHANGED fuel
           \/ UNCHANGED msgs /\ Spend("duplicate")
        /\ IF AlreadyEnqueued(m.eid)
           THEN UNCHANGED <<job, beaten>>
           ELSE Handle("mqtt", m.item, m.eid)
    /\ UNCHANGED <<settings, tables, nextId, marking, sched, audit, house, transmit, desk,
                   clock, aired, lost, ghost>>

\* on_message catches whatever the handler raises (a locked database): the message
\* is consumed and the rest of its job forgotten.
ReceiveFails ==
    /\ Spend("fail")
    /\ job["mqtt"] # None
    /\ job' = [job EXCEPT !["mqtt"] = None]
    /\ UNCHANGED <<settings, tables, broker, sched, audit, house, transmit, desk, clock, history>>

-----------------------------------------------------------------------------
(* house thread: _run_housekeeping_loop.                                    *)

\* The rows of _reconcile_missed_content_ready's query (0 is no audit row and
\* no item_readiness row).
MissedInnerJoin(i) == enqueued[i] # 0 /\ published[i] > enqueued[i]           \* a mutant
Missed(i) == published[i] # 0 /\ (enqueued[i] = 0 \/ published[i] > enqueued[i])

\* A tick whose reconcile interval has elapsed and whose query returns something.
HouseReconcile ==
    /\ housePc = "idle"
    /\ \E i \in Items : Missed(i)
    /\ housePc' = "reconcile" /\ houseKind' = beaconType
    /\ missed' = {i \in Items : Missed(i)}
    /\ UNCHANGED <<settings, tables, broker, sched, audit, job, transmit, desk, clock, fuel,
                   history>>

HouseNextMissed ==
    /\ housePc = "reconcile"
    /\ \E i \in missed : Handle("house", i, 0) /\ missed' = missed \ {i}
    /\ UNCHANGED <<settings, tables, broker, sched, audit, housePc, houseKind, transmit, desk,
                   clock, fuel, aired, lost, ghost>>

\* A mutant: a disabled beacon purges nothing.
HousePurgeIfEnabled ==
    /\ missed = {} /\ job["house"] = None
    /\ LET kind  == IF housePc = "idle" THEN beaconType ELSE houseKind
           stale == IF enabled THEN StaleRows(sched, kind) ELSE {}
       IN  /\ sched' = Without(sched, stale)
           /\ Removed(stale)
    /\ housePc' = "idle"
    /\ UNCHANGED <<settings, tables, broker, audit, job, houseKind, missed, transmit, desk,
                   clock, fuel, aired, lost, beaten>>

\* _purge_stale_rows, whether or not the beacon is enabled: the end of a tick, at
\* the kind the tick read at its start, or the whole of a tick without reconcile.
HousePurge ==
    /\ missed = {} /\ job["house"] = None
    /\ LET kind  == IF housePc = "idle" THEN beaconType ELSE houseKind
           stale == StaleRows(sched, kind)
       IN  /\ sched' = Without(sched, stale)
           /\ Removed(stale)
    /\ housePc' = "idle"
    /\ UNCHANGED <<settings, tables, broker, audit, job, houseKind, missed, transmit, desk,
                   clock, fuel, aired, lost, beaten>>

-----------------------------------------------------------------------------
(* transmit thread: _run_transmit_loop and _drain_kind.                     *)

\* Start-up clears the rows of the other kind.
TxStart ==
    /\ txPc = "start"
    /\ txPc' = "drain" /\ txKind' = beaconType
    /\ sched' = Without(sched, RowsOfOtherKinds(sched, beaconType))
    /\ Removed(RowsOfOtherKinds(sched, beaconType))
    /\ UNCHANGED <<settings, tables, broker, audit, job, house, desk, batch, airing,
                   clock, fuel, aired, lost, beaten>>

\* A mutant: no scheduled rows, nothing to send.
TxTickIfRows ==
    /\ txPc = "drain" /\ DOMAIN batch = {} /\ airing = None
    /\ txKind' = beaconType
    /\ LET others == IF txKind = beaconType THEN {} ELSE RowsOfOtherKinds(sched, beaconType)
       IN  /\ sched' = Without(sched, others)
           /\ Removed(others)
    /\ IF enabled /\ OfKind(sched, beaconType) # {}
       THEN txPc' = "manual" /\ manualList' = {m \in Messages : manual[m] = beaconType}
       ELSE UNCHANGED <<txPc, manualList>>
    /\ UNCHANGED <<settings, tables, broker, audit, job, house, batch, airing, manual, sending,
                   tried, relived, clock, fuel, aired, lost, beaten>>

\* A tick, the last drain being over: a changed BEACON_TYPE clears the rows of the
\* other kind, an enabled beacon then reads the manual messages to send.
TxTick ==
    /\ txPc = "drain" /\ DOMAIN batch = {} /\ airing = None
    /\ txKind' = beaconType
    /\ LET others == IF txKind = beaconType THEN {} ELSE RowsOfOtherKinds(sched, beaconType)
       IN  /\ sched' = Without(sched, others)
           /\ Removed(others)
    /\ IF enabled
       THEN txPc' = "manual" /\ manualList' = {m \in Messages : manual[m] = beaconType}
       ELSE UNCHANGED <<txPc, manualList>>
    /\ UNCHANGED <<settings, tables, broker, audit, job, house, batch, airing, manual, sending,
                   tried, relived, clock, fuel, aired, lost, beaten>>

\* _drain_manual_tx: oldest first, attempted, then deleted whatever came of it.
TxManualAttempt ==
    /\ txPc = "manual" /\ sending = None
    /\ \E m \in manualList :
        /\ \A n \in manualList : m <= n
        /\ sending' = m
        /\ manualList' = manualList \ {m}
        /\ tried' = [tried EXCEPT ![m] = @ + 1]
    /\ UNCHANGED <<settings, tables, broker, sched, audit, job, house, transmit, manual,
                   relived, clock, fuel, history>>

\* A mutant: the row is not deleted.
TxManualKeep ==
    /\ sending # None
    /\ UNCHANGED manual
    /\ sending' = None
    /\ UNCHANGED <<settings, tables, broker, sched, audit, job, house, transmit, manualList,
                   tried, relived, clock, fuel, history>>

TxManualDelete ==
    /\ sending # None
    /\ manual' = [manual EXCEPT ![sending] = "gone"]
    /\ sending' = None
    /\ UNCHANGED <<settings, tables, broker, sched, audit, job, house, transmit, manualList,
                   tried, relived, clock, fuel, history>>

\* due_tx_schedule_rows: the rows of the kind the tick resolved.
TxSnapshot ==
    /\ txPc = "manual" /\ sending = None /\ manualList = {}
    /\ txPc' = "drain"
    /\ batch' = Restrict(sched, OfKind(sched, txKind))
    /\ UNCHANGED <<settings, tables, broker, sched, audit, job, house, txKind, airing, desk,
                   clock, fuel, history>>

\* The head of the batch is already at the cap of its live policy: retired unaired.
TxOverBudget ==
    /\ txPc = "drain" /\ airing = None
    /\ \E u \in DOMAIN batch :
        /\ IsOldest(batch, u)
        /\ batch[u].sent >= cap
        /\ batch' = Without(batch, {u})
        /\ sched' = RecordSent(sched, u, TRUE)
    /\ UNCHANGED <<settings, tables, broker, audit, job, house, desk, txPc, txKind, airing,
                   clock, fuel, history>>

TxNotDue ==
    /\ txPc = "drain" /\ airing = None
    /\ \E u \in DOMAIN batch :
        /\ IsOldest(batch, u)
        /\ batch[u].sent < cap /\ ~batch[u].due
        /\ batch' = Without(batch, {u})
    /\ UNCHANGED <<settings, tables, broker, sched, audit, job, house, desk, txPc, txKind, airing,
                   clock, fuel, history>>

\* A mutant: a failed attempt does not count.
TxAttemptRetries ==
    /\ txPc = "drain" /\ airing = None
    /\ \E u \in DOMAIN batch, ok \in BOOLEAN :
        /\ IsOldest(batch, u)
        /\ batch[u].sent < cap /\ batch[u].due
        /\ batch' = Without(batch, {u})
        /\ airing' = IF ~ok THEN None ELSE
                    [unit |-> u, gen |-> batch[u].gen, retire |-> batch[u].sent + 1 >= cap]
        /\ IF ok
           THEN /\ aired' = [aired EXCEPT ![u] = @ + 1]
                /\ ghost' = [ghost EXCEPT ![u] = IF @ >= 0 THEN @ + 1 ELSE @]
           ELSE UNCHANGED <<aired, ghost>>
    /\ UNCHANGED <<settings, tables, broker, sched, audit, job, house, desk, txPc, txKind,
                   clock, fuel, lost, beaten>>

\* Render and hand off.  It may fail (no callsign, no text, synthesis or spool
\* error), which counts as an attempt all the same.
TxAttempt ==
    /\ txPc = "drain" /\ airing = None
    /\ \E u \in DOMAIN batch, ok \in BOOLEAN :
        /\ IsOldest(batch, u)
        /\ batch[u].sent < cap /\ batch[u].due
        /\ batch' = Without(batch, {u})
        /\ airing' = [unit |-> u, gen |-> batch[u].gen, retire |-> batch[u].sent + 1 >= cap]
        /\ IF ok
           THEN /\ aired' = [aired EXCEPT ![u] = @ + 1]
                /\ ghost' = [ghost EXCEPT ![u] = IF @ >= 0 THEN @ + 1 ELSE @]
           ELSE UNCHANGED <<aired, ghost>>
    /\ UNCHANGED <<settings, tables, broker, sched, audit, job, house, desk, txPc, txKind,
                   clock, fuel, lost, beaten>>

\* record_tx_schedule_sent, by primary key.  The history of a unit ends when its row
\* is gone and no drain holds it.
TxRecord ==
    /\ airing # None
    /\ LET t    == RecordSent(sched, airing.unit, airing.retire)
           over == {airing.unit} \ DOMAIN t
       IN  /\ sched' = t
           /\ aired' = [u \in Unit |-> IF u \in over THEN 0 ELSE aired[u]]
           /\ lost'  = [u \in Unit |-> IF u \in over THEN 0 ELSE lost[u]]
           /\ ghost' = [u \in Unit |-> IF u \in over THEN -1 ELSE ghost[u]]
    /\ airing' = None
    /\ UNCHANGED <<settings, tables, broker, audit, job, house, desk, txPc, txKind, batch,
                   clock, fuel, beaten>>

-----------------------------------------------------------------------------
(* The environment.                                                         *)

\* actions.chunk stores the chunks of an item armed again, maybe fewer or more...
Rechunk(i) ==
    /\ Spend("rechunk")
    /\ i \in stored
    /\ \E cs \in ChunkSets \ {chunks[i]} : chunks' = [chunks EXCEPT ![i] = cs]
    /\ UNCHANGED <<settings, stored, published, broker, sched, audit, job, house, transmit, desk,
                   clock, history>>

\* ... actions.content_ready publishes...
Publish(i) ==
    /\ Spend("publish")
    /\ i \in stored /\ marking = None
    /\ msgs' = msgs \cup {[eid |-> nextId, item |-> i]}
    /\ nextId' = nextId + 1
    /\ marking' = i
    /\ beaten' = beaten \ {i}
    /\ UNCHANGED <<settings, tables, sched, audit, job, house, transmit, desk,
                   clock, aired, lost, ghost>>

\* ... and records it in item_readiness afterwards (mark_item_ready_published).
MarkPublished ==
    /\ marking # None
    /\ published' = [published EXCEPT ![marking] = clock]
    /\ marking' = None
    /\ UNCHANGED <<settings, stored, chunks, msgs, nextId, sched, audit, job, house, transmit,
                   desk, clock, fuel, history>>

\* clean_session = True: a message nobody is connected for is gone.
Lose ==
    /\ Spend("lose")
    /\ \E m \in msgs : msgs' = msgs \ {m}
    /\ UNCHANGED <<settings, tables, nextId, marking, sched, audit, job, house, transmit,
                   desk, clock, history>>

Second ==
    /\ Spend("second")
    /\ clock' = clock + 1
    /\ UNCHANGED <<settings, tables, broker, sched, audit, job, house, transmit, desk, history>>

\* Time passes: a row's interval or cron slot comes round...
BecomeDue(u) ==
    /\ u \in DOMAIN sched /\ ~sched[u].due
    /\ sched' = [sched EXCEPT ![u].due = TRUE]
    /\ UNCHANGED <<settings, tables, broker, audit, job, house, transmit, desk, clock, fuel,
                   history>>

\* ... or it has waited for BEACON_MAX_QUEUED_AGE_SECONDS.
BecomeStale(u) ==
    /\ Spend("age")
    /\ u \in DOMAIN sched /\ ~sched[u].stale
    /\ sched' = [sched EXCEPT ![u].stale = TRUE]
    /\ UNCHANGED <<settings, tables, broker, audit, job, house, transmit, desk, clock, history>>

\* Settings and policies are edited while the beacon runs.
SetType ==
    /\ Spend("type")
    /\ beaconType' \in Kinds \ {beaconType}
    /\ UNCHANGED <<enabled, cap, queueMax, tables, broker, sched, audit, job, house, transmit, desk,
                   clock, history>>

SetEnabled ==
    /\ Spend("enable")
    /\ enabled' = ~enabled
    /\ UNCHANGED <<beaconType, cap, queueMax, tables, broker, sched, audit, job, house, transmit, desk,
                   clock, history>>

SetPolicy ==
    /\ Spend("policy")
    /\ cap' \in (1 .. MaxCap) \ {cap}
    /\ UNCHANGED <<beaconType, enabled, queueMax, tables, broker, sched, audit, job, house,
                   transmit, desk, clock, history>>

SetQueueMax ==
    /\ Spend("queue")
    /\ queueMax' \in QueueSizes \ {queueMax}
    /\ UNCHANGED <<beaconType, enabled, cap, tables, broker, sched, audit, job, house,
                   transmit, desk, clock, history>>

\* The ui's "Re-transmit": schedule_retransmit, which asks nothing about supersession.
Retransmit(i) ==
    /\ Spend("retransmit")
    /\ i \in stored /\ job["ui"] = None
    /\ job' = [job EXCEPT !["ui"] = Plan(i, 0, beaconType, 0, {})]
    /\ beaten' = beaten \ {i}
    /\ UNCHANGED <<settings, tables, broker, sched, audit, house, transmit, desk, clock,
                   aired, lost, ghost>>

\* dev_ops.delete_item, one transaction.
DeleteItem(i) ==
    /\ Spend("delete")
    /\ i \in stored
    /\ stored' = stored \ {i}
    /\ chunks' = [chunks EXCEPT ![i] = {}]
    /\ sched' = Without(sched, RowsOfItem(sched, i))
    /\ Removed(RowsOfItem(sched, i))
    /\ UNCHANGED <<settings, published, broker, audit, job, house, transmit, desk, clock,
                   aired, lost, beaten>>

\* The ui's "Transmit now": enqueue_manual_tx.
EnqueueManual(m) ==
    /\ Spend("manual")
    /\ manual[m] = "new"
    /\ \A n \in Messages : n < m => manual[n] # "new"       \* AUTOINCREMENT
    /\ \E k \in Kinds : manual' = [manual EXCEPT ![m] = k]
    /\ UNCHANGED <<settings, tables, broker, sched, audit, job, house, transmit, manualList,
                   sending, tried, relived, clock, history>>

\* The beacon process dies and is started again: the tables survive, its threads'
\* state and the messages in flight do not.  An airing or a manual message that was
\* attempted and not yet recorded is forgotten.
Crash ==
    /\ Spend("crash")
    /\ job' = [job EXCEPT !["mqtt"] = None, !["house"] = None]
    /\ msgs' = {}
    /\ housePc' = "idle" /\ missed' = {}
    /\ txPc' = "start" /\ batch' = <<>> /\ airing' = None
    /\ lost' = [u \in Unit |-> IF airing # None /\ airing.unit = u THEN lost[u] + 1 ELSE lost[u]]
    /\ manualList' = {} /\ sending' = None
    /\ relived' = [m \in Messages |-> IF m = sending THEN relived[m] + 1 ELSE relived[m]]
    /\ UNCHANGED <<settings, tables, nextId, marking, sched, audit, houseKind, txKind, manual,
                   tried, clock, aired, ghost, beaten>>

\* The actions process dies between a publish and its mark.
PublisherCrash ==
    /\ Spend("republish")
    /\ marking # None
    /\ marking' = None
    /\ UNCHANGED <<settings, tables, msgs, nextId, sched, audit, job, house, transmit, desk,
                   clock, history>>

-----------------------------------------------------------------------------
HandlerStep(h) == RetireOlder(h) \/ AddRow(h) \/ Finish(h)

HouseStep == HouseReconcile \/ HouseNextMissed \/ HousePurge

TxStep == \/ TxStart \/ TxTick \/ TxManualAttempt \/ TxManualDelete \/ TxSnapshot
          \/ TxOverBudget \/ TxNotDue \/ TxAttempt \/ TxRecord

Operator == \/ SetType \/ SetEnabled \/ SetPolicy \/ SetQueueMax
            \/ \E i \in Items : Retransmit(i) \/ DeleteItem(i)
            \/ \E m \in Messages : EnqueueManual(m)

World == \/ \E i \in Items : Rechunk(i) \/ Publish(i)
         \/ MarkPublished \/ Lose \/ Second \/ Crash \/ PublisherCrash
         \/ \E u \in Unit : BecomeDue(u) \/ BecomeStale(u)

Next == \/ Receive \/ ReceiveFails
        \/ \E h \in Handlers : HandlerStep(h)
        \/ HouseStep
        \/ TxStep
        \/ Operator
        \/ World

Spec == Init /\ [][Next]_vars

\* Each thread keeps running, time keeps passing for rows that wait for a slot, and
\* the reconcile interval elapses again and again.
Fairness ==
    /\ \A h \in Handlers : WF_vars(HandlerStep(h))
    /\ WF_vars(HouseReconcile) /\ WF_vars(HouseNextMissed) /\ WF_vars(HousePurge)
    /\ WF_vars(TxStep)
    /\ WF_vars(\E u \in Unit : BecomeDue(u))
    /\ WF_vars(MarkPublished)

FairSpec == Spec /\ Fairness

-----------------------------------------------------------------------------
(* Properties.                                                              *)

\* No unit is put on the air more often than its policy allows for one arming,
\* however its row is re-armed, purged, superseded or deleted while it is being
\* aired.  The only extra airings are those whose record a crash lost.
WithinBudget == \A u \in Unit : aired[u] <= MaxCap + lost[u]

\* A unit whose row another thread took away (superseded, purged, trimmed, its item
\* deleted, its kind switched off) airs at most once more: in the drain that had
\* already read the row.  record_tx_schedule_sent never brings the row back.
CancelledAirsAtMostOnce == \A u \in Unit : ghost[u] <= 1

\* A redelivered CloudEvent does not arm its item a second time: no handler works on
\* an event whose enqueued audit row exists.
EventArmsOnce ==
    \A h \in Handlers : job[h] # None /\ job[h].eid # 0 => job[h].eid \notin handled

\* The manual messages of a kind are attempted in the order they were typed, one at a
\* time, and never twice unless a crash fell between an attempt and its delete:
\* whatever the snapshot the drain works through has missed, and whatever the operator
\* switches meanwhile, the table is the queue that Delivery describes.
Outbox == INSTANCE Delivery
            WITH Jobs <- Messages, Lanes <- Kinds, Nobody <- None,
                 state <- manual, hand <- sending, forgotten <- relived
ManualDelivery == Outbox!Spec

\* Drop-oldest drops the oldest: while a kind is within its cap, arming a unit drops
\* neither that unit nor a row younger than one it keeps.
TrimSparesTheNewest ==
    [][\A h \in Handlers : AddRow(h) =>
         \A u \in Unit : /\ job[h] # None /\ u \in job[h].todo \ job'[h].todo
                         /\ Cardinality(OfKind(sched, u.kind)) <= job[h].max
           => /\ u \in DOMAIN sched'
              /\ \A v \in OfKind(sched, u.kind) \ DOMAIN sched', w \in OfKind(sched', u.kind) :
                    w \in DOMAIN sched => sched[v].rowid < sched[w].rowid]_vars

\* What actions.content_ready published is handled in the end, whether its message
\* arrived, was lost, or died with the process in the middle of scheduling: the item
\* is enqueued, or was found superseded.
Outstanding(i) == published[i] > enqueued[i]
EveryPublishIsHandled ==
    \A i \in Items : Outstanding(i) ~> ~Outstanding(i) \/ i \in beaten

\* Nothing lingers while the threads run: an enabled beacon works every row of its
\* kind off, however often the link fails, a stale row is dropped or refreshed, enabled
\* or not, and a manual message goes out once the beacon is enabled for its kind.
EverythingLeaves ==
    /\ \A u \in Unit :
        /\ u \in DOMAIN sched /\ u.kind = beaconType
            ~> u \notin DOMAIN sched \/ u.kind # beaconType \/ ~enabled
        /\ u \in StaleRows(sched, beaconType) ~> u \notin StaleRows(sched, beaconType)
    /\ \A m \in Messages :
        manual[m] = beaconType /\ enabled ~> manual[m] # beaconType \/ ~enabled

-----------------------------------------------------------------------------
(* What the repository says of the program and the program does not do.     *)

\* "an already-superseded item is skipped": an item that was declared superseded since its
\* last publish, and was never scheduled, is not scheduled by the reconcile pass.
SupersededStaysOff ==
    [][\A i \in beaten : enqueued[i] = 0 /\ job["house"] = None /\ job'["house"] # None
                           => job'["house"].item # i]_vars

\* "a rearm ... must be scheduled again, not silently skipped": retiring what one CloudEvent
\* armed never deletes what another one has armed since.
RearmIsKept ==
    [][TxRecord /\ airing.gen # 0 /\ airing.unit \in DOMAIN sched \ DOMAIN sched'
         => sched[airing.unit].gen \in {0, airing.gen}]_vars
=============================================================================
