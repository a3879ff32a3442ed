------------------------------ MODULE Pipeline ------------------------------
(***************************************************************************)
(* The content pipeline (actions/): what happens to an item between        *)
(* item.dispatched and item.content_ready.  Three threads that meet only   *)
(* in the database and on the broker:                                      *)
(*                                                                         *)
(*   ai      item.dispatched -> a summary in items -> item.ai_settled      *)
(*   chunk   item.ai_settled -> rows in chunks                             *)
(*   ready   polls the audit log for items both are done with, publishes   *)
(*           item.content_ready, then records that it did                  *)
(*                                                                         *)
(* One action is one committed transaction or one publish, with the reads  *)
(* that lead to it.  A text is the id of the dispatch whose ai run stored  *)
(* it, Raw for extracted_contents, NoText for none.  Timestamps are whole  *)
(* seconds (datetime('now')): the clock, which the other steps may or may  *)
(* not leave behind.  item.chunked is published to nobody and left out.    *)
(***************************************************************************)
EXTENDS Integers, FiniteSets

CONSTANTS Items,      \* items.(source, item_id)
          Empty,      \* the items without extracted_contents
          Scenarios,  \* the ways an ai run may end, and how often the environment may
                      \* take each step
          None        \* no job, no item

Steps    == {"dispatch", "lose", "duplicate", "second", "fail", "crash", "delete", "store"}
Outcomes == {"text",      \* a summary, or contents or title in its place
             "abort",     \* ai_on_failure = abort
             "raise"}     \* the provider raised, ai_on_failure = continue_with_contents

Scenario == [outcomes : SUBSET Outcomes, fuel : [Steps -> Nat]]

ASSUME EmptyAssumption == Empty \subseteq Items
ASSUME WaysAssumption  == Scenarios \subseteq Scenario

VARIABLES
    \* tables: items and items.summary, chunks, item_readiness.published_at, and the
    \* audit log's action.<name>.executed rows: event ids and latest recorded_at
    stored, summary, chunks, published, aiDone, aiAt, chunkDone, chunkAt,
    \* MQTT: messages in flight, the next CloudEvent id
    dispatched, settled, nextId,
    \* the threads: a message being handled, the poll's rows and the item it published
    ai, chunk, batch, marking,
    outcomes, clock, fuel,
    \* history: item.content_ready events per item, chunk completions no such event
    \* followed, items whose last dispatch was aborted, settles per dispatch, dispatches
    \* whose audit row was lost, items whose round was cut short, items stored again
    ready, fresh, aborted, settles, unrecorded, torn, again

tables  == <<stored, summary, chunks, published>>
audit   == <<aiDone, aiAt, chunkDone, chunkAt>>
broker  == <<dispatched, settled, nextId>>
poll    == <<batch, marking>>
history == <<ready, fresh, aborted, settles, unrecorded, torn, again>>
vars    == <<tables, audit, broker, ai, chunk, poll, outcomes, clock, fuel, history>>

Raw    == 0
NoText == -1
Message == [eid : Nat \ {0}, item : Items]
Settled == [eid : Nat \ {0}, item : Items, of : Nat \ {0}]
AiJob   == [eid : Nat \ {0}, item : Items, pc : {"run", "audit", "publish"},
            found : BOOLEAN, out : BOOLEAN]
ChunkJob == [eid : Nat \ {0}, item : Items, pc : {"store", "audit"}, text : Nat \cup {NoText}]

ASSUME NobodyAssumption == None \notin Items \cup AiJob \cup ChunkJob

TypeOK ==
    /\ stored \subseteq Items /\ summary \in [Items -> Nat]
    /\ chunks \in [Items -> Nat \cup {NoText}] /\ published \in [Items -> Nat]
    /\ aiDone \subseteq Nat /\ chunkDone \subseteq Nat
    /\ aiAt \in [Items -> Nat] /\ chunkAt \in [Items -> Nat]
    /\ dispatched \subseteq Message /\ settled \subseteq Settled /\ nextId \in Nat \ {0}
    /\ ai \in AiJob \cup {None} /\ chunk \in ChunkJob \cup {None}
    /\ batch \subseteq Items /\ marking \in Items \cup {None}
    /\ outcomes \subseteq Outcomes /\ clock \in Nat /\ fuel \in [Steps -> Nat]
    /\ ready \in [Items -> Nat] /\ fresh \subseteq Items /\ aborted \subseteq Items
    /\ settles \subseteq [of : Nat, eid : Nat, item : Items] /\ unrecorded \subseteq Nat
    /\ torn \subseteq Items /\ again \subseteq Items
    \* what the audit log, the readiness rows and the chunks say never runs ahead
    /\ \A i \in Items : /\ aiAt[i] <= clock /\ chunkAt[i] <= clock /\ published[i] <= clock
                        /\ summary[i] < nextId /\ chunks[i] < nextId

Init ==
    /\ \E s \in Scenarios : outcomes = s.outcomes /\ fuel = s.fuel
    /\ stored = Items /\ summary = [i \in Items |-> Raw] /\ chunks = [i \in Items |-> NoText]
    /\ published = [i \in Items |-> 0]
    /\ aiDone = {} /\ chunkDone = {}
    /\ aiAt = [i \in Items |-> 0] /\ chunkAt = [i \in Items |-> 0]
    /\ dispatched = {} /\ settled = {} /\ nextId = 1
    /\ ai = None /\ chunk = None /\ batch = {} /\ marking = None
    /\ clock = 1
    /\ ready = [i \in Items |-> 0] /\ fresh = {} /\ aborted = {}
    /\ settles = {} /\ unrecorded = {} /\ torn = {} /\ again = {}

Spend(step) == fuel[step] > 0 /\ fuel' = [fuel EXCEPT ![step] = @ - 1]

\* A message is consumed, or is delivered once more later (QoS 1).
Consume(queue, m) == \/ queue' = queue \ {m} /\ UNCHANGED fuel
                     \/ queue' = queue /\ Spend("duplicate")

HasContents(i) == i \in stored \ Empty

\* _already_processed; a mutant first.
NeverProcessed(done, eid)   == FALSE
AlreadyProcessed(done, eid) == eid \in done

-----------------------------------------------------------------------------
(* ai: AiAction in _make_on_message's handler                                *)

AiTake ==
    /\ ai = None
    /\ \E m \in dispatched :
        /\ Consume(dispatched, m)
        /\ ai' = IF AlreadyProcessed(aiDone, m.eid) THEN None
                 ELSE [eid |-> m.eid, item |-> m.item, pc |-> "run",
                       found |-> HasContents(m.item), out |-> FALSE]
    /\ UNCHANGED <<tables, audit, settled, nextId, chunk, poll, outcomes, clock, history>>

AiAt(pc) == ai # None /\ ai.pc = pc

\* A mutant: nothing to summarize, nothing to publish.
AiSkipsNothing ==
    /\ AiAt("run") /\ ~ai.found
    /\ ai' = [ai EXCEPT !.pc = "audit"]
    /\ UNCHANGED <<tables, audit, broker, chunk, poll, outcomes, clock, fuel, history>>

\* No row, or no contents: settled all the same.
AiFindsNothing ==
    /\ AiAt("run") /\ ~ai.found
    /\ ai' = [ai EXCEPT !.pc = "audit", !.out = TRUE]
    /\ UNCHANGED <<tables, audit, broker, chunk, poll, outcomes, clock, fuel, history>>

\* store_summary: an UPDATE, which finds nothing if the item is gone by now.
AiStores ==
    /\ AiAt("run") /\ ai.found /\ "text" \in outcomes
    /\ summary' = IF ai.item \in stored THEN [summary EXCEPT ![ai.item] = ai.eid] ELSE summary
    /\ ai' = [ai EXCEPT !.pc = "audit", !.out = TRUE]
    /\ UNCHANGED <<stored, chunks, published, audit, broker, chunk, poll, outcomes, clock, fuel,
                   history>>

\* item.ai_aborted is recorded and run() returns no output.
AiAborts ==
    /\ AiAt("run") /\ ai.found /\ "abort" \in outcomes
    /\ ai' = [ai EXCEPT !.pc = "audit", !.out = FALSE]
    /\ aborted' = aborted \cup {ai.item}
    /\ UNCHANGED <<tables, audit, broker, chunk, poll, outcomes, clock, fuel,
                   ready, fresh, settles, unrecorded, torn, again>>

\* The exception reaches the handler: no audit row, nothing published.
AiRaises ==
    /\ AiAt("run") /\ ai.found /\ "raise" \in outcomes
    /\ ai' = None
    /\ UNCHANGED <<tables, audit, broker, chunk, poll, outcomes, clock, fuel, history>>

\* action.ai.executed; a failure to record it is logged and passed over.
AiAudit ==
    /\ AiAt("audit")
    /\ ai' = [ai EXCEPT !.pc = "publish"]
    /\ \/ /\ aiDone' = aiDone \cup {ai.eid}
          /\ aiAt' = [aiAt EXCEPT ![ai.item] = clock]
          /\ UNCHANGED <<fuel, unrecorded>>
       \/ /\ Spend("fail")
          /\ unrecorded' = unrecorded \cup {ai.eid}
          /\ UNCHANGED <<aiDone, aiAt>>
    /\ UNCHANGED <<tables, chunkDone, chunkAt, broker, chunk, poll, outcomes, clock,
                   ready, fresh, aborted, settles, torn, again>>

AiPublish ==
    /\ AiAt("publish")
    /\ ai' = None
    /\ IF ai.out
       THEN /\ settled' = settled \cup {[eid |-> nextId, item |-> ai.item, of |-> ai.eid]}
            /\ settles' = settles \cup {[of |-> ai.eid, eid |-> nextId, item |-> ai.item]}
            /\ nextId' = nextId + 1
       ELSE UNCHANGED <<settled, settles, nextId>>
    /\ UNCHANGED <<tables, audit, dispatched, chunk, poll, outcomes, clock, fuel,
                   ready, fresh, aborted, unrecorded, torn, again>>

-----------------------------------------------------------------------------
(* chunk: ChunkAction in the same handler                                    *)

\* A mutant: the text the event was published for, not the one in items.
TextOfEvent(m) == IF HasContents(m.item) THEN m.of ELSE NoText
TextOf(m) == IF HasContents(m.item) THEN summary[m.item] ELSE NoText

ChunkTake ==
    /\ chunk = None
    /\ \E m \in settled :
        /\ Consume(settled, m)
        /\ chunk' = IF AlreadyProcessed(chunkDone, m.eid) THEN None
                    ELSE [eid |-> m.eid, item |-> m.item, pc |-> "store", text |-> TextOf(m)]
    /\ UNCHANGED <<tables, audit, dispatched, nextId, ai, poll, outcomes, clock, history>>

\* store_chunks replaces the rows of the item; without a text run() returns before it.
ChunkStores ==
    /\ chunk # None /\ chunk.pc = "store"
    /\ chunks' = IF chunk.text = NoText THEN chunks ELSE [chunks EXCEPT ![chunk.item] = chunk.text]
    /\ chunk' = [chunk EXCEPT !.pc = "audit"]
    /\ UNCHANGED <<stored, summary, published, audit, broker, ai, poll, outcomes, clock, fuel, history>>

ChunkAudit ==
    /\ chunk # None /\ chunk.pc = "audit"
    /\ chunk' = None
    /\ \/ /\ chunkDone' = chunkDone \cup {chunk.eid}
          /\ chunkAt' = [chunkAt EXCEPT ![chunk.item] = clock]
          /\ fresh' = fresh \cup {chunk.item}
          /\ UNCHANGED fuel
       \/ Spend("fail") /\ UNCHANGED <<chunkDone, chunkAt, fresh>>
    /\ UNCHANGED <<tables, aiDone, aiAt, broker, ai, poll, outcomes, clock,
                   ready, aborted, settles, unrecorded, torn, again>>

-----------------------------------------------------------------------------
(* ready: content_ready.check_and_publish                                    *)

\* Two mutants of _find_settled_items: either action will do, an inner join.
IsSettledByEither(i) ==
    /\ aiAt[i] # 0 \/ chunkAt[i] # 0
    /\ published[i] = 0 \/ aiAt[i] > published[i] \/ chunkAt[i] > published[i]
IsSettledAgain(i) ==
    /\ aiAt[i] # 0 /\ chunkAt[i] # 0
    /\ published[i] # 0
    /\ aiAt[i] > published[i] \/ chunkAt[i] > published[i]
IsSettled(i) ==
    /\ aiAt[i] # 0 /\ chunkAt[i] # 0
    /\ published[i] = 0 \/ aiAt[i] > published[i] \/ chunkAt[i] > published[i]

ReadyFind ==
    /\ batch = {} /\ marking = None
    /\ \E i \in Items : IsSettled(i)
    /\ batch' = {i \in Items : IsSettled(i)}
    /\ UNCHANGED <<tables, audit, broker, ai, chunk, marking, outcomes, clock, fuel, history>>

ReadyPublish ==
    /\ marking = None
    /\ \E i \in batch :
        /\ marking' = i
        /\ batch' = batch \ {i}
        /\ ready' = [ready EXCEPT ![i] = @ + 1]
        /\ fresh' = fresh \ {i}
    /\ UNCHANGED <<tables, audit, broker, ai, chunk, outcomes, clock, fuel,
                   aborted, settles, unrecorded, torn, again>>

\* A mutant: a timestamp rounded up.
ReadyMarkUp ==
    /\ marking # None
    /\ published' = [published EXCEPT ![marking] = clock + 1]
    /\ marking' = None
    /\ UNCHANGED <<stored, summary, chunks, audit, broker, ai, chunk, batch, outcomes, clock, fuel,
                   history>>

\* mark_item_ready_published
ReadyMark ==
    /\ marking # None
    /\ published' = [published EXCEPT ![marking] = clock]
    /\ marking' = None
    /\ UNCHANGED <<stored, summary, chunks, audit, broker, ai, chunk, batch, outcomes, clock, fuel,
                   history>>

-----------------------------------------------------------------------------
(* The environment                                                           *)

\* The dispatcher delivers an item, for the first time or after a rearm.
Dispatch(i) ==
    /\ Spend("dispatch")
    /\ i \in stored
    /\ dispatched' = dispatched \cup {[eid |-> nextId, item |-> i]}
    /\ nextId' = nextId + 1
    /\ aborted' = aborted \ {i}
    /\ UNCHANGED <<tables, audit, settled, ai, chunk, poll, outcomes, clock,
                   ready, fresh, settles, unrecorded, torn, again>>

\* clean_session = True: a message nobody is connected for is gone.
Lose ==
    /\ Spend("lose")
    /\ \/ /\ \E m \in dispatched : dispatched' = dispatched \ {m}
          /\ UNCHANGED <<settled, torn>>
       \/ \E m \in settled : /\ settled' = settled \ {m}
                             /\ torn' = torn \cup {m.item}
                             /\ UNCHANGED dispatched
    /\ UNCHANGED <<tables, audit, nextId, ai, chunk, poll, outcomes, clock,
                   ready, fresh, aborted, settles, unrecorded, again>>

Second ==
    /\ Spend("second")
    /\ clock' = clock + 1
    /\ UNCHANGED <<tables, audit, broker, ai, chunk, poll, outcomes, history>>

\* dev_ops.delete_item, one transaction; the audit log stays.
Delete(i) ==
    /\ Spend("delete")
    /\ i \in stored
    /\ stored' = stored \ {i}
    /\ summary' = [summary EXCEPT ![i] = Raw] /\ chunks' = [chunks EXCEPT ![i] = NoText]
    /\ torn' = torn \cup {i}
    /\ UNCHANGED <<published, audit, broker, ai, chunk, poll, outcomes, clock,
                   ready, fresh, aborted, settles, unrecorded, again>>

\* The adapter fetches a deleted item again, or dev_ops.create_item puts it back under the
\* same id, for which the audit log and item_readiness still have their rows.
Store(i) ==
    /\ Spend("store")
    /\ i \notin stored
    /\ stored' = stored \cup {i}
    /\ again' = again \cup {i}
    /\ UNCHANGED <<summary, chunks, published, audit, broker, ai, chunk, poll, outcomes, clock,
                   ready, fresh, aborted, settles, unrecorded, torn>>

\* The actions process dies and is started again, with nothing queued for it.
Crash ==
    /\ Spend("crash")
    /\ dispatched' = {} /\ settled' = {}
    /\ ai' = None /\ chunk' = None /\ batch' = {} /\ marking' = None
    /\ torn' = torn \cup {m.item : m \in settled}
                    \cup {i \in Items : \/ ai # None /\ ai.item = i
                                        \/ chunk # None /\ chunk.item = i}
    /\ UNCHANGED <<tables, audit, nextId, outcomes, clock,
                   ready, fresh, aborted, settles, unrecorded, again>>

-----------------------------------------------------------------------------
AiStep    == \/ AiTake \/ AiFindsNothing \/ AiStores \/ AiAborts \/ AiRaises \/ AiAudit \/ AiPublish
ChunkStep == ChunkTake \/ ChunkStores \/ ChunkAudit
ReadyStep == ReadyFind \/ ReadyPublish \/ ReadyMark
World     == \/ \E i \in Items : Dispatch(i) \/ Delete(i) \/ Store(i)
             \/ Lose \/ Second \/ Crash

Next == AiStep \/ ChunkStep \/ ReadyStep \/ World

Spec == Init /\ [][Next]_vars

\* Each thread keeps running: every handler and every tick catches what it raises.
FairSpec == Spec /\ WF_vars(AiStep) /\ WF_vars(ChunkStep) /\ WF_vars(ReadyStep)

-----------------------------------------------------------------------------
(* Properties.                                                               *)

\* One dispatch is settled once, however often its event is delivered, unless the audit
\* row that says so was never written.
DispatchSettlesOnce ==
    \A m, n \in settles : m.of = n.of => m = n \/ m.of \in unrecorded

\* An item is announced only after both actions have finished with one and the same dispatch
\* of it (a lost audit row hides that ai has, and does not undo it), and then it has chunks,
\* if it has contents.  Two limits: of an item that was deleted and stored again the rows
\* of the earlier life count, its chunks are gone.  And it need not be the last dispatch: on a
\* rearm ai's new row and chunk's old one bring the next announcement about, before chunk ran.
BothFinished(i) ==
    \E m \in settles : m.item = i /\ m.of \in aiDone \cup unrecorded /\ m.eid \in chunkDone
ReadyIsPrepared ==
    \A i \in Items : ready[i] > 0 =>
        /\ BothFinished(i)
        /\ HasContents(i) /\ i \notin again => chunks[i] # NoText

\* When the threads are idle, the chunks of an item that went through undisturbed are
\* those of its summary, though rearmed rounds overlap and their events overtake each
\* other: chunk reads the summary, not its event.
Idle(i) == /\ ai = None /\ chunk = None
           /\ \A m \in dispatched \cup settled : m.item # i
ChunksMatchSummary ==
    \A i \in Items : Idle(i) /\ chunks[i] # NoText /\ i \notin torn => chunks[i] = summary[i]

\* An item both actions have finished with is announced, even if the process dies between
\* the announcement and its record; and from the moment on that nothing more is lost, a
\* dispatch in flight gets its item announced, whatever happened before and whatever is
\* deleted or delivered again.
Undisturbed == /\ outcomes = {"text"}
               /\ fuel["lose"] = 0 /\ fuel["crash"] = 0 /\ fuel["fail"] = 0
DispatchIsAnnounced ==
    \A i \in Items :
     /\ aiAt[i] # 0 /\ chunkAt[i] # 0 ~> ready[i] > 0
     /\ Undisturbed /\ (\E m \in dispatched : m.item = i /\ m.eid \notin aiDone) ~> ready[i] > 0

-----------------------------------------------------------------------------
(* What the repository says of the program and the program does not do.      *)

\* "nothing is published -> chunk never runs -> content_ready never fires -> the item
\* never airs": an aborted item is not announced for the abort.
AbortedStaysOff ==
    [][\A i \in aborted : ready'[i] > ready[i] => i \in fresh]_vars
=============================================================================
