--------------------------- MODULE PipelineProofs ---------------------------
(***************************************************************************)
(* What holds of the content pipeline for every set of items, every way an *)
(* ai run may end and any number of dispatches, losses, duplicates and     *)
(* crashes: type correctness, that a dispatch is settled once, that        *)
(* nothing is announced before it is prepared, and that the chunks of an   *)
(* undisturbed item are those of its summary.                              *)
(***************************************************************************)
EXTENDS Pipeline, TLAPS

-----------------------------------------------------------------------------
(* Type correctness. *)

TablesOK ==
    /\ stored \subseteq Items /\ summary \in [Items -> Nat]
    /\ chunks \in [Items -> Nat \cup {NoText}] /\ published \in [Items -> Nat]
    /\ aiDone \subseteq Nat /\ chunkDone \subseteq Nat
    /\ aiAt \in [Items -> Nat] /\ chunkAt \in [Items -> Nat]
ThreadsOK ==
    /\ dispatched \subseteq Message /\ settled \subseteq Settled /\ nextId \in Nat \ {0}
    /\ ai \in AiJob \cup {None} /\ chunk \in ChunkJob \cup {None}
    /\ batch \subseteq Items /\ marking \in Items \cup {None}
HistoryOK ==
    /\ outcomes \subseteq Outcomes /\ clock \in Nat /\ fuel \in [Steps -> Nat]
    /\ ready \in [Items -> Nat] /\ fresh \subseteq Items /\ aborted \subseteq Items
    /\ settles \subseteq [of : Nat, eid : Nat, item : Items] /\ unrecorded \subseteq Nat
    /\ torn \subseteq Items /\ again \subseteq Items
InTime ==
    \A i \in Items : /\ aiAt[i] <= clock /\ chunkAt[i] <= clock /\ published[i] <= clock
                     /\ summary[i] < nextId /\ chunks[i] < nextId

\* Ids come from nextId: every id in use lies below it, an event has an id of its own, and what
\* a chunk job has read is the id of an earlier dispatch.
Young ==
    /\ clock > 0
    /\ \A m \in dispatched : m.eid < nextId
    /\ \A m \in settled : m.eid < nextId
    /\ \A m, n \in settled : m.eid = n.eid => m = n
    /\ \A n \in chunkDone : n < nextId
    /\ ai # None => ai.eid < nextId
    /\ chunk # None => chunk.eid < nextId /\ chunk.text < nextId

LEMMA TypeParts == TypeOK <=> TablesOK /\ ThreadsOK /\ HistoryOK /\ InTime
BY DEF TypeOK, TablesOK, ThreadsOK, HistoryOK, InTime

LEMMA TypePartsNext == TablesOK' /\ ThreadsOK' /\ HistoryOK' /\ InTime' => TypeOK'
BY DEF TypeOK, TablesOK, ThreadsOK, HistoryOK, InTime

LEMMA TypeStart == Init => TypeOK /\ Young
<1> SUFFICES ASSUME Init PROVE TypeOK /\ Young
    OBVIOUS
<1>1. PICK s \in Scenarios : outcomes = s.outcomes /\ fuel = s.fuel
    BY DEF Init
<1>2. outcomes \subseteq Outcomes /\ fuel \in [Steps -> Nat]
    BY <1>1, WaysAssumption DEF Scenario
<1>3. TablesOK /\ ThreadsOK /\ InTime /\ Young
    BY DEF Init, TablesOK, ThreadsOK, InTime, Young, Raw, NoText
<1>4. HistoryOK
    BY <1>2 DEF Init, HistoryOK
<1> QED BY <1>3, <1>4, TypeParts

\* The bounds of InTime grow, and the steps that write what they bound write something below them.
LEMMA TypeAi == ASSUME TypeOK, Young, AiStep PROVE TypeOK' /\ Young'
<1>1. TablesOK /\ ThreadsOK /\ HistoryOK /\ InTime
    BY TypeParts
<1>2. CASE AiTake
    <2>1. PICK m \in dispatched :
            /\ Consume(dispatched, m)
            /\ ai' = IF AlreadyProcessed(aiDone, m.eid) THEN None
                     ELSE [eid |-> m.eid, item |-> m.item, pc |-> "run", found |-> HasContents(m.item), out |-> FALSE]
        BY <1>2 DEF AiTake
    <2>2. m.eid \in Nat \ {0} /\ m.item \in Items /\ m.eid < nextId /\ HasContents(m.item) \in BOOLEAN
        BY <1>1 DEF ThreadsOK, Message, Young, HasContents
    <2>3. ai' \in AiJob \cup {None} /\ (ai' # None => ai'.eid < nextId)
        BY <2>1, <2>2 DEF AiJob
    <2>4. dispatched' \subseteq dispatched /\ fuel' \in [Steps -> Nat]
        BY <1>1, <2>1 DEF Consume, Spend, HistoryOK, Steps
    <2> QED BY <1>1, <1>2, <2>3, <2>4, TypePartsNext
            DEF AiTake, tables, audit, poll, history, TablesOK, ThreadsOK, HistoryOK, InTime, Young
<1>3. CASE AiFindsNothing \/ AiAborts \/ AiRaises
    <2>1. ai' \in AiJob \cup {None} /\ (ai' # None => ai'.eid < nextId)
        BY <1>1, <1>3 DEF AiFindsNothing, AiAborts, AiRaises, AiAt, ThreadsOK, AiJob, Young
    <2>2. aborted' \subseteq Items
        BY <1>1, <1>3 DEF AiFindsNothing, AiAborts, AiRaises, AiAt, ThreadsOK, AiJob, HistoryOK, history
    <2> QED BY <1>1, <1>3, <2>1, <2>2, TypePartsNext
            DEF AiFindsNothing, AiAborts, AiRaises, tables, audit, broker, poll, history,
                TablesOK, ThreadsOK, HistoryOK, InTime, Young
<1>4. CASE AiStores
    <2>1. ai \in AiJob /\ ai.eid \in Nat /\ ai.eid < nextId
        BY <1>1, <1>4 DEF AiStores, AiAt, ThreadsOK, AiJob, Young
    <2>2. ai' \in AiJob /\ ai'.eid < nextId
        BY <1>4, <2>1 DEF AiStores, AiJob
    <2>3. summary' \in [Items -> Nat] /\ \A i \in Items : summary'[i] < nextId
        BY <1>1, <1>4, <2>1 DEF AiStores, TablesOK, InTime
    <2> QED BY <1>1, <1>4, <2>2, <2>3, TypePartsNext
            DEF AiStores, audit, broker, poll, history, TablesOK, ThreadsOK, HistoryOK, InTime, Young
<1>5. CASE AiAudit
    <2>1. ai \in AiJob /\ ai.eid \in Nat /\ ai.item \in Items /\ ai.eid < nextId
        BY <1>1, <1>5 DEF AiAudit, AiAt, ThreadsOK, AiJob, Young
    <2>2. ai' \in AiJob /\ ai'.eid < nextId
        BY <1>5, <2>1 DEF AiAudit, AiJob
    <2>3. aiDone' \subseteq Nat /\ aiAt' \in [Items -> Nat] /\ \A i \in Items : aiAt'[i] <= clock
        BY <1>1, <1>5, <2>1 DEF AiAudit, TablesOK, HistoryOK, InTime
    <2>4. fuel' \in [Steps -> Nat] /\ unrecorded' \subseteq Nat
        BY <1>1, <1>5, <2>1 DEF AiAudit, Spend, HistoryOK, Steps
    <2> QED BY <1>1, <1>5, <2>2, <2>3, <2>4, TypePartsNext
            DEF AiAudit, tables, broker, poll, TablesOK, ThreadsOK, HistoryOK, InTime, Young
<1>6. CASE AiPublish
    <2>1. ai \in AiJob /\ ai.eid \in Nat \ {0} /\ ai.item \in Items
        BY <1>1, <1>6 DEF AiPublish, AiAt, ThreadsOK, AiJob
    <2>2. CASE UNCHANGED <<settled, settles, nextId>>
        BY <1>1, <1>6, <2>2, TypePartsNext
           DEF AiPublish, tables, audit, poll, TablesOK, ThreadsOK, HistoryOK, InTime, Young
    <2>3. CASE ai.out
        <3>1. /\ settled' = settled \cup {[eid |-> nextId, item |-> ai.item, of |-> ai.eid]}
              /\ settles' = settles \cup {[of |-> ai.eid, eid |-> nextId, item |-> ai.item]}
              /\ nextId' = nextId + 1 /\ nextId \in Nat \ {0}
            BY <1>1, <1>6, <2>3 DEF AiPublish, ThreadsOK
        <3>2. settled' \subseteq Settled /\ settles' \subseteq [of : Nat, eid : Nat, item : Items]
            BY <1>1, <2>1, <3>1 DEF ThreadsOK, HistoryOK, Settled
        <3>3. \A m, n \in settled' : m.eid < nextId' /\ (m.eid = n.eid => m = n)
            BY <1>1, <3>1 DEF Young, ThreadsOK, Settled
        <3>4. /\ \A m \in dispatched : m.eid < nextId'
              /\ \A n \in chunkDone : n < nextId'
              /\ chunk # None => chunk.eid < nextId' /\ chunk.text < nextId'
              /\ \A i \in Items : summary[i] < nextId' /\ chunks[i] < nextId'
            <4>1. /\ \A m \in dispatched : m.eid \in Nat
                  /\ \A n \in chunkDone : n \in Nat
                  /\ chunk # None => chunk.eid \in Nat /\ chunk.text \in Int
                  /\ \A i \in Items : summary[i] \in Nat /\ chunks[i] \in Int
                BY <1>1 DEF TablesOK, ThreadsOK, Message, ChunkJob, NoText
            <4> QED BY <1>1, <3>1, <4>1 DEF Young, InTime
        <3> QED BY <1>1, <1>6, <3>1, <3>2, <3>3, <3>4, TypePartsNext
                DEF AiPublish, tables, audit, poll, TablesOK, ThreadsOK, HistoryOK, InTime, Young
    <2> QED BY <1>6, <2>2, <2>3 DEF AiPublish
<1> QED BY <1>2, <1>3, <1>4, <1>5, <1>6 DEF AiStep

LEMMA TypeChunk == ASSUME TypeOK, Young, ChunkStep PROVE TypeOK' /\ Young'
<1>1. TablesOK /\ ThreadsOK /\ HistoryOK /\ InTime
    BY TypeParts
<1>2. CASE ChunkTake
    <2>1. PICK m \in settled :
            /\ Consume(settled, m)
            /\ chunk' = IF AlreadyProcessed(chunkDone, m.eid) THEN None
                        ELSE [eid |-> m.eid, item |-> m.item, pc |-> "store", text |-> TextOf(m)]
        BY <1>2 DEF ChunkTake
    <2>2. m.eid \in Nat \ {0} /\ m.item \in Items /\ m.eid < nextId
        BY <1>1 DEF ThreadsOK, Settled, Young
    <2>3. TextOf(m) \in Nat \cup {NoText} /\ TextOf(m) < nextId
        BY <1>1, <2>2 DEF TextOf, TablesOK, ThreadsOK, InTime, NoText
    <2>4. chunk' \in ChunkJob \cup {None} /\ (chunk' # None => chunk'.eid < nextId /\ chunk'.text < nextId)
        BY <2>1, <2>2, <2>3 DEF ChunkJob
    <2>5. settled' \subseteq settled /\ fuel' \in [Steps -> Nat]
        BY <1>1, <2>1 DEF Consume, Spend, HistoryOK, Steps
    <2> QED BY <1>1, <1>2, <2>4, <2>5, TypePartsNext
            DEF ChunkTake, tables, audit, poll, history, TablesOK, ThreadsOK, HistoryOK, InTime, Young
<1>3. CASE ChunkStores
    <2>1. chunk \in ChunkJob /\ chunk.eid < nextId /\ chunk.text < nextId /\ chunk.text \in Nat \cup {NoText}
        BY <1>1, <1>3 DEF ChunkStores, ThreadsOK, ChunkJob, Young
    <2>2. chunk' \in ChunkJob /\ chunk'.eid < nextId /\ chunk'.text < nextId
        BY <1>3, <2>1 DEF ChunkStores, ChunkJob
    <2>3. chunks' \in [Items -> Nat \cup {NoText}] /\ \A i \in Items : chunks'[i] < nextId
        BY <1>1, <1>3, <2>1 DEF ChunkStores, TablesOK, InTime
    <2> QED BY <1>1, <1>3, <2>2, <2>3, TypePartsNext
            DEF ChunkStores, audit, broker, poll, history, TablesOK, ThreadsOK, HistoryOK, InTime, Young
<1>4. CASE ChunkAudit
    <2>1. chunk \in ChunkJob /\ chunk.eid \in Nat /\ chunk.eid < nextId /\ chunk.item \in Items
        BY <1>1, <1>4 DEF ChunkAudit, ThreadsOK, ChunkJob, Young
    <2>2. /\ chunkDone' \subseteq Nat /\ \A n \in chunkDone' : n < nextId
          /\ chunkAt' \in [Items -> Nat] /\ \A i \in Items : chunkAt'[i] <= clock
        <3>1. CASE chunkDone' = chunkDone \cup {chunk.eid} /\ chunkAt' = [chunkAt EXCEPT ![chunk.item] = clock]
            <4>1. chunkDone' \subseteq Nat /\ \A n \in chunkDone' : n < nextId
                BY <1>1, <2>1, <3>1 DEF TablesOK, Young
            <4>2. chunkAt' \in [Items -> Nat] /\ \A i \in Items : chunkAt'[i] <= clock
                BY <1>1, <2>1, <3>1 DEF TablesOK, HistoryOK, InTime
            <4> QED BY <4>1, <4>2
        <3>2. CASE UNCHANGED <<chunkDone, chunkAt>>
            BY <1>1, <3>2 DEF TablesOK, InTime, Young
        <3> QED BY <1>4, <3>1, <3>2 DEF ChunkAudit
    <2>3. fuel' \in [Steps -> Nat] /\ fresh' \subseteq Items
        BY <1>1, <1>4, <2>1 DEF ChunkAudit, Spend, HistoryOK, Steps
    <2> QED BY <1>1, <1>4, <2>2, <2>3, TypePartsNext
            DEF ChunkAudit, tables, broker, poll, TablesOK, ThreadsOK, HistoryOK, InTime, Young
<1> QED BY <1>2, <1>3, <1>4 DEF ChunkStep

LEMMA TypeReady == ASSUME TypeOK, Young, ReadyStep PROVE TypeOK' /\ Young'
<1>1. TablesOK /\ ThreadsOK /\ HistoryOK /\ InTime
    BY TypeParts
<1>2. CASE ReadyFind
    BY <1>1, <1>2, TypePartsNext
       DEF ReadyFind, tables, audit, broker, history, TablesOK, ThreadsOK, HistoryOK, InTime, Young
<1>4. CASE ReadyPublish
    <2>1. batch' \subseteq Items /\ marking' \in Items \cup {None} /\ ready' \in [Items -> Nat] /\ fresh' \subseteq Items
        BY <1>1, <1>4 DEF ReadyPublish, ThreadsOK, HistoryOK
    <2> QED BY <1>1, <1>4, <2>1, TypePartsNext
            DEF ReadyPublish, tables, audit, broker, TablesOK, ThreadsOK, HistoryOK, InTime, Young
<1>3. CASE ReadyMark
    <2>1. published' \in [Items -> Nat] /\ \A i \in Items : published'[i] <= clock
        BY <1>1, <1>3 DEF ReadyMark, TablesOK, ThreadsOK, HistoryOK, InTime
    <2> QED BY <1>1, <1>3, <2>1, TypePartsNext
            DEF ReadyMark, audit, broker, history, TablesOK, ThreadsOK, HistoryOK, InTime, Young
<1> QED BY <1>2, <1>3, <1>4 DEF ReadyStep

LEMMA TypeWorld == ASSUME TypeOK, Young, World PROVE TypeOK' /\ Young'
<1>1. TablesOK /\ ThreadsOK /\ HistoryOK /\ InTime
    BY TypeParts
<1>2. ASSUME NEW i \in Items, Dispatch(i) PROVE TypeOK' /\ Young'
    <2>1. /\ dispatched' = dispatched \cup {[eid |-> nextId, item |-> i]}
          /\ nextId' = nextId + 1 /\ nextId \in Nat \ {0} /\ aborted' \subseteq Items /\ fuel' \in [Steps -> Nat]
        BY <1>1, <1>2 DEF Dispatch, Spend, ThreadsOK, HistoryOK, Steps
    <2>2. dispatched' \subseteq Message /\ \A m \in dispatched' : m.eid < nextId'
        BY <1>1, <2>1 DEF ThreadsOK, Message, Young
    <2>3. /\ \A m \in settled : m.eid \in Nat
          /\ \A n \in chunkDone : n \in Nat
          /\ ai # None => ai.eid \in Nat
          /\ chunk # None => chunk.eid \in Nat /\ chunk.text \in Int
          /\ \A j \in Items : summary[j] \in Nat /\ chunks[j] \in Int
        BY <1>1 DEF TablesOK, ThreadsOK, Settled, AiJob, ChunkJob, NoText
    <2>4. /\ \A m \in settled : m.eid < nextId'
          /\ \A n \in chunkDone : n < nextId'
          /\ ai # None => ai.eid < nextId'
          /\ chunk # None => chunk.eid < nextId' /\ chunk.text < nextId'
          /\ \A j \in Items : summary[j] < nextId' /\ chunks[j] < nextId'
        BY <1>1, <2>1, <2>3 DEF Young, InTime
    <2> QED BY <1>1, <1>2, <2>1, <2>2, <2>4, TypePartsNext
            DEF Dispatch, tables, audit, poll, TablesOK, ThreadsOK, HistoryOK, InTime, Young
<1>3. ASSUME NEW i \in Items, Delete(i) PROVE TypeOK' /\ Young'
    <2>1. /\ summary' \in [Items -> Nat] /\ chunks' \in [Items -> Nat \cup {NoText}]
          /\ \A j \in Items : summary'[j] < nextId /\ chunks'[j] < nextId
        BY <1>1, <1>3 DEF Delete, TablesOK, ThreadsOK, InTime, Raw, NoText
    <2>2. stored' \subseteq Items /\ torn' \subseteq Items /\ fuel' \in [Steps -> Nat]
        BY <1>1, <1>3 DEF Delete, Spend, TablesOK, HistoryOK, Steps
    <2> QED BY <1>1, <1>3, <2>1, <2>2, TypePartsNext
            DEF Delete, audit, broker, poll, TablesOK, ThreadsOK, HistoryOK, InTime, Young
<1>4. CASE Lose
    <2>1. dispatched' \subseteq dispatched /\ settled' \subseteq settled /\ torn' \subseteq Items /\ fuel' \in [Steps -> Nat]
        BY <1>1, <1>4 DEF Lose, Spend, ThreadsOK, HistoryOK, Settled, Steps
    <2> QED BY <1>1, <1>4, <2>1, TypePartsNext
            DEF Lose, tables, audit, poll, TablesOK, ThreadsOK, HistoryOK, InTime, Young
<1>5. CASE Second
    <2>1. clock' = clock + 1 /\ clock \in Nat /\ fuel' \in [Steps -> Nat]
        BY <1>1, <1>5 DEF Second, Spend, HistoryOK, Steps
    <2>2. \A i \in Items : aiAt[i] <= clock' /\ chunkAt[i] <= clock' /\ published[i] <= clock'
        BY <1>1, <2>1 DEF TablesOK, InTime
    <2> QED BY <1>1, <1>5, <2>1, <2>2, TypePartsNext
            DEF Second, tables, audit, broker, poll, history, TablesOK, ThreadsOK, HistoryOK, InTime, Young
<1>6. CASE Crash
    <2>1. torn' \subseteq Items /\ fuel' \in [Steps -> Nat]
        BY <1>1, <1>6 DEF Crash, Spend, ThreadsOK, HistoryOK, Settled, Steps
    <2> QED BY <1>1, <1>6, <2>1, TypePartsNext
            DEF Crash, tables, audit, poll, TablesOK, ThreadsOK, HistoryOK, InTime, Young
<1>7. ASSUME NEW i \in Items, Store(i) PROVE TypeOK' /\ Young'
    <2>1. stored' \subseteq Items /\ again' \subseteq Items /\ fuel' \in [Steps -> Nat]
        BY <1>1, <1>7 DEF Store, Spend, TablesOK, HistoryOK, Steps
    <2> QED BY <1>1, <1>7, <2>1, TypePartsNext
            DEF Store, audit, broker, poll, TablesOK, ThreadsOK, HistoryOK, InTime, Young
<1> QED BY <1>2, <1>3, <1>4, <1>5, <1>6, <1>7 DEF World

LEMMA TypeStep == TypeOK /\ Young /\ [Next]_vars => (TypeOK /\ Young)'
<1> SUFFICES ASSUME TypeOK, Young, [Next]_vars PROVE TypeOK' /\ Young'
    OBVIOUS
<1>1. CASE UNCHANGED vars
    BY <1>1 DEF vars, tables, audit, broker, poll, history, TypeOK, Young
<1> QED BY <1>1, TypeAi, TypeChunk, TypeReady, TypeWorld DEF Next

LEMMA Inductive == Spec => [](TypeOK /\ Young)
BY TypeStart, TypeStep, PTL DEF Spec

\* The tables, the messages and the jobs of the pipeline keep their types; no text, id or timestamp
\* runs ahead of the counters they come from.
THEOREM TypeCorrect == Spec => []TypeOK
BY Inductive, PTL

-----------------------------------------------------------------------------
(* One dispatch, one settle. *)

\* A dispatch that has been settled is in the audit log, or was lost to it; so is the one about
\* to be settled, and only a loss lets the same one come this far again.
SettleInv ==
    /\ \A s \in settles : s.of \in aiDone \cup unrecorded
    /\ ai # None =>
        /\ \A s \in settles : s.of = ai.eid => ai.eid \in unrecorded
        /\ ai.pc = "publish" => ai.eid \in aiDone \cup unrecorded
    /\ DispatchSettlesOnce

LEMMA SettleStart == Init => SettleInv
BY DEF Init, SettleInv, DispatchSettlesOnce

LEMMA SettleStep == TypeOK /\ SettleInv /\ [Next]_vars => SettleInv'
<1> SUFFICES ASSUME TypeOK, SettleInv, [Next]_vars PROVE SettleInv'
    OBVIOUS
<1>1. ai \in AiJob \cup {None}
    BY DEF TypeOK
\* Nothing settled, nothing forgotten.
<1>2. ASSUME UNCHANGED <<ai, settles, aiDone, unrecorded>> PROVE SettleInv'
    BY <1>2 DEF SettleInv, DispatchSettlesOnce
<1>3. CASE AiTake
    <2>1. PICK m \in dispatched :
            ai' = IF AlreadyProcessed(aiDone, m.eid) THEN None
                  ELSE [eid |-> m.eid, item |-> m.item, pc |-> "run", found |-> HasContents(m.item), out |-> FALSE]
        BY <1>3 DEF AiTake
    <2>2. UNCHANGED <<settles, aiDone, unrecorded>>
        BY <1>3 DEF AiTake, audit, history
    <2>3. ai' # None => ai'.pc = "run" /\ ai'.eid \notin aiDone
        BY <2>1 DEF AlreadyProcessed
    <2> QED BY <2>2, <2>3 DEF SettleInv, DispatchSettlesOnce
<1>4. CASE AiFindsNothing \/ AiStores \/ AiAborts \/ AiRaises
    <2>1. UNCHANGED <<settles, aiDone, unrecorded>>
        BY <1>4 DEF AiFindsNothing, AiStores, AiAborts, AiRaises, audit, history
    <2>2. ai' # None => ai # None /\ ai'.eid = ai.eid /\ ai'.pc = "audit"
        BY <1>1, <1>4 DEF AiFindsNothing, AiStores, AiAborts, AiRaises, AiAt, AiJob
    <2> QED BY <2>1, <2>2 DEF SettleInv, DispatchSettlesOnce
<1>5. CASE AiAudit
    <2>1. ai # None /\ ai'.eid = ai.eid /\ settles' = settles
        BY <1>1, <1>5 DEF AiAudit, AiAt, AiJob
    <2>2. /\ aiDone \subseteq aiDone' /\ unrecorded \subseteq unrecorded'
          /\ ai.eid \in aiDone' \cup unrecorded'
        BY <1>5 DEF AiAudit
    <2> QED BY <2>1, <2>2 DEF SettleInv, DispatchSettlesOnce
<1>6. CASE AiPublish
    <2>1. ai # None /\ ai.pc = "publish" /\ ai' = None /\ UNCHANGED <<aiDone, unrecorded>>
        BY <1>6 DEF AiPublish, AiAt, audit
    <2>2. \A s \in settles' : s \in settles \/ s = [of |-> ai.eid, eid |-> nextId, item |-> ai.item]
        BY <1>6 DEF AiPublish
    <2> QED BY <2>1, <2>2 DEF SettleInv, DispatchSettlesOnce
<1>7. CASE ChunkStep \/ ReadyStep \/ UNCHANGED vars
    BY <1>2, <1>7 DEF ChunkStep, ReadyStep, ChunkTake, ChunkStores, ChunkAudit, ReadyFind, ReadyPublish, ReadyMark,
        vars, tables, audit, broker, history
<1>8. ASSUME NEW i \in Items, Dispatch(i) \/ Delete(i) \/ Store(i) PROVE SettleInv'
    BY <1>2, <1>8 DEF Dispatch, Delete, Store, audit
<1>9. CASE Lose \/ Second
    BY <1>2, <1>9 DEF Lose, Second, audit, history
<1>10. CASE Crash
    BY <1>10 DEF Crash, audit, SettleInv, DispatchSettlesOnce
<1> QED BY <1>3, <1>4, <1>5, <1>6, <1>7, <1>8, <1>9, <1>10 DEF Next, AiStep, World

\* However often an event is delivered and wherever the process dies, a dispatch is settled once,
\* unless the audit row that says so was never written.
THEOREM SettlesOnce == Spec => []DispatchSettlesOnce
<1>1. SettleInv => DispatchSettlesOnce
    BY DEF SettleInv
<1> QED BY <1>1, SettleStart, SettleStep, Inductive, PTL DEF Spec

-----------------------------------------------------------------------------
(* Nothing is announced before it is prepared. *)

\* An event that is in flight, or that chunk works on, is that of a dispatch ai has finished with:
\* the audit row comes first.
FinishInv ==
    /\ ai # None /\ ai.pc = "publish" => ai.eid \in aiDone \cup unrecorded
    /\ \A m \in settles : m.of \in aiDone \cup unrecorded
    /\ \A n \in settled : \E m \in settles : m.eid = n.eid /\ m.item = n.item
    /\ chunk # None => \E m \in settles : m.eid = chunk.eid /\ m.item = chunk.item
    /\ \A i \in Items : chunkAt[i] # 0 => \E m \in settles : m.item = i /\ m.eid \in chunkDone

LEMMA FinishStart == Init => FinishInv
BY DEF Init, FinishInv

LEMMA FinishStep == TypeOK /\ FinishInv /\ [Next]_vars => FinishInv'
<1> SUFFICES ASSUME TypeOK, FinishInv, [Next]_vars PROVE FinishInv'
    OBVIOUS
<1>1. /\ ai \in AiJob \cup {None} /\ chunk \in ChunkJob \cup {None} /\ settled \subseteq Settled
      /\ chunkAt \in [Items -> Nat]
    BY DEF TypeOK
<1>2. ASSUME /\ UNCHANGED <<aiDone, unrecorded, settles, chunk, chunkDone, chunkAt>>
             /\ settled' \subseteq settled
             /\ ai' # None /\ ai'.pc = "publish" => ai # None /\ ai.pc = "publish" /\ ai'.eid = ai.eid
      PROVE FinishInv'
    BY <1>2 DEF FinishInv
<1>3. CASE AiTake \/ AiFindsNothing \/ AiStores \/ AiAborts \/ AiRaises
    <2>1. AiTake \/ AiRaises => (ai' # None => ai'.pc # "publish")
        BY DEF AiTake, AiRaises
    <2>2. AiFindsNothing \/ AiStores \/ AiAborts => ai'.pc = "audit"
        BY <1>1 DEF AiFindsNothing, AiStores, AiAborts, AiAt, AiJob
    <2>3. settled' \subseteq settled /\ UNCHANGED <<aiDone, unrecorded, settles, chunk, chunkDone, chunkAt>>
        BY <1>3 DEF AiTake, AiFindsNothing, AiStores, AiAborts, AiRaises, audit, broker, history
    <2>4. ai' # None => ai'.pc # "publish"
        BY <1>3, <2>1, <2>2
    <2> QED BY <1>2, <2>3, <2>4
<1>4. CASE AiAudit
    <2>1. /\ ai'.eid = ai.eid /\ ai.eid \in aiDone' \cup unrecorded'
          /\ aiDone \subseteq aiDone' /\ unrecorded \subseteq unrecorded'
        BY <1>1, <1>4 DEF AiAudit, AiAt, AiJob
    <2> QED BY <1>4, <2>1 DEF AiAudit, broker, FinishInv
<1>5. CASE AiPublish
    <2>1. ai # None /\ ai.pc = "publish" /\ ai' = None /\ UNCHANGED <<aiDone, unrecorded, chunk, chunkDone, chunkAt>>
        BY <1>5 DEF AiPublish, AiAt, audit
    <2>2. CASE UNCHANGED <<settled, settles>>
        BY <1>2, <2>1, <2>2
    <2>3. CASE /\ settled' = settled \cup {[eid |-> nextId, item |-> ai.item, of |-> ai.eid]}
               /\ settles' = settles \cup {[of |-> ai.eid, eid |-> nextId, item |-> ai.item]}
        BY <2>1, <2>3 DEF FinishInv
    <2> QED BY <1>5, <2>2, <2>3 DEF AiPublish
<1>6. CASE ChunkTake
    <2>1. PICK m \in settled :
            /\ Consume(settled, m)
            /\ chunk' = IF AlreadyProcessed(chunkDone, m.eid) THEN None
                        ELSE [eid |-> m.eid, item |-> m.item, pc |-> "store", text |-> TextOf(m)]
        BY <1>6 DEF ChunkTake
    <2>2. settled' \subseteq settled /\ UNCHANGED <<ai, aiDone, unrecorded, settles, chunkDone, chunkAt>>
        BY <1>6, <2>1 DEF ChunkTake, Consume, audit, history
    <2>3. chunk' # None => chunk'.eid = m.eid /\ chunk'.item = m.item
        BY <2>1
    <2> QED BY <2>2, <2>3 DEF FinishInv
<1>7. CASE ChunkStores
    <2>1. chunk # None /\ chunk'.eid = chunk.eid /\ chunk'.item = chunk.item
        BY <1>1, <1>7 DEF ChunkStores, ChunkJob
    <2> QED BY <1>7, <2>1 DEF ChunkStores, audit, broker, history, FinishInv
<1>8. CASE ChunkAudit
    <2>1. chunk # None /\ chunk' = None /\ UNCHANGED <<ai, aiDone, unrecorded, settled, settles>>
        BY <1>8 DEF ChunkAudit, broker
    <2>2. CASE UNCHANGED <<chunkDone, chunkAt>>
        BY <2>1, <2>2 DEF FinishInv
    <2>3. CASE chunkDone' = chunkDone \cup {chunk.eid} /\ chunkAt' = [chunkAt EXCEPT ![chunk.item] = clock]
        <3>1. \A i \in Items : i # chunk.item => chunkAt'[i] = chunkAt[i]
            BY <1>1, <2>3
        <3>2. \A i \in Items : chunkAt'[i] # 0 => \E m \in settles : m.item = i /\ m.eid \in chunkDone'
            BY <2>1, <2>3, <3>1 DEF FinishInv
        <3> QED BY <2>1, <3>2 DEF FinishInv
    <2> QED BY <1>8, <2>2, <2>3 DEF ChunkAudit
<1>9. CASE ReadyStep \/ UNCHANGED vars
    BY <1>2, <1>9 DEF ReadyStep, ReadyFind, ReadyPublish, ReadyMark, vars, audit, broker, history
<1>10. ASSUME NEW i \in Items, Dispatch(i) \/ Delete(i) \/ Store(i) PROVE FinishInv'
    BY <1>2, <1>10 DEF Dispatch, Delete, Store, audit, broker
<1>11. CASE Lose \/ Second
    <2>1. settled' \subseteq settled
        BY <1>11 DEF Lose, Second, broker
    <2> QED BY <1>2, <1>11, <2>1 DEF Lose, Second, audit, history
<1>12. CASE Crash
    BY <1>12 DEF Crash, audit, FinishInv
<1> QED BY <1>3, <1>4, <1>5, <1>6, <1>7, <1>8, <1>9, <1>10, <1>11, <1>12 DEF Next, AiStep, ChunkStep, World

\* What was announced, or is about to be, was chunked at some time; and what was chunked has
\* chunks, if it had contents and was not deleted: a job that found them stores them before it
\* says so.
PrepInv ==
    \A i \in Items :
        /\ ready[i] > 0 \/ i \in batch \/ marking = i => chunkAt[i] # 0
        /\ HasContents(i) /\ i \notin again =>
            /\ chunkAt[i] # 0 => chunks[i] # NoText
            /\ chunk # None /\ chunk.item = i =>
                 IF chunk.pc = "store" THEN chunk.text # NoText ELSE chunks[i] # NoText

LEMMA PrepStart == Init => PrepInv
BY NobodyAssumption DEF Init, PrepInv

LEMMA PrepStep == TypeOK /\ Young /\ PrepInv /\ [Next]_vars => PrepInv'
<1> SUFFICES ASSUME TypeOK, Young, PrepInv, [Next]_vars PROVE PrepInv'
    OBVIOUS
<1>1. /\ summary \in [Items -> Nat] /\ chunks \in [Items -> Nat \cup {NoText}] /\ chunkAt \in [Items -> Nat]
      /\ ready \in [Items -> Nat] /\ chunk \in ChunkJob \cup {None} /\ clock \in Nat /\ clock > 0
      /\ settled \subseteq Settled /\ marking \in Items \cup {None} /\ None \notin Items
    BY NobodyAssumption DEF TypeOK, Young
<1>2. ASSUME UNCHANGED <<ready, batch, marking, chunkAt, stored, again, chunks, chunk>> PROVE PrepInv'
    BY <1>2 DEF PrepInv, HasContents
<1>3. CASE ChunkTake
    <2>1. PICK m \in settled :
            chunk' = IF AlreadyProcessed(chunkDone, m.eid) THEN None
                     ELSE [eid |-> m.eid, item |-> m.item, pc |-> "store", text |-> TextOf(m)]
        BY <1>3 DEF ChunkTake
    <2>2. UNCHANGED <<ready, batch, marking, chunkAt, stored, again, chunks>>
        BY <1>3 DEF ChunkTake, tables, audit, poll, history
    <2>3. m.item \in Items
        BY <1>1 DEF Settled
    <2>4. chunk' # None => chunk'.item = m.item /\ chunk'.pc = "store" /\ (HasContents(m.item) => chunk'.text # NoText)
        BY <1>1, <2>1, <2>3 DEF TextOf, NoText
    <2> QED BY <2>2, <2>4 DEF PrepInv, HasContents
<1>4. CASE ChunkStores
    <2>1. /\ chunk \in ChunkJob /\ chunk # None /\ chunk.pc = "store" /\ chunk' = [chunk EXCEPT !.pc = "audit"]
          /\ chunks' = IF chunk.text = NoText THEN chunks ELSE [chunks EXCEPT ![chunk.item] = chunk.text]
          /\ UNCHANGED <<ready, batch, marking, chunkAt, stored, again>>
        BY <1>1, <1>4 DEF ChunkStores, audit, poll, history
    <2>2. chunk'.item = chunk.item /\ chunk'.pc = "audit" /\ chunk.item \in Items
        BY <2>1 DEF ChunkJob
    <2>3. \A i \in Items : chunks'[i] = IF i = chunk.item /\ chunk.text # NoText THEN chunk.text ELSE chunks[i]
        BY <1>1, <2>1, <2>2
    <2> QED BY <2>1, <2>2, <2>3 DEF PrepInv, HasContents
<1>5. CASE ChunkAudit
    <2>1. /\ chunk # None /\ chunk.pc = "audit" /\ chunk' = None
          /\ chunkAt' = chunkAt \/ chunkAt' = [chunkAt EXCEPT ![chunk.item] = clock]
          /\ UNCHANGED <<ready, batch, marking, stored, again, chunks>>
        BY <1>5 DEF ChunkAudit, tables, poll
    <2>2. \A i \in Items : chunkAt'[i] = chunkAt[i] \/ (i = chunk.item /\ chunkAt'[i] # 0)
        BY <1>1, <2>1
    <2>3. \A i \in Items : chunkAt[i] # 0 => chunkAt'[i] # 0
        BY <2>2
    <2> QED BY <2>1, <2>2, <2>3 DEF PrepInv, HasContents
<1>6. CASE ReadyFind
    BY <1>6 DEF ReadyFind, tables, audit, history, IsSettled, PrepInv, HasContents
<1>7. CASE ReadyPublish
    <2>1. PICK i \in batch : marking' = i /\ batch' = batch \ {i} /\ ready' = [ready EXCEPT ![i] = @ + 1]
        BY <1>7 DEF ReadyPublish
    <2>2. UNCHANGED <<chunkAt, stored, again, chunks, chunk>>
        BY <1>7 DEF ReadyPublish, tables, audit
    <2>3. \A j \in Items : j # i => ready'[j] = ready[j]
        BY <1>1, <2>1
    <2> QED BY <2>1, <2>2, <2>3 DEF PrepInv, HasContents
<1>8. CASE ReadyMark
    BY <1>1, <1>8 DEF ReadyMark, audit, history, PrepInv, HasContents
<1>9. CASE AiStep
    BY <1>2, <1>9 DEF AiStep, AiTake, AiFindsNothing, AiStores, AiAborts, AiRaises, AiAudit, AiPublish,
        tables, audit, broker, poll, history
\* A deleted item has no contents any more.
<1>10. ASSUME NEW i \in Items, Delete(i) PROVE PrepInv'
    <2>1. /\ stored' = stored \ {i} /\ \A j \in Items : j # i => chunks'[j] = chunks[j]
          /\ UNCHANGED <<ready, batch, marking, chunkAt, again, chunk>>
        BY <1>1, <1>10 DEF Delete, audit, poll
    <2> QED BY <2>1 DEF PrepInv, HasContents
<1>11. ASSUME NEW i \in Items, Dispatch(i) PROVE PrepInv'
    BY <1>2, <1>11 DEF Dispatch, tables, audit, poll
<1>12. CASE Lose \/ Second \/ UNCHANGED vars
    BY <1>2, <1>12 DEF Lose, Second, vars, tables, audit, broker, poll, history
<1>13. CASE Crash
    BY <1>1, <1>13 DEF Crash, tables, audit, PrepInv, HasContents
\* One that is stored again may have none.
<1>14. ASSUME NEW i \in Items, Store(i) PROVE PrepInv'
    <2>1. /\ stored' = stored \cup {i} /\ again' = again \cup {i}
          /\ UNCHANGED <<ready, batch, marking, chunkAt, chunks, chunk>>
        BY <1>14 DEF Store, audit, poll
    <2> QED BY <2>1 DEF PrepInv, HasContents
<1> QED BY <1>3, <1>4, <1>5, <1>6, <1>7, <1>8, <1>9, <1>10, <1>11, <1>12, <1>13, <1>14 DEF Next, ChunkStep, ReadyStep, World

\* What was announced was finished by both actions for one and the same dispatch, and has chunks
\* if it has contents, whatever was lost or repeated on the way; of an item that was deleted and
\* stored again only the first is promised.
THEOREM ReadyIsAlwaysPrepared == Spec => []ReadyIsPrepared
<1>1. TypeOK /\ FinishInv /\ PrepInv => ReadyIsPrepared
    BY DEF TypeOK, FinishInv, PrepInv, ReadyIsPrepared, BothFinished
<1> QED BY <1>1, FinishStart, FinishStep, PrepStart, PrepStep, Inductive, PTL DEF Spec

-----------------------------------------------------------------------------
(* The chunks are those of the summary. *)

\* An event that chunk has still to work on, or the run that is about to publish one.
ToChunk(i) ==
    \/ \E m \in settled : m.item = i /\ m.eid \notin chunkDone /\ (chunk # None => m.eid # chunk.eid)
    \/ ai # None /\ ai.item = i /\ ai.out /\ ai.pc \in {"audit", "publish"}
Storing(i) == chunk # None /\ chunk.item = i /\ chunk.pc = "store"

\* Whoever makes a text old owes a new event: chunks, and the text that a job is about to store,
\* are those of the summary or there is an event to come.
MatchInv ==
    /\ \A i \in Items \ torn : i \in stored
    /\ ai # None /\ ai.pc = "run" => ~ai.out
    /\ \A i \in Empty : chunks[i] = NoText /\ (Storing(i) => chunk.text = NoText)
    /\ \A i \in Items \ (torn \cup Empty) :
        /\ Storing(i) => chunk.text = summary[i] \/ (chunk.text # NoText /\ ToChunk(i))
        /\ chunks[i] \in {NoText, summary[i]} \/ ToChunk(i) \/ (Storing(i) /\ chunk.text = summary[i])

LEMMA MatchStart == Init => MatchInv
BY EmptyAssumption DEF Init, MatchInv, Storing

\* The steps of ai: a new summary comes with the run that will publish an event for it.
LEMMA MatchAi == ASSUME TypeOK, Young, MatchInv, AiStep PROVE MatchInv'
<1>1. /\ ai \in AiJob \cup {None} /\ summary \in [Items -> Nat]
      /\ chunk \in ChunkJob \cup {None} /\ settled \subseteq Settled
      /\ nextId \in Nat \ {0} /\ chunkDone \subseteq Nat
    BY DEF TypeOK
<1>2. UNCHANGED <<chunks, chunk, chunkDone, stored, torn>>
    BY DEF AiStep, AiTake, AiFindsNothing, AiStores, AiAborts, AiRaises, AiAudit, AiPublish, tables, audit, history
<1>3. \A i : Storing(i)' <=> Storing(i)
    BY <1>2 DEF Storing
\* Nobody loses an event, nobody writes a text.
<1>4. ASSUME summary' = summary, \A i \in Items : ToChunk(i) => ToChunk(i)', ai' # None /\ ai'.pc = "run" => ~ai'.out
      PROVE  MatchInv'
    BY <1>2, <1>3, <1>4, EmptyAssumption DEF MatchInv
<1>5. CASE AiTake
    <2>1. summary' = summary /\ settled' = settled /\ ai = None /\ (ai' # None => ai'.pc = "run" /\ ~ai'.out)
        BY <1>5 DEF AiTake, tables
    <2> QED BY <1>2, <1>4, <2>1 DEF ToChunk
<1>6. CASE AiFindsNothing \/ AiAborts \/ AiRaises
    <2>1. summary' = summary /\ settled' = settled /\ ai # None /\ ai.pc = "run" /\ (ai' # None => ai'.pc = "audit")
        BY <1>1, <1>6 DEF AiFindsNothing, AiAborts, AiRaises, AiAt, AiJob, tables, broker
    <2> QED BY <1>2, <1>4, <2>1 DEF ToChunk
<1>7. CASE AiStores
    <2>1. /\ ai \in AiJob /\ ai.pc = "run" /\ ai' = [ai EXCEPT !.pc = "audit", !.out = TRUE] /\ settled' = settled
          /\ summary' = IF ai.item \in stored THEN [summary EXCEPT ![ai.item] = ai.eid] ELSE summary
        BY <1>1, <1>7 DEF AiStores, AiAt, broker
    <2>2. ai'.pc = "audit" /\ ai'.out /\ ai'.item = ai.item /\ ai' # None
        <3>1. ai' \in AiJob /\ ai'.pc = "audit" /\ ai'.out /\ ai'.item = ai.item
            BY <2>1 DEF AiJob
        <3> QED BY <3>1, NobodyAssumption
    <2>3. \A i \in Items : i = ai.item \/ ToChunk(i) => ToChunk(i)'
        BY <1>2, <2>1, <2>2 DEF ToChunk
    <2>4. \A i \in Items : i # ai.item => summary'[i] = summary[i]
        BY <1>1, <2>1
    <2>5. /\ \A i \in Items \ torn : i \in stored'
          /\ ai' # None /\ ai'.pc = "run" => ~ai'.out
          /\ \A i \in Empty : chunks'[i] = NoText /\ (Storing(i)' => chunk'.text = NoText)
        BY <1>2, <1>3, <2>2 DEF MatchInv
    <2> SUFFICES ASSUME NEW i \in Items \ (torn' \cup Empty)
                 PROVE  /\ Storing(i)' => chunk'.text = summary'[i] \/ (chunk'.text # NoText /\ ToChunk(i)')
                        /\ chunks'[i] \in {NoText, summary'[i]} \/ ToChunk(i)' \/ (Storing(i)' /\ chunk'.text = summary'[i])
        BY <1>2, <2>5 DEF MatchInv
    <2>6. CASE i = ai.item
        <3>1. Storing(i) => chunk.text # NoText
            <4>1. i \in Items \ (torn \cup Empty) /\ summary[i] # NoText
                BY <1>1, <1>2 DEF NoText
            <4> QED BY <4>1 DEF MatchInv
        <3>2. ToChunk(i)'
            BY <2>3, <2>6
        <3>3. Storing(i)' => chunk'.text # NoText
            BY <1>2, <3>1 DEF Storing
        <3> QED BY <3>2, <3>3
    <2>7. CASE i # ai.item
        <3>1. i \in Items \ (torn \cup Empty) /\ summary'[i] = summary[i] /\ (ToChunk(i) => ToChunk(i)')
            BY <1>2, <2>3, <2>4, <2>7
        <3> QED BY <1>2, <1>3, <3>1 DEF MatchInv
    <2> QED BY <2>6, <2>7
<1>8. CASE AiAudit
    <2>1. /\ ai \in AiJob /\ ai' = [ai EXCEPT !.pc = "publish"] /\ settled' = settled /\ summary' = summary
        BY <1>1, <1>8 DEF AiAudit, AiAt, tables, broker
    <2>2. ai'.pc = "publish" /\ ai'.out = ai.out /\ ai'.item = ai.item /\ ai' # None
        <3>1. ai' \in AiJob /\ ai'.pc = "publish" /\ ai'.out = ai.out /\ ai'.item = ai.item
            BY <2>1 DEF AiJob
        <3> QED BY <3>1, NobodyAssumption
    <2> QED BY <1>2, <1>4, <2>1, <2>2 DEF ToChunk
<1>9. CASE AiPublish
    <2>1. summary' = summary /\ ai # None /\ ai' = None /\ settled \subseteq settled'
        BY <1>9 DEF AiPublish, AiAt, tables
    <2>2. nextId \notin chunkDone /\ (chunk # None => nextId # chunk.eid)
        BY <1>1 DEF Young, ChunkJob
    <2>3. ASSUME NEW i \in Items, ToChunk(i) PROVE ToChunk(i)'
        <3>1. CASE \E m \in settled : m.item = i /\ m.eid \notin chunkDone /\ (chunk # None => m.eid # chunk.eid)
            BY <1>2, <2>1, <3>1 DEF ToChunk
        <3>2. CASE ai.item = i /\ ai.out
            <4>1. [eid |-> nextId, item |-> ai.item, of |-> ai.eid] \in settled'
                BY <1>9, <3>2 DEF AiPublish
            <4> QED BY <1>2, <2>2, <3>2, <4>1 DEF ToChunk
        <3> QED BY <2>3, <3>1, <3>2 DEF ToChunk
    <2> QED BY <1>4, <2>1, <2>3
<1> QED BY <1>5, <1>6, <1>7, <1>8, <1>9 DEF AiStep

\* The steps of chunk: a job takes its text from the row as it is, so that the event it takes is
\* made good by the text it is about to store.
LEMMA MatchChunk == ASSUME TypeOK, Young, MatchInv, ChunkStep PROVE MatchInv'
<1>1. /\ chunks \in [Items -> Nat \cup {NoText}] /\ chunk \in ChunkJob \cup {None} /\ settled \subseteq Settled
      /\ summary \in [Items -> Nat]
    BY DEF TypeOK
<1>2. UNCHANGED <<summary, stored, torn, ai>>
    BY DEF ChunkStep, ChunkTake, ChunkStores, ChunkAudit, tables, history
<1>3. CASE ChunkTake
    <2>1. PICK m \in settled :
            /\ Consume(settled, m)
            /\ chunk' = IF AlreadyProcessed(chunkDone, m.eid) THEN None
                        ELSE [eid |-> m.eid, item |-> m.item, pc |-> "store", text |-> TextOf(m)]
        BY <1>3 DEF ChunkTake
    <2>2. chunk = None /\ UNCHANGED <<chunks, chunkDone>>
        BY <1>3 DEF ChunkTake, tables, audit
    <2>3. \A n \in settled : n # m => n \in settled' /\ n.eid # m.eid
        BY <2>1 DEF Consume, Young
    <2>4. m.eid \in Nat \ {0} /\ m.item \in Items
        BY <1>1 DEF Settled
    <2>5. CASE m.eid \in chunkDone
        <3>1. chunk' = None
            BY <2>1, <2>5 DEF AlreadyProcessed
        <3>2. \A i \in Items : ToChunk(i) => ToChunk(i)'
            BY <1>2, <2>2, <2>3, <2>5, <3>1 DEF ToChunk
        <3> QED BY <1>2, <2>2, <3>1, <3>2, EmptyAssumption DEF MatchInv, Storing
    <2>6. CASE m.eid \notin chunkDone
        <3>1. chunk' = [eid |-> m.eid, item |-> m.item, pc |-> "store", text |-> TextOf(m)]
            BY <2>1, <2>6 DEF AlreadyProcessed
        <3>2. TextOf(m) \in Nat \cup {NoText}
            BY <1>1, <2>4 DEF TextOf
        <3>3. chunk' \in ChunkJob /\ chunk'.eid = m.eid /\ chunk'.item = m.item /\ chunk'.pc = "store" /\ chunk'.text = TextOf(m)
            BY <2>4, <3>1, <3>2 DEF ChunkJob
        <3>4. chunk' # None
            BY <3>3, NobodyAssumption
        <3>5. \A i \in Items : i # m.item /\ ToChunk(i) => ToChunk(i)'
            BY <1>2, <2>2, <2>3, <3>3, <3>4 DEF ToChunk
        <3>6. \A i : Storing(i)' <=> i = m.item
            BY <3>3, <3>4 DEF Storing
        <3>7. /\ m.item \in Empty => TextOf(m) = NoText
              /\ m.item \notin torn \cup Empty => TextOf(m) = summary[m.item]
            BY <2>4 DEF TextOf, HasContents, MatchInv
        <3>8. \A i \in Empty : chunks'[i] = NoText /\ (Storing(i)' => chunk'.text = NoText)
            BY <2>2, <3>3, <3>6, <3>7 DEF MatchInv
        <3>9. ASSUME NEW i \in Items \ (torn' \cup Empty)
              PROVE  /\ Storing(i)' => chunk'.text = summary'[i]
                     /\ chunks'[i] \in {NoText, summary'[i]} \/ ToChunk(i)' \/ (Storing(i)' /\ chunk'.text = summary'[i])
            <4>1. CASE i = m.item
                BY <1>2, <3>3, <3>4, <3>7, <4>1 DEF Storing
            <4>2. CASE i # m.item
                <5>1. ~Storing(i) /\ ~Storing(i)'
                    BY <2>2, <3>3, <4>2 DEF Storing
                <5>2. chunks[i] \in {NoText, summary[i]} \/ ToChunk(i)
                    BY <1>2, <5>1 DEF MatchInv
                <5> QED BY <1>2, <2>2, <3>5, <4>2, <5>1, <5>2
            <4> QED BY <4>1, <4>2
        <3> QED BY <1>2, <3>8, <3>9 DEF MatchInv
    <2> QED BY <2>5, <2>6
<1>4. CASE ChunkStores
    <2>1. /\ chunk \in ChunkJob /\ chunk # None /\ chunk.pc = "store" /\ chunk' = [chunk EXCEPT !.pc = "audit"]
          /\ chunks' = IF chunk.text = NoText THEN chunks ELSE [chunks EXCEPT ![chunk.item] = chunk.text]
          /\ UNCHANGED <<chunkDone, settled>>
        BY <1>1, <1>4 DEF ChunkStores, audit, broker
    <2>2. chunk' \in ChunkJob /\ chunk'.item = chunk.item /\ chunk'.eid = chunk.eid /\ chunk'.pc = "audit"
        BY <2>1 DEF ChunkJob
    <2>3. \A i \in Items : ~Storing(i)' /\ (ToChunk(i) => ToChunk(i)')
        BY <1>2, <2>1, <2>2, NobodyAssumption DEF Storing, ToChunk
    <2>4. \A i \in Items : chunks'[i] = IF i = chunk.item /\ chunk.text # NoText THEN chunk.text ELSE chunks[i]
        BY <1>1, <2>1 DEF ChunkJob
    <2>5. Storing(chunk.item) /\ \A i \in Items : i # chunk.item => ~Storing(i)
        BY <2>1 DEF Storing
    <2>6. \A i \in Empty : chunks'[i] = NoText
        BY <2>4, <2>5, EmptyAssumption DEF MatchInv
    <2>7. ASSUME NEW i \in Items \ (torn' \cup Empty)
          PROVE  chunks'[i] \in {NoText, summary'[i]} \/ ToChunk(i)'
        <3>1. i \in Items \ (torn \cup Empty) /\ summary'[i] = summary[i] /\ summary[i] # NoText
            BY <1>1, <1>2 DEF NoText
        <3>2. CASE i = chunk.item
            <4>1. Storing(i)
                BY <2>5, <3>2
            <4>2. chunk.text # NoText /\ (chunk.text = summary[i] \/ ToChunk(i))
                BY <3>1, <4>1 DEF MatchInv
            <4>3. chunks'[i] = chunk.text
                BY <2>4, <3>2, <4>2
            <4> QED BY <2>3, <3>1, <4>2, <4>3
        <3>3. CASE i # chunk.item
            <4>1. chunks'[i] = chunks[i] /\ ~Storing(i)
                BY <2>4, <2>5, <3>3
            <4>2. chunks[i] \in {NoText, summary[i]} \/ ToChunk(i)
                BY <3>1, <4>1 DEF MatchInv
            <4> QED BY <2>3, <3>1, <4>1, <4>2
        <3> QED BY <3>2, <3>3
    <2> QED BY <1>2, <2>3, <2>6, <2>7, EmptyAssumption DEF MatchInv
<1>5. CASE ChunkAudit
    <2>1. /\ chunk # None /\ chunk.pc = "audit" /\ chunk' = None /\ UNCHANGED <<chunks, settled>>
          /\ chunkDone' \subseteq chunkDone \cup {chunk.eid}
        BY <1>5 DEF ChunkAudit, tables, broker
    <2>2. \A i \in Items : ToChunk(i) => ToChunk(i)'
        BY <1>2, <2>1 DEF ToChunk
    <2>3. \A i : ~Storing(i) /\ ~Storing(i)'
        BY <2>1 DEF Storing
    <2> QED BY <1>2, <2>1, <2>2, <2>3, EmptyAssumption DEF MatchInv
<1> QED BY <1>3, <1>4, <1>5 DEF ChunkStep

\* The world: whoever loses an event or a job is torn for it.
LEMMA MatchWorld == ASSUME TypeOK, MatchInv, World PROVE MatchInv'
<1>1. /\ chunks \in [Items -> Nat \cup {NoText}] /\ summary \in [Items -> Nat]
      /\ ai \in AiJob \cup {None} /\ chunk \in ChunkJob \cup {None}
    BY DEF TypeOK
<1>2. ASSUME UNCHANGED <<chunks, summary, stored, torn, chunk, ai, chunkDone, settled>> PROVE MatchInv'
    BY <1>2 DEF MatchInv, Storing, ToChunk
<1>3. ASSUME NEW i \in Items, Dispatch(i) PROVE MatchInv'
    BY <1>2, <1>3 DEF Dispatch, tables, audit
<1>4. ASSUME NEW i \in Items, Delete(i) PROVE MatchInv'
    <2>1. /\ UNCHANGED <<chunk, ai, chunkDone, settled>> /\ torn' = torn \cup {i} /\ stored' = stored \ {i}
          /\ \A j \in Items : j # i => chunks'[j] = chunks[j] /\ summary'[j] = summary[j]
          /\ chunks'[i] = NoText
        BY <1>1, <1>4 DEF Delete, audit, broker
    <2>2. \A j : (Storing(j)' <=> Storing(j)) /\ (ToChunk(j)' <=> ToChunk(j))
        BY <2>1 DEF Storing, ToChunk
    <2>3. \A j \in Empty : chunks'[j] = NoText /\ (Storing(j)' => chunk'.text = NoText)
        BY <2>1, <2>2, EmptyAssumption DEF MatchInv
    <2>4. ASSUME NEW j \in Items \ (torn' \cup Empty)
          PROVE  /\ Storing(j)' => chunk'.text = summary'[j] \/ (chunk'.text # NoText /\ ToChunk(j)')
                 /\ chunks'[j] \in {NoText, summary'[j]} \/ ToChunk(j)' \/ (Storing(j)' /\ chunk'.text = summary'[j])
        <3>1. j \in Items \ (torn \cup Empty) /\ chunks'[j] = chunks[j] /\ summary'[j] = summary[j]
            BY <2>1
        <3> QED BY <2>1, <2>2, <3>1 DEF MatchInv
    <2> QED BY <2>1, <2>3, <2>4 DEF MatchInv
<1>5. CASE Lose
    <2>1. /\ UNCHANGED <<chunks, summary, stored, chunk, ai, chunkDone>> /\ torn \subseteq torn'
          /\ \A m \in settled : m \in settled' \/ m.item \in torn'
        BY <1>5 DEF Lose, tables, audit
    <2>2. \A j : Storing(j)' <=> Storing(j)
        BY <2>1 DEF Storing
    <2>3. \A j \in Items \ torn' : ToChunk(j) => ToChunk(j)'
        BY <2>1 DEF ToChunk
    <2> QED BY <2>1, <2>2, <2>3 DEF MatchInv
<1>6. CASE Second
    BY <1>2, <1>6 DEF Second, tables, audit, broker, history
<1>7. CASE Crash
    <2>1. /\ UNCHANGED <<chunks, summary, stored>> /\ torn \subseteq torn' /\ ai' = None /\ chunk' = None
          /\ \A m \in settled : m.item \in torn'
          /\ \A i \in Items : (ai # None /\ ai.item = i) \/ (chunk # None /\ chunk.item = i) => i \in torn'
        BY <1>7 DEF Crash, tables
    <2>2. \A i \in Items \ torn' : ~ToChunk(i) /\ ~Storing(i)
        BY <2>1 DEF ToChunk, Storing
    <2>3. \A i : ~Storing(i)'
        BY <2>1 DEF Storing
    <2> QED BY <2>1, <2>2, <2>3 DEF MatchInv
<1>8. ASSUME NEW i \in Items, Store(i) PROVE MatchInv'
    <2>1. stored \subseteq stored' /\ UNCHANGED <<chunks, summary, torn, chunk, ai, chunkDone, settled>>
        BY <1>8 DEF Store, audit, broker
    <2> QED BY <2>1 DEF MatchInv, Storing, ToChunk
<1> QED BY <1>3, <1>4, <1>5, <1>6, <1>7, <1>8 DEF World

LEMMA MatchStep == TypeOK /\ Young /\ MatchInv /\ [Next]_vars => MatchInv'
<1> SUFFICES ASSUME TypeOK, Young, MatchInv, [Next]_vars PROVE MatchInv'
    OBVIOUS
<1>1. CASE ReadyStep \/ UNCHANGED vars
    BY <1>1 DEF ReadyStep, ReadyFind, ReadyPublish, ReadyMark, vars, tables, audit, broker, history,
        MatchInv, Storing, ToChunk
<1> QED BY <1>1, MatchAi, MatchChunk, MatchWorld DEF Next

\* When the threads are idle, the chunks of an item that went through undisturbed are those of its
\* summary: the rounds of a rearmed item may overlap and their events overtake each other.
THEOREM ChunksFollowSummary == Spec => []ChunksMatchSummary
<1>1. MatchInv => ChunksMatchSummary
    BY DEF MatchInv, ChunksMatchSummary, Idle, ToChunk, Storing
<1> QED BY <1>1, MatchStart, MatchStep, Inductive, PTL DEF Spec
=============================================================================
