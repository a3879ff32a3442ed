---------------------------- MODULE FeedsProofs ----------------------------
(***************************************************************************)
(* What holds of the data-adapters process for every set of sources,       *)
(* policies, prompts and schedules and any number of edits, locks, deaths  *)
(* and restarts: type correctness, that a source has one loop and fetches  *)
(* at most once more after it was switched off, and that an occurrence is  *)
(* paid for once.  And of a row of the transmit schedule: that its airings *)
(* keep the distance of the policy in force.                               *)
(***************************************************************************)
EXTENDS Schedules, FiniteSetTheorems, WellFoundedInduction, TLAPS

-----------------------------------------------------------------------------
(* Occurrences. *)

\* A set of numbers has a least one, and a largest one if there is a bound.
LEMMA Least ==
    ASSUME NEW T, T \subseteq Nat, T # {} PROVE \E m \in T : \A n \in T : m <= n
<1> DEFINE Below == {ss \in Nat \X Nat : ss[1] < ss[2]}
<1>1. Below = OpToRel(<, Nat)
    BY Zenon DEF OpToRel
<1>2. IsWellFoundedOn(Below, Nat)
    BY <1>1, NatLessThanWellFounded, Zenon
<1> HIDE DEF Below
<1>3. PICK m \in T : \A n \in T : ~(<<n, m>> \in Below)
    BY <1>2, WFMin
<1>4. \A n \in T : ~(n < m)
    BY <1>3 DEF Below
<1> QED BY <1>4

LEMMA Largest ==
    ASSUME NEW T, T \subseteq Nat, T # {}, NEW b \in Nat, \A n \in T : n <= b
    PROVE  \E m \in T : \A n \in T : m >= n
<1> DEFINE gaps == {g \in Nat : b - g \in T}
<1>1. PICK x \in T : TRUE
    OBVIOUS
<1>2. gaps \subseteq Nat /\ b - x \in gaps
    BY <1>1
<1>3. PICK g \in gaps : \A h \in gaps : g <= h
    <2> HIDE DEF gaps
    <2> QED BY <1>2, Least
<1>4. \A n \in T : b - n \in gaps
    OBVIOUS
<1>5. b - g \in T /\ \A n \in T : b - g >= n
    BY <1>3, <1>4
<1> QED BY <1>5

\* The latest occurrence is one, it is not in the future, and no other is later.
LEMMA LatestFireIsLatest ==
    ASSUME NEW c \in Crons, NEW at \in Nat
    PROVE  /\ LatestFire(c, at) \in Fires[c] /\ LatestFire(c, at) \in Nat /\ LatestFire(c, at) <= at
           /\ \A f \in Fires[c] : f <= at => f <= LatestFire(c, at)
<1> DEFINE past == {f \in Fires[c] : f < at + 1}
<1>1. Fires[c] \subseteq Nat /\ 0 \in past
    BY FiresAssumption
<1>2. past \subseteq Nat /\ \A n \in past : n <= at
    BY <1>1
<1>3. \E m \in past : \A n \in past : m >= n
    <2> HIDE DEF past
    <2> QED BY <1>1, <1>2, Largest
<1>4. LatestFire(c, at) = Max(past)
    BY <1>1 DEF LatestFire, Previous
<1>5. Max(past) \in past /\ \A n \in past : Max(past) >= n
    BY <1>3 DEF Max
<1>6. \A f \in Fires[c] : f <= at => f \in past
    BY <1>1
<1> QED BY <1>1, <1>2, <1>4, <1>5, <1>6

LEMMA LatestFireIsMoment ==
    ASSUME NEW c, NEW at \in Nat
    PROVE  LatestFire(c, at) \in Moments \cup {Never} /\ (c \in Crons => LatestFire(c, at) \in Moments)
<1>1. CASE c \in Crons
    BY <1>1, LatestFireIsLatest DEF Moments
<1>2. CASE c \notin Crons
    BY <1>2 DEF LatestFire
<1> QED BY <1>1, <1>2

-----------------------------------------------------------------------------
(* Type correctness. *)

Actors == Threads \cup {Cli}

\* A loop that decides has a plan, and a paid text has the id of its source.
Ready(l)   == l.pc \in {"decide", "fetch", "ask", "store"} => l.plan \in Plan
Serving(l) == l.pc \in {"ask", "store"} => l.id \in Id /\ l.id.source = l.source

TablesOK ==
    /\ now \in 0 .. MaxTime /\ items \subseteq Id
    /\ IsTable(inst, Sources, Row) /\ IsTable(policies, Names, Stage)
    /\ fuel \in [Steps -> Nat]
LoopsOK ==
    /\ loop \in [Actors -> Loop \cup {None}]
    /\ \A t \in Actors : loop[t] # None => Ready(loop[t]) /\ Serving(loop[t])
    /\ loop[Cli] # None => loop[Cli].pc \in {"fetch", "ask", "store"}
SupOK ==
    /\ supPc \in {"scan", "spawn"}
    /\ wanted \subseteq Sources /\ threads \in [Sources -> Threads \cup {None}]
PaidOK ==
    /\ paid \in [Id -> Nat] /\ lost \in [Id -> Nat]
    /\ apart \subseteq Id /\ after \in [Sources -> Nat]

\* A loop that lives is the one the supervisor knows for its source.
Registered == \A t \in Threads : Alive(t) => threads[loop[t].source] = t

Inv == TablesOK /\ LoopsOK /\ SupOK /\ PaidOK /\ Registered

LEMMA InvTypes == Inv => TypeOK
BY DEF Inv, TablesOK, LoopsOK, SupOK, PaidOK, Actors, TypeOK

LEMMA SeededTable == ASSUME IsTable(inst, Sources, Row) PROVE IsTable(Seeded(inst), Sources, Row)
BY SeedsAssumption DEF Seeded

LEMMA ResolvedStage ==
    ASSUME NEW n, IsTable(policies, Names, Stage) PROVE Resolve(policies, n, Default, Fallback) \in Stage
BY PolicyAssumption DEF Resolve, IsTable

LEMMA StageCron == ASSUME NEW st \in Stage, st.kind = "cron" PROVE st.cron \in Crons
BY DEF Stage, OnceSchedule, CronSchedule

LEMMA RebuiltPlan ==
    ASSUME NEW cfg \in Row, Buildable(cfg), IsTable(policies, Names, Stage) PROVE Rebuilt(cfg) \in Plan
<1>1. Resolve(policies, cfg.policy, Default, Fallback) \in Stage
    BY ResolvedStage
<1>2. cfg.type \in Types /\ cfg.config \in Prompts
    BY DEF Row, Buildable
<1> QED BY <1>1, <1>2 DEF Rebuilt, Plan

LEMMA TypeStart == Init => Inv
<1> SUFFICES ASSUME Init PROVE Inv
    OBVIOUS
<1>1. PICK s \in Scenarios : inst = s.inst /\ policies = s.policies /\ fuel = s.fuel
    BY DEF Init
<1>2. now \in 0 .. MaxTime
    BY MaxTimeAssumption DEF Init
<1>3. TablesOK
    BY <1>1, <1>2, ScenarioAssumption DEF Init, TablesOK
<1>4. LoopsOK /\ Registered
    BY DEF Init, LoopsOK, Registered, Actors, Alive
<1>5. SupOK /\ PaidOK
    BY DEF Init, SupOK, PaidOK
<1> QED BY <1>3, <1>4, <1>5 DEF Inv

\* What a step may make of a loop: it keeps its source, and nobody comes to life.
Heir(t, l) ==
    /\ l \in Loop \cup {None}
    /\ l # None =>
        /\ Ready(l) /\ Serving(l)
        /\ t = Cli => l.pc \in {"fetch", "ask", "store"}
        /\ t \in Threads /\ l.pc # "ended" => Alive(t) /\ l.source = loop[t].source

LEMMA StepKeeps ==
    ASSUME LoopsOK, Registered, NEW t \in Actors, NEW l, Step(t, l), Heir(t, l), threads' = threads
    PROVE  LoopsOK' /\ Registered'
<1>1. loop' = [loop EXCEPT ![t] = l] /\ loop \in [Actors -> Loop \cup {None}]
    BY DEF Step, LoopsOK
<1>2. loop'[t] = l /\ \A u \in Actors : u # t => loop'[u] = loop[u]
    BY <1>1
<1>3. loop' \in [Actors -> Loop \cup {None}]
    BY <1>1 DEF Heir
<1>4. \A u \in Actors : loop'[u] # None => Ready(loop'[u]) /\ Serving(loop'[u])
    BY <1>2 DEF Heir, LoopsOK
<1>5. loop'[Cli] # None => loop'[Cli].pc \in {"fetch", "ask", "store"}
    BY <1>2 DEF Heir, LoopsOK, Actors
<1>6. Registered'
    BY <1>2 DEF Registered, Alive, Heir, Actors
<1> QED BY <1>3, <1>4, <1>5, <1>6 DEF LoopsOK, Ready, Serving

LEMMA LoopFields ==
    ASSUME LoopsOK, NEW t \in Actors, loop[t] # None
    PROVE  /\ loop[t] \in Loop /\ Ready(loop[t]) /\ Serving(loop[t]) /\ loop[t].source \in Sources
           /\ t = Cli \/ t \in Threads
BY DEF LoopsOK, Loop, Actors

LEMMA FetchedHeir ==
    ASSUME LoopsOK, now \in 0 .. MaxTime, NEW t \in Actors, loop[t] # None, loop[t].pc # "ended"
    PROVE  Heir(t, Fetched(t))
<1>1. CASE t = Cli
    BY <1>1 DEF Fetched, Heir
<1>2. CASE t # Cli
    <2>1. loop[t] \in Loop /\ t \in Threads
        BY <1>2, LoopFields
    <2> DEFINE l == [loop[t] EXCEPT !.pc = "top", !.plan = None, !.id = None, !.serving = Never, !.last = now,
                                    !.occ = IF loop[t].plan.fetch.kind = "cron" THEN loop[t].serving ELSE @]
    <2>2. Fetched(t) = l
        BY <1>2 DEF Fetched
    <2>3. (IF loop[t].plan.fetch.kind = "cron" THEN loop[t].serving ELSE loop[t].occ) \in Moments \cup {Never}
        BY <2>1 DEF Loop
    <2>4. l \in Loop /\ l.pc = "top" /\ l.source = loop[t].source
        BY <2>1, <2>3 DEF Loop
    <2> HIDE DEF l
    <2>5. Alive(t)
        BY DEF Alive
    <2> QED BY <1>2, <2>2, <2>4, <2>5 DEF Heir, Ready, Serving
<1> QED BY <1>1, <1>2

LEMMA ReloadHeir ==
    ASSUME TablesOK, LoopsOK, Registered, NEW t \in Threads, Reload(t), threads' = threads PROVE LoopsOK' /\ Registered'
<1>1. t \in Actors /\ t # Cli /\ loop[t] \in Loop /\ loop[t].source \in Sources /\ loop[t].pc = "top" /\ Alive(t)
    BY LoopFields, ThreadsAssumption DEF Reload, At, Actors, Alive
<1>2. inst' = Seeded(inst) /\ IsTable(inst', Sources, Row) /\ IsTable(policies, Names, Stage)
    BY SeededTable DEF Reload, TablesOK
<1>3. CASE loop[t].source \in Enabled(inst') /\ Buildable(inst'[loop[t].source])
    <2> DEFINE plan == Rebuilt(inst'[loop[t].source])
               l == [loop[t] EXCEPT !.pc = "decide", !.plan = plan]
    <2>1. inst'[loop[t].source] \in Row
        BY <1>2, <1>3 DEF Enabled, IsTable
    <2>2. plan \in Plan
        BY <1>2, <1>3, <2>1, RebuiltPlan
    <2>3. Step(t, l)
        BY <1>3 DEF Reload
    <2> HIDE DEF plan
    <2>4. l \in Loop /\ l.pc = "decide" /\ l.source = loop[t].source /\ l.plan = plan
        BY <1>1, <2>2 DEF Loop
    <2> HIDE DEF l
    <2>5. Heir(t, l)
        BY <1>1, <2>2, <2>4 DEF Heir, Ready, Serving
    <2> QED BY <1>1, <2>3, <2>5, StepKeeps
<1>4. CASE ~(loop[t].source \in Enabled(inst') /\ Buildable(inst'[loop[t].source]))
    <2> DEFINE l == [loop[t] EXCEPT !.pc = "second", !.plan = None]
    <2>1. Step(t, l)
        BY <1>4 DEF Reload
    <2>2. l \in Loop /\ l.pc = "second" /\ l.source = loop[t].source
        BY <1>1 DEF Loop
    <2> HIDE DEF l
    <2>3. Heir(t, l)
        BY <1>1, <2>2 DEF Heir, Ready, Serving
    <2> QED BY <1>1, <2>1, <2>3, StepKeeps
<1> QED BY <1>3, <1>4

LEMMA LookAgainHeir ==
    ASSUME LoopsOK, Registered, NEW t \in Threads, LookAgain(t), threads' = threads PROVE LoopsOK' /\ Registered'
<1> DEFINE l == [loop[t] EXCEPT !.pc = IF loop[t].source \in Enabled(inst') THEN "top" ELSE "ended"]
<1>1. t \in Actors /\ t # Cli /\ loop[t] \in Loop /\ loop[t].pc = "second" /\ Alive(t)
    BY LoopFields, ThreadsAssumption DEF LookAgain, At, Actors, Alive
<1>2. Step(t, l)
    BY DEF LookAgain
<1>3. l \in Loop /\ l.pc \in {"top", "ended"} /\ l.source = loop[t].source
    BY <1>1 DEF Loop
<1> HIDE DEF l
<1>4. Heir(t, l)
    BY <1>1, <1>3 DEF Heir, Ready, Serving
<1> QED BY <1>1, <1>2, <1>4, StepKeeps

LEMMA LoopDiesHeir ==
    ASSUME LoopsOK, Registered, NEW t \in Threads, LoopDies(t), threads' = threads PROVE LoopsOK' /\ Registered'
<1> DEFINE l == [loop[t] EXCEPT !.pc = "ended", !.plan = None]
<1>1. t \in Actors /\ t # Cli /\ loop[t] \in Loop
    BY LoopFields, ThreadsAssumption DEF LoopDies, At, Actors
<1>2. Step(t, l)
    BY DEF LoopDies
<1>3. l \in Loop /\ l.pc = "ended"
    BY <1>1 DEF Loop
<1> HIDE DEF l
<1>4. Heir(t, l)
    BY <1>1, <1>3 DEF Heir, Ready, Serving
<1> QED BY <1>1, <1>2, <1>4, StepKeeps

LEMMA DecideHeir ==
    ASSUME TablesOK, LoopsOK, Registered, NEW t \in Threads, Decide(t), threads' = threads PROVE LoopsOK' /\ Registered'
<1> DEFINE occ == IF loop[t].plan.fetch.kind = "cron" THEN LatestFire(loop[t].plan.fetch.cron, now) ELSE Never
           due == [loop[t] EXCEPT !.pc = "fetch", !.serving = occ]
           not == [loop[t] EXCEPT !.pc = "top", !.plan = None]
<1>1. /\ t \in Actors /\ t # Cli /\ loop[t] \in Loop /\ loop[t].pc = "decide" /\ Alive(t)
      /\ loop[t].plan \in Plan
    BY LoopFields, ThreadsAssumption DEF Decide, At, Actors, Alive, Ready
<1>2. occ \in Moments \cup {Never}
    BY LatestFireIsMoment, MaxTimeAssumption DEF TablesOK
<1>3. Step(t, due) \/ Step(t, not)
    BY DEF Decide
<1> HIDE DEF occ
<1>4. due \in Loop /\ due.pc = "fetch" /\ due.source = loop[t].source /\ due.plan = loop[t].plan
    BY <1>1, <1>2 DEF Loop
<1>5. not \in Loop /\ not.pc = "top" /\ not.source = loop[t].source
    BY <1>1 DEF Loop
<1> HIDE DEF due, not
<1>6. Heir(t, due)
    BY <1>1, <1>4 DEF Heir, Ready, Serving
<1>7. Heir(t, not)
    BY <1>1, <1>5 DEF Heir, Ready, Serving
<1> QED BY <1>1, <1>3, <1>6, <1>7, StepKeeps

\* An id to ask for is one: a cron stage names an occurrence.
LEMMA NeededId ==
    ASSUME TablesOK, NEW l \in Loop, l.plan \in Plan, NeedsProvider(l)
    PROVE  IdOf(l) \in Id /\ IdOf(l).source = l.source
<1>1. l.plan.fetch \in Stage /\ l.plan.fetch.kind = "cron" /\ l.plan.config \in Prompts /\ l.source \in Sources
    BY DEF NeedsProvider, Plan, Loop
<1>2. l.plan.fetch.cron \in Crons
    BY <1>1, StageCron
<1>3. LatestFire(l.plan.fetch.cron, now) \in Moments
    BY <1>2, LatestFireIsMoment, MaxTimeAssumption DEF TablesOK
<1> QED BY <1>1, <1>3 DEF IdOf, Id

LEMMA FetchHeir ==
    ASSUME TablesOK, LoopsOK, Registered, NEW t \in Actors, Fetch(t), threads' = threads PROVE LoopsOK' /\ Registered'
<1>1. now \in 0 .. MaxTime
    BY DEF TablesOK
<1>2. loop[t] # None /\ loop[t].pc \in {"fetch", "ask", "store"}
    BY DEF Fetch, FetchBegin, FetchFails, Ask, Store, StoreFails, At
<1>3. /\ loop[t] \in Loop /\ Alive(t) /\ loop[t].plan \in Plan /\ Serving(loop[t])
    BY <1>2, LoopFields DEF Alive, Ready
<1>4. ASSUME Step(t, Fetched(t)) PROVE LoopsOK' /\ Registered'
    BY <1>1, <1>2, <1>4, FetchedHeir, StepKeeps
<1>5. CASE FetchBegin(t)
    <2>1. CASE NeedsProvider(loop[t])
        <3> DEFINE l == [loop[t] EXCEPT !.pc = "ask", !.id = IdOf(loop[t])]
        <3>1. Step(t, l)
            BY <1>5, <2>1 DEF FetchBegin
        <3>2. IdOf(loop[t]) \in Id /\ IdOf(loop[t]).source = loop[t].source
            BY <1>3, <2>1, NeededId
        <3>3. l \in Loop /\ l.pc = "ask" /\ l.source = loop[t].source /\ l.plan = loop[t].plan /\ l.id = IdOf(loop[t])
            BY <1>3, <3>2 DEF Loop
        <3> HIDE DEF l
        <3>4. Heir(t, l)
            BY <1>3, <3>2, <3>3 DEF Heir, Ready, Serving
        <3> QED BY <3>1, <3>4, StepKeeps
    <2>2. CASE ~NeedsProvider(loop[t])
        BY <1>4, <1>5, <2>2 DEF FetchBegin
    <2> QED BY <2>1, <2>2
<1>6. CASE Ask(t)
    <2> DEFINE l == [loop[t] EXCEPT !.pc = "store"]
    <2>1. Step(t, l) /\ loop[t].pc = "ask"
        BY <1>6 DEF Ask, At
    <2>2. l \in Loop /\ l.pc = "store" /\ l.source = loop[t].source /\ l.plan = loop[t].plan /\ l.id = loop[t].id
        BY <1>3 DEF Loop
    <2> HIDE DEF l
    <2>3. Heir(t, l)
        BY <1>3, <2>1, <2>2 DEF Heir, Ready, Serving
    <2> QED BY <2>1, <2>3, StepKeeps
<1>7. CASE FetchFails(t) \/ Store(t) \/ StoreFails(t)
    BY <1>4, <1>7 DEF FetchFails, Store, StoreFails
<1> QED BY <1>5, <1>6, <1>7 DEF Fetch

LEMMA IdleLoop == ASSUME NEW s \in Sources PROVE Idle(s) \in Loop /\ Idle(s).pc = "top" /\ Idle(s).source = s
BY DEF Idle, Loop

\* New loops get threads that are free, and the dict learns of each.
LEMMA SpawnHeirs == ASSUME LoopsOK, SupOK, Registered, SupSpawn PROVE LoopsOK' /\ SupOK' /\ Registered'
<1> DEFINE gone    == {t \in Threads : loop[t] # None /\ loop[t].pc = "ended"}
           missing == {s \in wanted : threads[s] = None \/ s \in Reaped}
           free    == {t \in Threads : loop[t] = None} \cup gone
           new     == CHOOSE f \in Injection(missing, free) : TRUE
<1>1. /\ ExistsInjection(missing, free) /\ supPc' = "scan" /\ UNCHANGED wanted
      /\ threads' = [s \in Sources |-> CASE s \in missing -> new[s]
                                       [] s \in Reaped \ missing -> None
                                       [] OTHER -> threads[s]]
      /\ loop' = [t \in Threads \cup {Cli} |->
                     IF \E s \in missing : new[s] = t
                     THEN Idle(CHOOSE s \in missing : new[s] = t)
                     ELSE IF t \in gone THEN None ELSE loop[t]]
    BY DEF SupSpawn, SpawnWith
<1>2. new \in [missing -> free]
    BY <1>1 DEF ExistsInjection, Injection
<1>3. missing \subseteq Sources /\ free \subseteq Threads /\ gone \subseteq free
    BY DEF SupOK
<1>4. \A s \in Sources : \/ s \in missing /\ threads'[s] = new[s]
                         \/ s \notin missing /\ s \in Reaped /\ threads'[s] = None
                         \/ s \notin missing /\ s \notin Reaped /\ threads'[s] = threads[s]
    BY <1>1
<1>5. \A t \in Actors : \/ /\ t \in free /\ \E s \in missing : new[s] = t /\ loop'[t] = Idle(s)
                        \/ t \in gone /\ loop'[t] = None
                        \/ t \notin gone /\ loop'[t] = loop[t]
    <2> SUFFICES ASSUME NEW t \in Actors
                 PROVE  \/ /\ t \in free /\ \E s \in missing : new[s] = t /\ loop'[t] = Idle(s)
                        \/ t \in gone /\ loop'[t] = None
                        \/ t \notin gone /\ loop'[t] = loop[t]
        OBVIOUS
    <2>1. loop'[t] = IF \E s \in missing : new[s] = t
                     THEN Idle(CHOOSE s \in missing : new[s] = t)
                     ELSE IF t \in gone THEN None ELSE loop[t]
        BY <1>1 DEF Actors
    <2> HIDE DEF gone, missing, free, new
    <2>2. CASE \E s \in missing : new[s] = t
        <3> DEFINE s == CHOOSE s \in missing : new[s] = t
        <3>1. s \in missing /\ new[s] = t
            BY <2>2
        <3>2. loop'[t] = Idle(s)
            BY <2>1, <2>2
        <3> HIDE DEF s
        <3> QED BY <1>2, <3>1, <3>2
    <2>3. CASE ~\E s \in missing : new[s] = t
        BY <2>1, <2>3
    <2> QED BY <2>2, <2>3
<1>6. \A t \in free : ~Alive(t)
    BY DEF Alive
<1>7. \A s \in missing : threads[s] = None \/ ~Alive(threads[s])
    BY DEF Reaped
<1>8. \A s \in Reaped : ~Alive(threads[s])
    BY DEF Reaped
<1> HIDE DEF gone, missing, free, new
<1>9. threads' \in [Sources -> Threads \cup {None}]
    <2>1. \A s \in Sources : threads'[s] \in Threads \cup {None}
        BY <1>2, <1>3, <1>4 DEF SupOK
    <2> QED BY <1>1, <2>1
<1>10. SupOK'
    BY <1>1, <1>9 DEF SupOK
<1>11. \A t \in Actors : loop'[t] \in Loop \cup {None} /\ (loop'[t] # None => Ready(loop'[t]) /\ Serving(loop'[t]))
    <2> SUFFICES ASSUME NEW t \in Actors
                 PROVE  loop'[t] \in Loop \cup {None} /\ (loop'[t] # None => Ready(loop'[t]) /\ Serving(loop'[t]))
        OBVIOUS
    <2>1. CASE \E s \in missing : loop'[t] = Idle(s)
        BY <1>3, <2>1, IdleLoop DEF Ready, Serving
    <2>2. CASE loop'[t] = None
        BY <2>2
    <2>3. CASE loop'[t] = loop[t]
        BY <2>3 DEF LoopsOK
    <2> QED BY <1>5, <2>1, <2>2, <2>3
<1>12. loop'[Cli] = loop[Cli]
    BY <1>3, <1>5, ThreadsAssumption DEF Actors
<1>13. LoopsOK'
    <2>1. loop' = [t \in Actors |-> loop'[t]]
        BY <1>1 DEF Actors
    <2>2. loop' \in [Actors -> Loop \cup {None}]
        BY <1>11, <2>1
    <2>3. \A t \in Actors : loop'[t] # None => Ready(loop'[t]) /\ Serving(loop'[t])
        BY <1>11
    <2> QED BY <1>12, <2>2, <2>3 DEF LoopsOK, Ready, Serving
<1>14. ASSUME NEW t \in Threads, loop'[t] # None, loop'[t].pc # "ended" PROVE threads'[loop'[t].source] = t
    <2>1. CASE \E s \in missing : new[s] = t /\ loop'[t] = Idle(s)
        BY <1>3, <1>4, <2>1, IdleLoop
    <2>2. CASE loop'[t] = loop[t]
        <3>1. Alive(t) /\ t \in Actors
            BY <1>14, <2>2 DEF Alive, Actors
        <3>2. loop[t].source \in Sources /\ threads[loop[t].source] = t
            BY <3>1, LoopFields DEF Registered, Alive
        <3>3. t # None
            BY NoneAssumption
        <3>4. loop[t].source \notin missing /\ loop[t].source \notin Reaped
            BY <1>7, <1>8, <3>1, <3>2, <3>3
        <3> QED BY <1>4, <2>2, <3>2, <3>4
    <2> QED BY <1>5, <1>14, <2>1, <2>2 DEF Actors
<1> QED BY <1>10, <1>13, <1>14 DEF Registered, Alive

LEMMA OnceHeir ==
    ASSUME TablesOK, LoopsOK, Registered, NEW s \in Sources, OnceStart(s), threads' = threads PROVE LoopsOK' /\ Registered'
<1>1. inst' = Seeded(inst) /\ IsTable(inst', Sources, Row) /\ IsTable(policies, Names, Stage)
    BY SeededTable DEF OnceStart, TablesOK
<1>2. inst'[s] \in Row /\ Buildable(inst'[s])
    BY <1>1 DEF OnceStart, Enabled, IsTable
<1>3. Rebuilt(inst'[s]) \in Plan
    BY <1>1, <1>2, RebuiltPlan
<1> DEFINE plan == Rebuilt(inst'[s])
           l == [Idle(s) EXCEPT !.pc = "fetch", !.plan = plan]
<1>4. Step(Cli, l)
    BY DEF OnceStart
<1>5. plan \in Plan
    BY <1>3
<1> HIDE DEF plan
<1>6. l \in Loop /\ l.pc = "fetch" /\ l.plan = plan
    BY <1>5 DEF Idle, Loop
<1> HIDE DEF l
<1>7. Cli \in Actors /\ Cli \notin Threads
    BY ThreadsAssumption DEF Actors
<1>8. Heir(Cli, l)
    BY <1>5, <1>6, <1>7 DEF Heir, Ready, Serving
<1> QED BY <1>4, <1>7, <1>8, StepKeeps

LEMMA RestartHeirs == ASSUME LoopsOK, SupOK, Restart PROVE LoopsOK' /\ SupOK' /\ Registered'
<1>1. /\ threads' = [s \in Sources |-> None] /\ wanted' = {} /\ supPc' = "scan"
      /\ loop' = [t \in Actors |-> IF t = Cli THEN loop[Cli] ELSE None]
    BY DEF Restart, Actors
<1>2. SupOK'
    BY <1>1 DEF SupOK
<1>3. Cli \in Actors /\ loop'[Cli] = loop[Cli] /\ \A t \in Actors : t # Cli => loop'[t] = None
    BY <1>1 DEF Actors
<1>4. loop' \in [Actors -> Loop \cup {None}]
    BY <1>1 DEF LoopsOK, Actors
<1>5. \A t \in Actors : loop'[t] # None => Ready(loop'[t]) /\ Serving(loop'[t])
    BY <1>3 DEF LoopsOK
<1>6. LoopsOK'
    BY <1>3, <1>4, <1>5 DEF LoopsOK, Ready, Serving
<1>7. Registered'
    BY <1>3, ThreadsAssumption DEF Registered, Alive, Actors
<1> QED BY <1>2, <1>6, <1>7

\* The threads: nobody but the supervisor starts one, and a restart ends them all.
LEMMA LoopsStep == ASSUME Inv, Next PROVE LoopsOK' /\ SupOK' /\ Registered'
<1>1. TablesOK /\ LoopsOK /\ SupOK /\ Registered
    BY DEF Inv
<1>2. ASSUME UNCHANGED <<loop, threads>>, SupOK' PROVE LoopsOK' /\ SupOK' /\ Registered'
    BY <1>1, <1>2 DEF LoopsOK, Registered, Alive
<1>3. ASSUME UNCHANGED sup PROVE SupOK' /\ threads' = threads
    BY <1>1, <1>3 DEF sup, SupOK
<1>4. CASE SupScan
    <2>1. wanted' \subseteq Sources
        BY <1>1, <1>4, SeededTable DEF SupScan, TablesOK, Enabled, IsTable
    <2> QED BY <1>1, <1>2, <1>4, <2>1 DEF SupScan, SupOK
<1>5. CASE SupScanFails
    BY <1>1, <1>2, <1>5 DEF SupScanFails, SupOK
<1>6. CASE SupSpawn
    BY <1>1, <1>6, SpawnHeirs
<1>7. CASE Restart
    BY <1>1, <1>7, RestartHeirs
<1>8. ASSUME NEW t \in Threads, Run(t) PROVE LoopsOK' /\ SupOK' /\ Registered'
    <2>1. UNCHANGED sup
        BY <1>8 DEF Run, Fetch, Reload, LookAgain, LoopDies, Decide, FetchBegin, FetchFails, Ask, Store, StoreFails, Rest
    <2> QED BY <1>1, <1>3, <1>8, <2>1, ReloadHeir, LookAgainHeir, LoopDiesHeir, DecideHeir, FetchHeir DEF Run, Actors
<1>9. CASE Fetch(Cli)
    <2>1. UNCHANGED sup
        BY <1>9 DEF Fetch, FetchBegin, FetchFails, Ask, Store, StoreFails, Rest
    <2> QED BY <1>1, <1>3, <1>9, <2>1, FetchHeir DEF Actors
<1>10. ASSUME NEW s \in Sources, OnceStart(s) PROVE LoopsOK' /\ SupOK' /\ Registered'
    <2>1. UNCHANGED sup
        BY <1>10 DEF OnceStart
    <2> QED BY <1>1, <1>3, <1>10, <2>1, OnceHeir
<1>11. CASE Tick
    BY <1>2, <1>3, <1>11 DEF Tick, sup
<1>12. ASSUME NEW s \in Sources, NEW cfg \in Row, SaveAdapter(s, cfg) PROVE LoopsOK' /\ SupOK' /\ Registered'
    BY <1>2, <1>3, <1>12 DEF SaveAdapter, Noted, sup
<1>13. ASSUME NEW s \in Sources, Toggle(s) \/ DeleteAdapter(s) PROVE LoopsOK' /\ SupOK' /\ Registered'
    BY <1>2, <1>3, <1>13 DEF Toggle, DeleteAdapter, Noted, sup
<1>14. ASSUME NEW n \in Names, DeletePolicy(n) \/ \E sched \in Schedules : SetPolicy(n, sched)
       PROVE  LoopsOK' /\ SupOK' /\ Registered'
    BY <1>2, <1>3, <1>14 DEF DeletePolicy, SetPolicy, sup
<1> QED BY <1>4, <1>5, <1>6, <1>7, <1>8, <1>9, <1>10, <1>11, <1>12, <1>13, <1>14 DEF Next, Supervise, Operator

LEMMA Spending == ASSUME fuel \in [Steps -> Nat], NEW step \in Steps, Spend(step) PROVE fuel' \in [Steps -> Nat]
BY DEF Spend

LEMMA StoredStage == ASSUME NEW sched \in Written, Accepted(sched) PROVE Normalised(sched) \in Stage
<1>1. CASE sched.kind = "once"
    BY <1>1 DEF Normalised, Stage
<1>2. CASE sched.kind = "interval" /\ sched.every >= 1
    <2>1. sched.every \in Nat \ {0}
        BY <1>2 DEF Written
    <2> QED BY <1>2, <2>1 DEF Normalised, Stage, Interval
<1>3. CASE sched.kind = "cron" /\ sched.cron \in Crons
    BY <1>3 DEF Normalised, Stage
<1> QED BY <1>1, <1>2, <1>3 DEF Accepted

\* The tables: the forms write what they have checked, and an empty one is seeded.
LEMMA TablesStep == ASSUME Inv, Next PROVE TablesOK'
<1>1. TablesOK /\ LoopsOK
    BY DEF Inv
<1>2. ASSUME now' \in 0 .. MaxTime, items' \subseteq Id, inst' = inst \/ inst' = Seeded(inst), policies' = policies,
             fuel' \in [Steps -> Nat]
      PROVE  TablesOK'
    BY <1>1, <1>2, SeededTable DEF TablesOK
<1>3. /\ now \in 0 .. MaxTime /\ items \subseteq Id /\ fuel \in [Steps -> Nat]
      /\ IsTable(inst, Sources, Row) /\ IsTable(policies, Names, Stage)
    BY <1>1 DEF TablesOK
<1> USE DEF Steps
<1>4. ASSUME NEW step \in Steps, Spend(step) PROVE fuel' \in [Steps -> Nat]
    BY <1>3, <1>4, Spending
<1>5. CASE Tick
    <2>1. now' \in 0 .. MaxTime
        BY <1>3, <1>5, MaxTimeAssumption DEF Tick
    <2> QED BY <1>2, <1>3, <1>5, <2>1 DEF Tick, tables
<1>6. CASE SupScan \/ SupSpawn
    BY <1>2, <1>3, <1>6 DEF SupScan, SupSpawn, SpawnWith, tables
<1>7. CASE SupScanFails
    BY <1>2, <1>3, <1>4, <1>7 DEF SupScanFails, tables
<1>8. CASE Restart
    BY <1>2, <1>3, <1>4, <1>8 DEF Restart, tables
<1>9. ASSUME NEW t \in Threads, Reload(t) \/ LookAgain(t) \/ Decide(t) PROVE TablesOK'
    BY <1>2, <1>3, <1>9 DEF Reload, LookAgain, Decide, Rest
<1>10. ASSUME NEW t \in Threads, LoopDies(t) PROVE TablesOK'
    BY <1>2, <1>3, <1>4, <1>10 DEF LoopDies, tables
<1>11. ASSUME NEW t \in Actors, Fetch(t) PROVE TablesOK'
    <2>1. CASE FetchBegin(t) \/ Ask(t)
        BY <1>2, <1>3, <2>1 DEF FetchBegin, Ask, Rest
    <2>2. CASE FetchFails(t) \/ StoreFails(t)
        BY <1>2, <1>3, <1>4, <2>2 DEF FetchFails, StoreFails, tables
    <2>3. CASE Store(t)
        <3>1. loop[t].id \in Id
            BY <1>1, <2>3, LoopFields DEF Store, At, Serving
        <3> QED BY <1>2, <1>3, <2>3, <3>1 DEF Store, Rest
    <2> QED BY <1>11, <2>1, <2>2, <2>3 DEF Fetch
<1>12. ASSUME NEW s \in Sources, OnceStart(s) PROVE TablesOK'
    BY <1>2, <1>3, <1>4, <1>12 DEF OnceStart
<1>13. ASSUME IsTable(inst', Sources, Row), UNCHANGED <<now, policies, items>>, fuel' \in [Steps -> Nat] PROVE TablesOK'
    BY <1>3, <1>13 DEF TablesOK
<1>14. ASSUME NEW s \in Sources, NEW cfg \in Row, SaveAdapter(s, cfg) PROVE TablesOK'
    <2>1. IsTable(inst', Sources, Row)
        BY <1>3, <1>14 DEF SaveAdapter, IsTable
    <2> QED BY <1>4, <1>13, <1>14, <2>1 DEF SaveAdapter, Noted
<1>15. ASSUME NEW s \in Sources, Toggle(s) PROVE TablesOK'
    <2>1. inst' = [inst EXCEPT ![s].on = ~@] /\ s \in DOMAIN inst /\ inst[s] \in Row
        BY <1>3, <1>15 DEF Toggle, IsTable
    <2>2. [inst[s] EXCEPT !.on = ~@] \in Row
        BY <2>1 DEF Row
    <2>3. IsTable(inst', Sources, Row)
        BY <1>3, <2>1, <2>2 DEF IsTable
    <2> QED BY <1>4, <1>13, <1>15, <2>3 DEF Toggle, Noted
<1>16. ASSUME NEW s \in Sources, DeleteAdapter(s) PROVE TablesOK'
    <2>1. IsTable(inst', Sources, Row)
        BY <1>3, <1>16 DEF DeleteAdapter, IsTable
    <2> QED BY <1>4, <1>13, <1>16, <2>1 DEF DeleteAdapter, Noted
<1>17. ASSUME NEW n \in Names, DeletePolicy(n) PROVE TablesOK'
    <2>1. IsTable(policies', Names, Stage)
        BY <1>3, <1>17 DEF DeletePolicy, IsTable
    <2> QED BY <1>3, <1>4, <1>17, <2>1 DEF DeletePolicy, TablesOK
<1>18. ASSUME NEW n \in Names, NEW sched \in Schedules, SetPolicy(n, sched) PROVE TablesOK'
    <2>1. Normalised(sched) \in Stage
        BY <1>18, PolicyAssumption, StoredStage DEF SetPolicy
    <2>2. IsTable(policies', Names, Stage)
        BY <1>3, <1>18, <2>1 DEF SetPolicy, IsTable
    <2> QED BY <1>3, <1>4, <1>18, <2>2 DEF SetPolicy, TablesOK
<1> QED BY <1>5, <1>6, <1>7, <1>8, <1>9, <1>10, <1>11, <1>12, <1>14, <1>15, <1>16, <1>17, <1>18
        DEF Next, Supervise, Operator, Run, Actors

-----------------------------------------------------------------------------
(* One loop for a source. *)

\* Whatever else is said of a source's loops, there is only one that lives.
LEMMA OneLoop ==
    ASSUME LoopsOK, Registered, NEW t \in Threads, NEW u \in Threads, Alive(t), Alive(u), loop[t].source = loop[u].source
    PROVE  t = u
BY DEF Registered

\* The loops that hold an answer for an id: none or one.
Holding(i) == {t \in Threads : At(t, "store") /\ loop[t].id = i}

LEMMA HoldingSize ==
    ASSUME LoopsOK, Registered, NEW i \in Id
    PROVE  /\ Holding(i) = {} => Cardinality(Holding(i)) = 0
           /\ Holding(i) # {} => Cardinality(Holding(i)) = 1
           /\ \A t, u \in Holding(i) : t = u
<1>1. \A t \in Holding(i) : t \in Threads /\ Alive(t) /\ loop[t].source = i.source
    BY LoopFields DEF Holding, At, Alive, Serving, Actors
<1>2. \A t, u \in Holding(i) : t = u
    BY <1>1, OneLoop
<1>3. CASE Holding(i) = {}
    BY <1>3, FS_EmptySet
<1>4. CASE Holding(i) # {}
    <2>1. PICK t \in Holding(i) : TRUE
        BY <1>4
    <2>2. Holding(i) = {t}
        BY <1>2, <2>1
    <2> QED BY <1>2, <1>4, <2>2, FS_Singleton
<1> QED BY <1>2, <1>3, <1>4

LEMMA PaidStep == ASSUME Inv, Next PROVE PaidOK'
<1>1. PaidOK /\ LoopsOK /\ Registered
    BY DEF Inv
<1>2. CASE UNCHANGED history
    BY <1>1, <1>2 DEF history, PaidOK
<1>3. ASSUME NEW t \in Actors, Ask(t) PROVE PaidOK'
    <2>1. loop[t].id \in Id
        BY <1>1, <1>3, LoopFields DEF Ask, At, Serving
    <2> QED BY <1>1, <1>3, <2>1 DEF Ask, PaidOK
<1>4. ASSUME NEW t \in Actors, StoreFails(t) PROVE PaidOK'
    <2>1. loop[t].id \in Id
        BY <1>1, <1>4, LoopFields DEF StoreFails, At, Serving
    <2> QED BY <1>1, <1>4, <2>1 DEF StoreFails, PaidOK
<1>5. CASE Restart
    <2>1. \A i \in Id : Cardinality(Holding(i)) \in {0, 1}
        BY <1>1, HoldingSize
    <2>2. lost' = [i \in Id |-> lost[i] + Cardinality(Holding(i))]
        BY <1>5 DEF Restart, Holding
    <2>3. \A i \in Id : lost[i] + Cardinality(Holding(i)) \in Nat
        BY <1>1, <2>1 DEF PaidOK
    <2>4. lost' \in [Id -> Nat]
        BY <2>2, <2>3
    <2> QED BY <1>1, <1>5, <2>4 DEF Restart, PaidOK
<1>6. ASSUME NEW t \in Threads, Decide(t) PROVE PaidOK'
    <2>1. loop[t].source \in Sources
        BY <1>1, <1>6, LoopFields DEF Decide, At, Actors
    <2> QED BY <1>1, <1>6, <2>1 DEF Decide, PaidOK
<1>7. ASSUME NEW s \in Sources, Noted(s, inst') PROVE PaidOK'
    BY <1>1, <1>7 DEF Noted, PaidOK
<1>8. CASE Tick \/ Supervise
    BY <1>2, <1>8 DEF Tick, Supervise, SupScan, SupScanFails, SupSpawn, SpawnWith
<1>9. ASSUME NEW t \in Threads, Reload(t) \/ LookAgain(t) \/ LoopDies(t) PROVE PaidOK'
    BY <1>2, <1>9 DEF Reload, LookAgain, LoopDies, history
<1>10. ASSUME NEW t \in Actors, FetchBegin(t) \/ FetchFails(t) \/ Store(t) PROVE PaidOK'
    BY <1>2, <1>10 DEF FetchBegin, FetchFails, Store
<1>11. CASE Operator
    BY <1>2, <1>7, <1>11 DEF Operator, SaveAdapter, Toggle, DeleteAdapter, OnceStart, DeletePolicy, SetPolicy
<1> QED BY <1>3, <1>4, <1>5, <1>6, <1>8, <1>9, <1>10, <1>11 DEF Next, Run, Fetch, Actors

LEMMA TypeStep == Inv /\ [Next]_vars => Inv'
<1> SUFFICES ASSUME Inv, [Next]_vars PROVE Inv'
    OBVIOUS
<1>1. CASE UNCHANGED vars
    BY <1>1 DEF vars, tables, sup, history, Inv, TablesOK, LoopsOK, SupOK, PaidOK, Registered, Alive
<1> QED BY <1>1, TablesStep, LoopsStep, PaidStep DEF Inv

\* What the specification allows, without its fairness: no safety property needs more.
Course == Init /\ [][Next]_vars

LEMMA Inductive == Course => []Inv
BY TypeStart, TypeStep, PTL DEF Course

\* The supervisor's dict, the loops and the tables keep their types: no loop decides without a plan,
\* none pays for what has no id, and what the forms store can be scheduled.
THEOREM TypeCorrect == Spec => []TypeOK
BY Inductive, InvTypes, PTL DEF Spec, Course
-----------------------------------------------------------------------------
(* The threads follow the table. *)

\* A source that is off has fetched at most once since, and then nobody decides for it.
Off(s) ==
    s \notin Enabled(inst) =>
        \/ after[s] = 0
        \/ after[s] = 1 /\ \A t \in Threads : At(t, "decide") => loop[t].source # s
OffInv == \A s \in Sources : Off(s)

LEMMA SeededStaysOn == Enabled(inst) \subseteq Enabled(Seeded(inst))
BY DEF Enabled, Seeded

\* A step that switches nothing off, counts nothing and brings nobody to decide for a source that is off.
LEMMA OffKept ==
    ASSUME OffInv, NEW s \in Sources, after'[s] = after[s], s \in Enabled(inst) => s \in Enabled(inst'),
           \A t \in Threads : (loop'[t] # None /\ loop'[t].pc = "decide" /\ loop'[t].source = s) =>
                                  s \in Enabled(inst') \/ (At(t, "decide") /\ loop[t].source = s)
    PROVE  Off(s)'
BY DEF OffInv, Off, At

LEMMA StepOthers ==
    ASSUME LoopsOK, NEW t \in Actors, NEW l, Step(t, l)
    PROVE  loop'[t] = l /\ \A u \in Actors : u # t => loop'[u] = loop[u]
BY DEF LoopsOK, Step

\* What the supervisor's round does to a loop: one that lives stays, a new one starts at the top.
LEMMA SpawnMoves ==
    ASSUME LoopsOK, SupSpawn, NEW t \in Actors
    PROVE  \/ loop'[t] = loop[t]
           \/ ~Alive(t) /\ t # Cli /\ (loop'[t] = None \/ loop'[t].pc = "top")
<1> DEFINE gone    == {u \in Threads : loop[u] # None /\ loop[u].pc = "ended"}
           missing == {s \in wanted : threads[s] = None \/ s \in Reaped}
           free    == {u \in Threads : loop[u] = None} \cup gone
           new     == CHOOSE f \in Injection(missing, free) : TRUE
<1>1. /\ ExistsInjection(missing, free)
      /\ loop' = [u \in Threads \cup {Cli} |->
                     IF \E s \in missing : new[s] = u THEN Idle(CHOOSE s \in missing : new[s] = u)
                     ELSE IF u \in gone THEN None ELSE loop[u]]
    BY DEF SupSpawn, SpawnWith
<1>2. \A s \in missing : new[s] \in free
    <2> HIDE DEF missing, free
    <2>1. new \in Injection(missing, free)
        BY <1>1 DEF ExistsInjection
    <2> QED BY <2>1 DEF Injection, IsInjective
<1>3. \A u \in free : u # Cli /\ ~Alive(u)
    BY ThreadsAssumption DEF Alive
<1>4. \A u \in gone : u # Cli /\ ~Alive(u)
    BY ThreadsAssumption DEF Alive
<1> HIDE DEF gone, missing, free, new
<1>5. CASE \E s \in missing : new[s] = t
    <2>1. loop'[t] = Idle(CHOOSE s \in missing : new[s] = t)
        BY <1>1, <1>5 DEF Actors
    <2>2. loop'[t].pc = "top"
        BY <2>1 DEF Idle
    <2> QED BY <1>2, <1>3, <1>5, <2>2
<1>6. CASE ~\E s \in missing : new[s] = t
    BY <1>1, <1>4, <1>6 DEF Actors
<1> QED BY <1>5, <1>6

LEMMA FetchedIsOver ==
    ASSUME LoopsOK, NEW t \in Actors, loop[t] # None PROVE Fetched(t) = None \/ Fetched(t).pc = "top"
BY LoopFields DEF Fetched, Loop

\* No step of a fetch leads to a decision.
LEMMA FetchDecidesNothing ==
    ASSUME LoopsOK, NEW t \in Actors, Fetch(t), NEW u \in Actors, loop'[u] # None, loop'[u].pc = "decide"
    PROVE  loop'[u] = loop[u]
<1>1. loop[t] # None
    BY DEF Fetch, FetchBegin, FetchFails, Ask, Store, StoreFails, At
<1>2. loop[t] \in Loop
    BY <1>1, LoopFields
<1>3. ASSUME NEW l, Step(t, l), l = None \/ l.pc # "decide" PROVE loop'[u] = loop[u]
    BY <1>3, StepOthers
<1>4. CASE Step(t, Fetched(t))
    BY <1>1, <1>3, <1>4, FetchedIsOver
<1>5. CASE FetchBegin(t)
    <2> DEFINE l == [loop[t] EXCEPT !.pc = "ask", !.id = IdOf(loop[t])]
    <2>1. l.pc = "ask"
        BY <1>2 DEF Loop
    <2>2. Step(t, l) \/ Step(t, Fetched(t))
        BY <1>5 DEF FetchBegin
    <2> HIDE DEF l
    <2> QED BY <1>3, <1>4, <2>1, <2>2
<1>6. CASE Ask(t)
    <2> DEFINE l == [loop[t] EXCEPT !.pc = "store"]
    <2>1. l.pc = "store"
        BY <1>2 DEF Loop
    <2>2. Step(t, l)
        BY <1>6 DEF Ask
    <2> HIDE DEF l
    <2> QED BY <1>3, <2>1, <2>2
<1>7. CASE FetchFails(t) \/ Store(t) \/ StoreFails(t)
    BY <1>4, <1>7 DEF FetchFails, Store, StoreFails
<1> QED BY <1>5, <1>6, <1>7 DEF Fetch

LEMMA OffStart == Init => OffInv
BY DEF Init, OffInv, Off

\* Only a loop that has read its row as enabled decides, and there is one per source.
LEMMA OffStep == ASSUME Inv, OffInv, Next, NEW s \in Sources PROVE Off(s)'
<1>1. LoopsOK /\ SupOK /\ Registered /\ PaidOK
    BY DEF Inv
<1>2. Enabled(inst) \subseteq Enabled(Seeded(inst))
    BY SeededStaysOn
<1>3. \A t \in Threads : t \in Actors /\ t # Cli
    BY ThreadsAssumption DEF Actors
<1>4. CASE UNCHANGED <<after, loop>> /\ (inst' = inst \/ inst' = Seeded(inst))
    BY <1>2, <1>4, OffKept DEF At
<1>5. CASE Tick \/ SupScan \/ SupScanFails
    BY <1>4, <1>5 DEF Tick, SupScan, SupScanFails, history, tables
<1>6. CASE SupSpawn
    <2>1. UNCHANGED <<inst, after>>
        BY <1>6 DEF SupSpawn, SpawnWith, tables, history
    <2>2. \A t \in Threads : loop'[t] # None /\ loop'[t].pc = "decide" => loop'[t] = loop[t]
        BY <1>1, <1>3, <1>6, SpawnMoves
    <2> QED BY <2>1, <2>2, OffKept DEF At
<1>7. CASE Restart
    <2>1. UNCHANGED <<inst, after>>
        BY <1>7 DEF Restart, tables
    <2>2. \A t \in Threads : loop'[t] = None
        BY <1>3, <1>7 DEF Restart, Actors
    <2> QED BY <2>1, <2>2, OffKept
<1>8. ASSUME NEW t \in Threads, Reload(t) PROVE Off(s)'
    <2>1. after' = after /\ inst' = Seeded(inst) /\ loop[t] \in Loop
        BY <1>1, <1>3, <1>8, LoopFields DEF Reload, At, history
    <2>2. \E l : Step(t, l) /\ (l.pc = "decide" => l.source \in Enabled(inst'))
        <3> DEFINE yes == [loop[t] EXCEPT !.pc = "decide", !.plan = Rebuilt(inst'[loop[t].source])]
                   no  == [loop[t] EXCEPT !.pc = "second", !.plan = None]
        <3>1. yes.source = loop[t].source /\ no.pc = "second"
            BY <2>1 DEF Loop
        <3>2. (loop[t].source \in Enabled(inst') /\ Step(t, yes)) \/ Step(t, no)
            BY <1>8 DEF Reload
        <3> HIDE DEF yes, no
        <3> QED BY <3>1, <3>2
    <2>3. PICK l : Step(t, l) /\ (l.pc = "decide" => l.source \in Enabled(inst'))
        BY <2>2
    <2>4. loop'[t] = l /\ \A u \in Actors : u # t => loop'[u] = loop[u]
        BY <1>1, <1>3, <2>3, StepOthers
    <2> QED BY <1>2, <1>3, <2>1, <2>3, <2>4, OffKept DEF At
<1>9. ASSUME NEW t \in Threads, LookAgain(t) PROVE Off(s)'
    <2> DEFINE l == [loop[t] EXCEPT !.pc = IF loop[t].source \in Enabled(inst') THEN "top" ELSE "ended"]
    <2>1. after' = after /\ inst' = Seeded(inst) /\ loop[t] \in Loop /\ Step(t, l)
        BY <1>1, <1>3, <1>9, LoopFields DEF LookAgain, At, history
    <2>2. l.pc # "decide"
        BY <2>1 DEF Loop
    <2> HIDE DEF l
    <2>3. loop'[t] = l /\ \A u \in Actors : u # t => loop'[u] = loop[u]
        BY <1>1, <1>3, <2>1, StepOthers
    <2> QED BY <1>2, <1>3, <2>1, <2>2, <2>3, OffKept DEF At
<1>10. ASSUME NEW t \in Threads, LoopDies(t) PROVE Off(s)'
    <2> DEFINE l == [loop[t] EXCEPT !.pc = "ended", !.plan = None]
    <2>1. after' = after /\ inst' = inst /\ loop[t] \in Loop /\ Step(t, l)
        BY <1>1, <1>3, <1>10, LoopFields DEF LoopDies, At, history, tables
    <2>2. l.pc # "decide"
        BY <2>1 DEF Loop
    <2> HIDE DEF l
    <2>3. loop'[t] = l /\ \A u \in Actors : u # t => loop'[u] = loop[u]
        BY <1>1, <1>3, <2>1, StepOthers
    <2> QED BY <1>3, <2>1, <2>2, <2>3, OffKept DEF At
<1>11. ASSUME NEW t \in Threads, Decide(t) PROVE Off(s)'
    <2> DEFINE occ == IF loop[t].plan.fetch.kind = "cron" THEN LatestFire(loop[t].plan.fetch.cron, now) ELSE Never
               due == [loop[t] EXCEPT !.pc = "fetch", !.serving = occ]
               not == [loop[t] EXCEPT !.pc = "top", !.plan = None]
    <2>1. inst' = inst /\ loop[t] \in Loop /\ loop[t].source \in Sources /\ At(t, "decide") /\ Alive(t)
        BY <1>1, <1>3, <1>11, LoopFields DEF Decide, At, Alive
    <2>2. due.pc = "fetch" /\ not.pc = "top"
        BY <2>1 DEF Loop
    <2>3. Step(t, due) \/ Step(t, not)
        BY <1>11 DEF Decide
    <2> HIDE DEF due, not
    <2>4. (loop'[t] = due \/ loop'[t] = not) /\ \A u \in Actors : u # t => loop'[u] = loop[u]
        BY <1>1, <1>3, <2>3, StepOthers
    <2>5. \A u \in Threads : loop'[u] # None /\ loop'[u].pc = "decide" => u # t /\ loop'[u] = loop[u] /\ At(u, "decide")
        BY <1>3, <2>2, <2>4 DEF At
    <2>6. CASE after'[s] = after[s]
        BY <2>1, <2>5, <2>6, OffKept
    <2>7. CASE after'[s] # after[s]
        <3>1. s = loop[t].source /\ after'[s] = after[s] + 1
            BY <1>1, <1>11, <2>1, <2>7 DEF Decide, PaidOK
        <3>2. s \notin Enabled(inst) => after[s] = 0
            BY <2>1, <3>1 DEF OffInv, Off
        <3>3. \A u \in Threads : At(u, "decide") /\ loop[u].source = s => u = t
            BY <1>1, <2>1, <3>1, OneLoop DEF At, Alive
        <3>4. \A u \in Threads : loop'[u] # None /\ loop'[u].pc = "decide" => loop'[u].source # s
            BY <2>5, <3>3
        <3> QED BY <2>1, <3>1, <3>2, <3>4 DEF Off, At
    <2> QED BY <2>6, <2>7
<1>12. ASSUME NEW t \in Actors, Fetch(t) PROVE Off(s)'
    <2>1. UNCHANGED <<inst, after>>
        BY <1>12 DEF Fetch, FetchBegin, FetchFails, Ask, Store, StoreFails, history, tables
    <2>2. \A u \in Threads : loop'[u] # None /\ loop'[u].pc = "decide" => loop'[u] = loop[u]
        BY <1>1, <1>3, <1>12, FetchDecidesNothing
    <2> QED BY <2>1, <2>2, OffKept DEF At
<1>13. ASSUME NEW r \in Sources, OnceStart(r) PROVE Off(s)'
    <2>1. after' = after /\ inst' = Seeded(inst)
        BY <1>13 DEF OnceStart, history
    <2>2. \A u \in Threads : loop'[u] = loop[u]
        BY <1>1, <1>3, <1>13 DEF OnceStart, Step, LoopsOK
    <2> QED BY <1>2, <2>1, <2>2, OffKept DEF At
<1>14. ASSUME NEW r \in Sources, Noted(r, inst'), \A q \in Sources \ {r} : q \in Enabled(inst) <=> q \in Enabled(inst')
       PROVE  Off(s)'
    <2>1. loop' = loop /\ after' = IF r \in Enabled(inst) \ Enabled(inst') THEN [after EXCEPT ![r] = 0] ELSE after
        BY <1>14 DEF Noted
    <2>2. CASE s = r /\ s \in Enabled(inst) /\ s \notin Enabled(inst')
        <3>1. after'[s] = 0
            BY <1>1, <2>1, <2>2 DEF PaidOK
        <3> QED BY <3>1 DEF Off
    <2>3. CASE ~(s = r /\ s \in Enabled(inst) /\ s \notin Enabled(inst'))
        <3>1. after'[s] = after[s] /\ (s \in Enabled(inst) => s \in Enabled(inst'))
            BY <1>1, <1>14, <2>1, <2>3 DEF PaidOK
        <3> QED BY <2>1, <3>1, OffKept DEF At
    <2> QED BY <2>2, <2>3
<1>15. ASSUME NEW r \in Sources, NEW cfg \in Row, SaveAdapter(r, cfg) PROVE Off(s)'
    <2>1. \A q \in Sources \ {r} : q \in Enabled(inst) <=> q \in Enabled(inst')
        BY <1>15 DEF SaveAdapter, Enabled
    <2> QED BY <1>14, <1>15, <2>1 DEF SaveAdapter
<1>16. ASSUME NEW r \in Sources, Toggle(r) PROVE Off(s)'
    <2>1. \A q \in Sources \ {r} : q \in Enabled(inst) <=> q \in Enabled(inst')
        BY <1>16 DEF Toggle, Enabled
    <2> QED BY <1>14, <1>16, <2>1 DEF Toggle
<1>17. ASSUME NEW r \in Sources, DeleteAdapter(r) PROVE Off(s)'
    <2>1. \A q \in Sources \ {r} : q \in Enabled(inst) <=> q \in Enabled(inst')
        BY <1>17 DEF DeleteAdapter, Enabled
    <2> QED BY <1>14, <1>17, <2>1 DEF DeleteAdapter
<1>18. ASSUME NEW n \in Names, DeletePolicy(n) \/ \E sched \in Schedules : SetPolicy(n, sched) PROVE Off(s)'
    BY <1>4, <1>18 DEF DeletePolicy, SetPolicy, history
<1> QED BY <1>5, <1>6, <1>7, <1>8, <1>9, <1>10, <1>11, <1>12, <1>13, <1>15, <1>16, <1>17, <1>18
        DEF Next, Supervise, Operator, Run, Actors

LEMMA OneLoopEach == Inv => OneLoopPerSource
<1> SUFFICES ASSUME Inv, NEW s \in Sources PROVE Cardinality(LoopsOf(s)) <= 1
    BY DEF OneLoopPerSource
<1>1. \A t \in LoopsOf(s) : t = threads[s]
    BY DEF Inv, Registered, LoopsOf
<1>2. CASE LoopsOf(s) = {}
    BY <1>2, FS_EmptySet
<1>3. CASE LoopsOf(s) # {}
    <2>1. LoopsOf(s) = {threads[s]}
        BY <1>1, <1>3
    <2>2. Cardinality({threads[s]}) = 1
        BY FS_Singleton, Zenon
    <2> QED BY <2>1, <2>2
<1> QED BY <1>2, <1>3

LEMMA LoopsFollow == Course => []LoopsFollowTheTable
<1>1. Inv /\ OffInv /\ [Next]_vars => OffInv'
    <2>1. ASSUME Inv, OffInv, Next PROVE OffInv'
        BY <2>1, OffStep DEF OffInv
    <2>2. ASSUME OffInv, UNCHANGED vars PROVE OffInv'
        BY <2>2 DEF vars, tables, history, OffInv, Off, At, Enabled
    <2> QED BY <2>1, <2>2
<1>2. Inv /\ OffInv => LoopsFollowTheTable
    BY OneLoopEach DEF Inv, PaidOK, OffInv, Off, OffMeansOff, LoopsFollowTheTable
<1> QED BY <1>1, <1>2, OffStart, Inductive, PTL DEF Course

\* The threads follow the table: a source has one loop, whichever deaths, restarts and edits overlap, and
\* after it was switched off it fetches at most once more.
THEOREM LoopsAreTheTables == Spec => []LoopsFollowTheTable
BY LoopsFollow, PTL DEF Spec, Course

-----------------------------------------------------------------------------
(* What is paid for.  An answer is a call paid for and not lost: it is on   *)
(* its way in a loop or in `--once`, or its item is stored.                 *)

Holds(t, pc, i)   == At(t, pc) /\ loop[t].id = i
LoopHolds(pc, i)  == \E t \in Threads : Holds(t, pc, i)
Count(b)          == IF b THEN 1 ELSE 0

\* An id without an item: every answer is under way.  With one: whoever has still to ask had looked
\* before it was stored, so a loop and `--once` make two calls at most.
Pay(i) ==
    /\ i \notin items => paid[i] - lost[i] = Count(LoopHolds("store", i)) + Count(Holds(Cli, "store", i))
    /\ i \in items => paid[i] - lost[i] + Count(LoopHolds("ask", i)) + Count(Holds(Cli, "ask", i)) <= 2
    /\ i \in items /\ i \notin apart => paid[i] - lost[i] + Count(LoopHolds("ask", i)) <= 1
    /\ Holds(Cli, "store", i) => i \in apart
PayInv == \A i \in Id : Pay(i)

\* Two loops never serve one id.
LEMMA OneServer ==
    ASSUME LoopsOK, Registered, NEW i \in Id, NEW t \in Threads, NEW u \in Threads,
           Holds(t, "ask", i) \/ Holds(t, "store", i), Holds(u, "ask", i) \/ Holds(u, "store", i)
    PROVE  t = u
<1>1. \A v \in {t, u} : v \in Actors /\ Alive(v)
    BY DEF Holds, At, Alive, Actors
<1>2. loop[t].source = i.source /\ loop[u].source = i.source
    BY <1>1, LoopFields DEF Holds, At, Serving
<1> QED BY <1>1, <1>2, OneLoop

\* A step of a thread makes it what it is at, and moves nobody else.
LEMMA LoopMoves ==
    ASSUME LoopsOK, Registered, NEW i \in Id, NEW t \in Threads, NEW l, Step(t, l), NEW pc \in {"ask", "store"}
    PROVE  /\ Holds(Cli, pc, i)' <=> Holds(Cli, pc, i)
           /\ Holds(t, "ask", i) \/ Holds(t, "store", i) =>
                  /\ LoopHolds(pc, i) <=> Holds(t, pc, i)
                  /\ LoopHolds(pc, i)' <=> (l # None /\ l.pc = pc /\ l.id = i)
           /\ ~(Holds(t, "ask", i) \/ Holds(t, "store", i)) =>
                  (LoopHolds(pc, i)' <=> LoopHolds(pc, i) \/ (l # None /\ l.pc = pc /\ l.id = i))
<1>1. t \in Actors /\ Cli \in Actors /\ t # Cli /\ \A u \in Threads : u \in Actors
    BY ThreadsAssumption DEF Actors
<1>2. loop'[t] = l /\ \A u \in Actors : u # t => loop'[u] = loop[u]
    BY <1>1, StepOthers
<1>3. Holds(Cli, pc, i)' <=> Holds(Cli, pc, i)
    BY <1>1, <1>2 DEF Holds, At
<1>4. Holds(t, pc, i)' <=> (l # None /\ l.pc = pc /\ l.id = i)
    BY <1>2 DEF Holds, At
<1>5. \A u \in Threads : u # t => (Holds(u, pc, i)' <=> Holds(u, pc, i))
    BY <1>1, <1>2 DEF Holds, At
<1>6. LoopHolds(pc, i)' <=> \E u \in Threads : Holds(u, pc, i)'
    BY DEF LoopHolds
<1>7. CASE Holds(t, "ask", i) \/ Holds(t, "store", i)
    <2>1. \A u \in Threads : u # t => ~Holds(u, pc, i)
        BY <1>7, OneServer
    <2> QED BY <1>3, <1>4, <1>5, <1>6, <1>7, <2>1 DEF LoopHolds
<1>8. CASE ~(Holds(t, "ask", i) \/ Holds(t, "store", i))
    <2>1. ~Holds(t, pc, i)
        BY <1>8
    <2>2. LoopHolds(pc, i)' <=> LoopHolds(pc, i) \/ Holds(t, pc, i)'
        BY <1>5, <1>6, <2>1 DEF LoopHolds
    <2> QED BY <1>3, <1>4, <1>8, <2>2
<1> QED BY <1>7, <1>8

\* A step of `--once`.
LEMMA CliMoves ==
    ASSUME LoopsOK, NEW i, NEW l, Step(Cli, l), NEW pc
    PROVE  /\ LoopHolds(pc, i)' <=> LoopHolds(pc, i)
           /\ Holds(Cli, pc, i)' <=> (l # None /\ l.pc = pc /\ l.id = i)
<1>1. Cli \in Actors /\ \A u \in Threads : u \in Actors /\ u # Cli
    BY ThreadsAssumption DEF Actors
<1>2. loop'[Cli] = l /\ \A u \in Actors : u # Cli => loop'[u] = loop[u]
    BY <1>1, StepOthers
<1>3. \A u \in Threads : Holds(u, pc, i)' <=> Holds(u, pc, i)
    BY <1>1, <1>2 DEF Holds, At
<1>4. LoopHolds(pc, i)' <=> \E u \in Threads : Holds(u, pc, i)'
    BY DEF LoopHolds
<1> QED BY <1>2, <1>3, <1>4 DEF LoopHolds, Holds, At

\* What a step does not touch keeps its account.
LEMMA PayKept ==
    ASSUME PayInv, PaidOK, NEW i \in Id, paid'[i] = paid[i], lost'[i] = lost[i], i \in items' <=> i \in items, i \in apart' <=> i \in apart,
           LoopHolds("store", i)' <=> LoopHolds("store", i), Holds(Cli, "store", i)' <=> Holds(Cli, "store", i),
           i \in items => (LoopHolds("ask", i)' => LoopHolds("ask", i)),
           i \in items => (Holds(Cli, "ask", i)' => Holds(Cli, "ask", i))
    PROVE  Pay(i)'
<1>1. Pay(i) /\ paid[i] \in Nat /\ lost[i] \in Nat
    BY DEF PayInv, PaidOK
<1>2. /\ Count(LoopHolds("store", i)') = Count(LoopHolds("store", i))
      /\ Count(Holds(Cli, "store", i)') = Count(Holds(Cli, "store", i))
      /\ i \in items => /\ Count(LoopHolds("ask", i)') <= Count(LoopHolds("ask", i))
                        /\ Count(Holds(Cli, "ask", i)') <= Count(Holds(Cli, "ask", i))
    BY DEF Count
<1>3. /\ Count(LoopHolds("ask", i)) \in {0, 1} /\ Count(LoopHolds("ask", i)') \in {0, 1}
      /\ Count(Holds(Cli, "ask", i)) \in {0, 1} /\ Count(Holds(Cli, "ask", i)') \in {0, 1}
    BY DEF Count
<1>4. Pay(i)' <=>
        /\ i \notin items => paid[i] - lost[i] = Count(LoopHolds("store", i)') + Count(Holds(Cli, "store", i)')
        /\ i \in items => paid[i] - lost[i] + Count(LoopHolds("ask", i)') + Count(Holds(Cli, "ask", i)') <= 2
        /\ i \in items /\ i \notin apart => paid[i] - lost[i] + Count(LoopHolds("ask", i)') <= 1
        /\ Holds(Cli, "store", i)' => i \in apart
    BY DEF Pay, Count
<1> DEFINE a == Count(LoopHolds("ask", i))
           b == Count(Holds(Cli, "ask", i))
           a1 == Count(LoopHolds("ask", i)')
           b1 == Count(Holds(Cli, "ask", i)')
           k == paid[i] - lost[i]
<1>5. /\ i \in items => k + a + b <= 2
      /\ i \in items /\ i \notin apart => k + a <= 1
    BY <1>1 DEF Pay
<1>6. /\ i \in items => k + a1 + b1 <= 2
      /\ i \in items /\ i \notin apart => k + a1 <= 1
    <2>1. k \in Int /\ a \in {0, 1} /\ b \in {0, 1} /\ a1 \in {0, 1} /\ b1 \in {0, 1}
        BY <1>1, <1>3
    <2>2. i \in items => a1 <= a /\ b1 <= b
        BY <1>2
    <2> HIDE DEF a, b, a1, b1, k
    <2> QED BY <1>5, <2>1, <2>2
<1> QED BY <1>1, <1>2, <1>4, <1>6 DEF Pay

LEMMA QuietStep ==
    ASSUME PayInv, PaidOK, LoopsOK, Registered, NEW t \in Actors, NEW l, Step(t, l), NEW i \in Id,
           ~Holds(t, "store", i), l = None \/ l.pc \notin {"ask", "store"},
           paid'[i] = paid[i], lost'[i] = lost[i], i \in items' <=> i \in items, i \in apart' <=> i \in apart
    PROVE  Pay(i)'
<1>1. CASE t = Cli
    <2>1. \A pc : /\ LoopHolds(pc, i)' <=> LoopHolds(pc, i)
                  /\ Holds(Cli, pc, i)' <=> (l # None /\ l.pc = pc /\ l.id = i)
        BY <1>1, CliMoves
    <2>2. ~Holds(Cli, "store", i)' /\ ~Holds(Cli, "ask", i)' /\ ~Holds(Cli, "store", i)
        BY <1>1, <2>1
    <2> QED BY <2>1, <2>2, PayKept
<1>2. CASE t \in Threads
    <2>1. /\ Holds(Cli, "store", i)' <=> Holds(Cli, "store", i)
          /\ Holds(Cli, "ask", i)' <=> Holds(Cli, "ask", i)
          /\ LoopHolds("store", i)' <=> LoopHolds("store", i)
          /\ LoopHolds("ask", i)' => LoopHolds("ask", i)
        BY <1>2, LoopMoves
    <2> QED BY <2>1, PayKept
<1> QED BY <1>1, <1>2 DEF Actors

LEMMA PayStart == Init => PayInv
<1> SUFFICES ASSUME Init, NEW i \in Id PROVE Pay(i)
    BY DEF PayInv
<1>1. \A t \in Actors : loop[t] = None
    BY DEF Init, Actors
<1>2. ~LoopHolds("store", i) /\ ~Holds(Cli, "store", i)
    BY <1>1 DEF LoopHolds, Holds, At, Actors
<1>3. paid[i] = 0 /\ lost[i] = 0 /\ i \notin items
    BY DEF Init
<1> QED BY <1>2, <1>3 DEF Pay, Count

\* A fetch looks its id up, pays, and stores or loses the answer.
LEMMA PayFetch ==
    ASSUME PayInv, TablesOK, PaidOK, LoopsOK, Registered, NEW t \in Actors, Fetch(t), NEW i \in Id PROVE Pay(i)'
<1>1. loop[t] # None /\ loop[t].pc \in {"fetch", "ask", "store"} /\ loop[t].pc # "ended"
    BY DEF Fetch, FetchBegin, FetchFails, Ask, Store, StoreFails, At
<1>2. loop[t] \in Loop /\ Ready(loop[t]) /\ Serving(loop[t]) /\ (t = Cli \/ t \in Threads)
    BY <1>1, LoopFields
<1>3. Fetched(t) = None \/ Fetched(t).pc \notin {"ask", "store"}
    BY <1>1, FetchedIsOver
<1>4. Pay(i) /\ paid[i] \in Nat /\ lost[i] \in Nat
    BY DEF PayInv, PaidOK
<1>5. CASE FetchBegin(t)
    <2>1. UNCHANGED <<paid, lost, apart, items>> /\ ~Holds(t, "store", i) /\ ~Holds(t, "ask", i)
        BY <1>5 DEF FetchBegin, history, At, Holds
    <2>2. CASE NeedsProvider(loop[t])
        <3> DEFINE l == [loop[t] EXCEPT !.pc = "ask", !.id = IdOf(loop[t])]
        <3>1. Step(t, l) /\ IdOf(loop[t]) \notin items
            BY <1>5, <2>2 DEF FetchBegin, NeedsProvider
        <3>2. l.pc = "ask" /\ l.id = IdOf(loop[t])
            BY <1>2 DEF Loop
        <3> HIDE DEF l
        <3>3. i \in items => l.id # i
            BY <3>1, <3>2
        <3>4. CASE t = Cli
            BY <2>1, <3>1, <3>2, <3>3, <3>4, CliMoves, PayKept
        <3>5. CASE t \in Threads
            <4>1. /\ Holds(Cli, "store", i)' <=> Holds(Cli, "store", i)
                  /\ Holds(Cli, "ask", i)' <=> Holds(Cli, "ask", i)
                  /\ LoopHolds("store", i)' <=> LoopHolds("store", i)
                  /\ i \in items => (LoopHolds("ask", i)' => LoopHolds("ask", i))
                BY <2>1, <3>1, <3>2, <3>3, <3>5, LoopMoves
            <4> QED BY <2>1, <4>1, PayKept
        <3> QED BY <1>2, <3>4, <3>5
    <2>3. CASE ~NeedsProvider(loop[t])
        <3>1. Step(t, Fetched(t))
            BY <1>5, <2>3 DEF FetchBegin
        <3> QED BY <1>3, <2>1, <3>1, QuietStep
    <2> QED BY <2>2, <2>3
<1>6. CASE FetchFails(t)
    <2>1. UNCHANGED <<paid, lost, apart, items>> /\ Step(t, Fetched(t)) /\ ~Holds(t, "store", i)
        BY <1>6 DEF FetchFails, history, At, Holds
    <2> QED BY <1>3, <2>1, QuietStep
<1>7. CASE Ask(t)
    <2> DEFINE l == [loop[t] EXCEPT !.pc = "store"]
    <2>1. /\ Step(t, l) /\ loop[t].id \in Id /\ UNCHANGED <<items, lost>>
          /\ paid' = [paid EXCEPT ![loop[t].id] = @ + 1]
          /\ apart' = IF t = Cli THEN apart \cup {loop[t].id} ELSE apart
          /\ Holds(t, "ask", loop[t].id) /\ ~Holds(t, "store", i)
        BY <1>2, <1>7 DEF Ask, At, Serving, Holds
    <2>2. l # None /\ l.pc = "store" /\ l.id = loop[t].id
        BY <1>2, NoneAssumption DEF Loop
    <2>3. paid'[loop[t].id] = paid[loop[t].id] + 1 /\ (i # loop[t].id => paid'[i] = paid[i])
        BY <2>1 DEF PaidOK
    <2> HIDE DEF l
    <2>4. CASE i # loop[t].id
        <3>1. ~Holds(t, "ask", i) /\ ~(l.id = i)
            BY <2>2, <2>4 DEF Holds
        <3>2. i \in apart' <=> i \in apart
            BY <2>1, <2>4
        <3>3. CASE t = Cli
            BY <2>1, <2>3, <2>4, <3>1, <3>2, <3>3, CliMoves, PayKept
        <3>4. CASE t \in Threads
            <4>1. /\ Holds(Cli, "store", i)' <=> Holds(Cli, "store", i)
                  /\ Holds(Cli, "ask", i)' <=> Holds(Cli, "ask", i)
                  /\ LoopHolds("store", i)' <=> LoopHolds("store", i)
                  /\ LoopHolds("ask", i)' => LoopHolds("ask", i)
                BY <2>1, <3>1, <3>4, LoopMoves
            <4> QED BY <2>1, <2>3, <2>4, <3>2, <4>1, PayKept
        <3> QED BY <1>2, <3>3, <3>4
    <2>5. CASE i = loop[t].id /\ t = Cli
        <3>1. /\ LoopHolds("store", i)' <=> LoopHolds("store", i)
              /\ LoopHolds("ask", i)' <=> LoopHolds("ask", i)
              /\ Holds(Cli, "store", i)' /\ ~Holds(Cli, "ask", i)'
            BY <2>1, <2>2, <2>5, CliMoves
        <3>2. Holds(Cli, "ask", i) /\ ~Holds(Cli, "store", i) /\ i \in apart' /\ paid'[i] = paid[i] + 1 /\ lost' = lost
            BY <2>1, <2>3, <2>5
        <3> QED BY <1>4, <2>1, <3>1, <3>2 DEF Pay, Count
    <2>6. CASE i = loop[t].id /\ t \in Threads
        <3>1. /\ Holds(Cli, "store", i)' <=> Holds(Cli, "store", i)
              /\ Holds(Cli, "ask", i)' <=> Holds(Cli, "ask", i)
              /\ LoopHolds("ask", i) /\ ~LoopHolds("store", i)
              /\ ~LoopHolds("ask", i)' /\ LoopHolds("store", i)'
            BY <2>1, <2>2, <2>6, LoopMoves
        <3>2. apart' = apart /\ paid'[i] = paid[i] + 1 /\ lost' = lost
            BY <2>1, <2>3, <2>6, ThreadsAssumption
        <3> QED BY <1>4, <2>1, <3>1, <3>2 DEF Pay, Count
    <2> QED BY <1>2, <2>4, <2>5, <2>6
<1>8. ASSUME Step(t, Fetched(t)), Holds(t, "store", i)
      PROVE  \/ /\ t \in Threads /\ LoopHolds("store", i) /\ ~LoopHolds("ask", i)
                /\ ~LoopHolds("store", i)' /\ ~LoopHolds("ask", i)'
                /\ Holds(Cli, "store", i)' <=> Holds(Cli, "store", i)
                /\ Holds(Cli, "ask", i)' <=> Holds(Cli, "ask", i)
             \/ /\ t = Cli /\ Holds(Cli, "store", i) /\ ~Holds(Cli, "ask", i)
                /\ ~Holds(Cli, "store", i)' /\ ~Holds(Cli, "ask", i)'
                /\ LoopHolds("store", i)' <=> LoopHolds("store", i)
                /\ LoopHolds("ask", i)' <=> LoopHolds("ask", i)
    <2>1. ~Holds(t, "ask", i)
        BY <1>8 DEF Holds, At
    <2>2. CASE t = Cli
        BY <1>3, <1>8, <2>1, <2>2, CliMoves
    <2>3. CASE t \in Threads
        BY <1>3, <1>8, <2>1, <2>3, LoopMoves
    <2> QED BY <1>2, <2>2, <2>3
<1>9. CASE Store(t)
    <2>1. /\ UNCHANGED <<paid, lost, apart>> /\ items' = items \cup {loop[t].id} /\ Step(t, Fetched(t))
          /\ Holds(t, "store", i) <=> i = loop[t].id
        BY <1>9 DEF Store, history, Holds
    <2>2. CASE i # loop[t].id
        BY <1>3, <2>1, <2>2, QuietStep
    <2>3. CASE i = loop[t].id
        <3>1. i \in items'
            BY <2>1, <2>3
        <3>2. ~(LoopHolds("ask", i) /\ LoopHolds("store", i))
            BY OneServer DEF LoopHolds, Holds, At
        <3>3. ~(Holds(Cli, "ask", i) /\ Holds(Cli, "store", i))
            BY DEF Holds, At
        <3> QED BY <1>4, <1>8, <2>1, <2>3, <3>1, <3>2, <3>3 DEF Pay, Count
    <2> QED BY <2>2, <2>3
<1>10. CASE StoreFails(t)
    <2>1. /\ UNCHANGED <<paid, apart, items>> /\ lost' = [lost EXCEPT ![loop[t].id] = @ + 1] /\ Step(t, Fetched(t))
          /\ Holds(t, "store", i) <=> i = loop[t].id
        BY <1>10 DEF StoreFails, tables, Holds
    <2>2. CASE i # loop[t].id
        <3>1. lost'[i] = lost[i]
            BY <2>1, <2>2 DEF PaidOK
        <3> QED BY <1>3, <2>1, <2>2, <3>1, QuietStep
    <2>3. CASE i = loop[t].id
        <3>1. lost'[i] = lost[i] + 1
            BY <2>1, <2>3 DEF PaidOK
        <3> QED BY <1>4, <1>8, <2>1, <2>3, <3>1 DEF Pay, Count
    <2> QED BY <2>2, <2>3
<1> QED BY <1>5, <1>6, <1>7, <1>9, <1>10 DEF Fetch

LEMMA PayStep == ASSUME Inv, PayInv, Next, NEW i \in Id PROVE Pay(i)'
<1>1. LoopsOK /\ Registered /\ PaidOK /\ TablesOK
    BY DEF Inv
<1>2. Pay(i) /\ paid[i] \in Nat /\ lost[i] \in Nat /\ i \in Id
    BY <1>1 DEF PayInv, PaidOK
<1>3. \A t \in Threads : t \in Actors /\ t # Cli
    BY ThreadsAssumption DEF Actors
<1>4. CASE UNCHANGED <<paid, lost, apart, items, loop>>
    <2>1. \A pc : (LoopHolds(pc, i)' <=> LoopHolds(pc, i)) /\ (Holds(Cli, pc, i)' <=> Holds(Cli, pc, i))
        BY <1>4 DEF LoopHolds, Holds, At
    <2> QED BY <1>1, <1>4, <2>1, PayKept
<1>5. CASE Tick \/ SupScan \/ SupScanFails
    BY <1>4, <1>5 DEF Tick, SupScan, SupScanFails, history
<1>6. CASE SupSpawn
    <2>1. UNCHANGED <<paid, lost, apart, items>>
        BY <1>6 DEF SupSpawn, SpawnWith, history
    <2>2. ASSUME NEW t \in Actors, NEW pc \in {"ask", "store"} PROVE Holds(t, pc, i)' <=> Holds(t, pc, i)
        <3>1. CASE loop'[t] = loop[t]
            BY <3>1 DEF Holds, At
        <3>2. CASE ~Alive(t) /\ (loop'[t] = None \/ loop'[t].pc = "top")
            BY <3>2 DEF Holds, At, Alive
        <3> QED BY <1>1, <1>6, <3>1, <3>2, SpawnMoves
    <2>3. \A pc \in {"ask", "store"} : (LoopHolds(pc, i)' <=> LoopHolds(pc, i)) /\ (Holds(Cli, pc, i)' <=> Holds(Cli, pc, i))
        BY <2>2 DEF LoopHolds, Actors
    <2> QED BY <1>1, <2>1, <2>3, PayKept
<1>7. CASE Restart
    <2>1. UNCHANGED <<paid, apart, items>> /\ loop' = [t \in Actors |-> IF t = Cli THEN loop[Cli] ELSE None]
        BY <1>7 DEF Restart, tables, Actors
    <2>2. lost'[i] = lost[i] + Cardinality(Holding(i))
        BY <1>7 DEF Restart, Holding
    <2>3. Holding(i) # {} <=> LoopHolds("store", i)
        BY DEF Holding, LoopHolds, Holds
    <2>4. Cardinality(Holding(i)) = Count(LoopHolds("store", i))
        BY <1>1, <2>3, HoldingSize DEF Count
    <2>5. \A pc : Holds(Cli, pc, i)' <=> Holds(Cli, pc, i)
        BY <2>1 DEF Holds, At, Actors
    <2>6. \A pc : ~LoopHolds(pc, i)'
        BY <1>3, <2>1 DEF LoopHolds, Holds, At
    <2> QED BY <1>2, <2>1, <2>2, <2>4, <2>5, <2>6 DEF Pay, Count
<1>8. ASSUME NEW t \in Threads, NEW l, Step(t, l), loop[t].pc # "store", l.pc \notin {"ask", "store"},
             UNCHANGED <<paid, lost, apart, items>>
      PROVE  Pay(i)'
    BY <1>1, <1>3, <1>8, QuietStep DEF Holds, At
<1>9. ASSUME NEW t \in Threads, Reload(t) \/ LookAgain(t) \/ LoopDies(t) \/ Decide(t) PROVE Pay(i)'
    <2>1. loop[t] \in Loop /\ loop[t].pc # "store" /\ UNCHANGED <<paid, lost, apart, items>>
        BY <1>1, <1>3, <1>9, LoopFields DEF Reload, LookAgain, LoopDies, Decide, At, history
    <2> DEFINE decides == [loop[t] EXCEPT !.pc = "decide", !.plan = Rebuilt(inst'[loop[t].source])]
               looks   == [loop[t] EXCEPT !.pc = "second", !.plan = None]
               goes    == [loop[t] EXCEPT !.pc = IF loop[t].source \in Enabled(inst') THEN "top" ELSE "ended"]
               dies    == [loop[t] EXCEPT !.pc = "ended", !.plan = None]
               occ     == IF loop[t].plan.fetch.kind = "cron" THEN LatestFire(loop[t].plan.fetch.cron, now) ELSE Never
               due     == [loop[t] EXCEPT !.pc = "fetch", !.serving = occ]
               waits   == [loop[t] EXCEPT !.pc = "top", !.plan = None]
    <2>2. Step(t, decides) \/ Step(t, looks) \/ Step(t, goes) \/ Step(t, dies) \/ Step(t, due) \/ Step(t, waits)
        BY <1>9 DEF Reload, LookAgain, LoopDies, Decide
    <2>3. /\ decides.pc = "decide" /\ looks.pc = "second" /\ goes.pc \in {"top", "ended"} /\ dies.pc = "ended"
          /\ due.pc = "fetch" /\ waits.pc = "top"
        BY <2>1 DEF Loop
    <2> HIDE DEF decides, looks, goes, dies, due, waits
    <2> QED BY <1>8, <2>1, <2>2, <2>3
<1>10. ASSUME NEW t \in Actors, Fetch(t) PROVE Pay(i)'
    BY <1>1, <1>10, PayFetch
<1>11. ASSUME NEW s \in Sources, OnceStart(s) PROVE Pay(i)'
    <2> DEFINE l == [Idle(s) EXCEPT !.pc = "fetch", !.plan = Rebuilt(inst'[s])]
    <2>1. Step(Cli, l) /\ loop[Cli] = None /\ UNCHANGED <<paid, lost, apart, items>>
        BY <1>11 DEF OnceStart, history
    <2>2. l.pc = "fetch"
        BY DEF Idle
    <2> HIDE DEF l
    <2> QED BY <1>1, <2>1, <2>2, QuietStep DEF Holds, At, Actors
<1>12. ASSUME NEW s \in Sources, DeleteAdapter(s) \/ Toggle(s) \/ \E cfg \in Row : SaveAdapter(s, cfg) PROVE Pay(i)'
    BY <1>4, <1>12 DEF DeleteAdapter, Toggle, SaveAdapter, Noted
<1>13. ASSUME NEW n \in Names, DeletePolicy(n) \/ \E sched \in Schedules : SetPolicy(n, sched) PROVE Pay(i)'
    BY <1>4, <1>13 DEF DeletePolicy, SetPolicy, history
<1> QED BY <1>5, <1>6, <1>7, <1>9, <1>10, <1>11, <1>12, <1>13 DEF Next, Supervise, Operator, Run, Actors

LEMMA PaysOnceInCourse == Course => []PaidOncePerOccurrence
<1>1. Inv /\ PayInv /\ [Next]_vars => PayInv'
    <2>1. ASSUME Inv, PayInv, Next PROVE PayInv'
        BY <2>1, PayStep DEF PayInv, Id, Moments
    <2>2. ASSUME PayInv, UNCHANGED vars PROVE PayInv'
        <3>1. UNCHANGED <<items, loop, paid, lost, apart>>
            BY <2>2 DEF vars, history
        <3>2. \A t, pc, i : Holds(t, pc, i)' <=> Holds(t, pc, i)
            BY <3>1 DEF Holds, At
        <3>3. \A pc, i : LoopHolds(pc, i)' <=> LoopHolds(pc, i)
            BY <3>2 DEF LoopHolds
        <3> SUFFICES ASSUME NEW i \in Id, Pay(i) PROVE Pay(i)'
            BY <2>2 DEF PayInv, Id, Moments
        <3> QED BY <3>1, <3>2, <3>3 DEF Pay, Count
    <2> QED BY <2>1, <2>2
<1>2. Inv /\ PayInv => PaidOncePerOccurrence
    <2> SUFFICES ASSUME Inv, PayInv, NEW i \in Id
                 PROVE  paid[i] <= 1 + lost[i] + (IF i \in apart THEN 1 ELSE 0)
        BY DEF PaidOncePerOccurrence
    <2>1. Pay(i) /\ paid[i] \in Nat /\ lost[i] \in Nat
        BY DEF Inv, PaidOK, PayInv
    <2> QED BY <2>1 DEF Pay, Count
<1> QED BY <1>1, <1>2, PayStart, Inductive, PTL DEF Course

\* An unchanged prompt is paid for once per occurrence, whatever is locked, fails, dies or restarts; only
\* answers that were lost are asked for again, and `--once` may have asked at the same time.
THEOREM PaysOnce == Spec => []PaidOncePerOccurrence
BY PaysOnceInCourse, PTL DEF Spec, Course

-----------------------------------------------------------------------------
(* A row of the transmit schedule. *)

\* The row remembers the last airing of its unit, and was created once.
Remembers ==
    row # NoRow =>
        IF airings = <<>> THEN row.last = Never
        ELSE row.last = airings[Len(airings)].at /\ row.created = airings[1].created
AirInv == AirTypeOK /\ Remembers /\ KeepsItsDistance

LEMMA NextFireIsNext ==
    ASSUME NEW c \in Crons, NEW p \in Nat, NEW f \in Fires[c], f > p
    PROVE  NextFire(c, p) \in Nat /\ NextFire(c, p) <= f
<1> DEFINE later == {g \in Fires[c] : g > p}
<1>1. later \subseteq Nat /\ f \in later
    BY FiresAssumption
<1>2. NextFire(c, p) = Min(later)
    BY DEF NextFire
<1> HIDE DEF later
<1>3. \E m \in later : \A n \in later : m <= n
    BY <1>1, Least
<1>4. Min(later) \in later /\ \A n \in later : Min(later) <= n
    BY <1>3 DEF Min
<1> QED BY <1>1, <1>2, <1>4

\* What is due after an airing is not due before the schedule's own next occurrence.
LEMMA DueIsNext ==
    ASSUME NEW s \in Stage, NEW created, NEW p \in Nat, NEW at \in Nat, TransmitDue(s, created, p, at)
    PROVE  NextFireAfter(s, p) \in 0 .. at
<1>1. p # Never
    BY NeverAssumption
<1>2. CASE s.kind = "cron"
    <2>1. s.cron \in Crons
        BY <1>2, StageCron
    <2> DEFINE occ == LatestFire(s.cron, at)
    <2>2. occ > p /\ NextFireAfter(s, p) = NextFire(s.cron, p)
        BY <1>1, <1>2 DEF TransmitDue, NextFireAfter
    <2>3. occ \in Fires[s.cron] /\ occ \in Nat /\ occ <= at
        BY <2>1, LatestFireIsLatest
    <2> HIDE DEF occ
    <2>4. NextFire(s.cron, p) \in Nat /\ NextFire(s.cron, p) <= occ
        BY <2>1, <2>2, <2>3, NextFireIsNext
    <2> QED BY <2>2, <2>3, <2>4
<1>3. CASE s.kind = "interval"
    <2>1. s.every \in Nat \ {0} /\ at >= p + s.every
        BY <1>1, <1>3 DEF Stage, OnceSchedule, CronSchedule, TransmitDue
    <2>2. Max({1, s.every}) = s.every
        BY <2>1 DEF Max
    <2> QED BY <1>3, <2>1, <2>2 DEF NextFireAfter
<1>4. CASE s.kind \notin {"cron", "interval"}
    BY <1>1, <1>4 DEF TransmitDue
<1> QED BY <1>2, <1>3, <1>4

\* The first airing of a cron row is for an occurrence that is no older than the row.
LEMMA FirstIsFresh ==
    ASSUME NEW s \in Stage, s.kind = "cron", NEW created \in Nat, NEW at \in Nat, TransmitDue(s, created, Never, at)
    PROVE  \E f \in Fires[s.cron] : f \in created .. at
<1>1. s.cron \in Crons
    BY StageCron
<1>2. LatestFire(s.cron, at) >= created
    BY DEF TransmitDue
<1>3. LatestFire(s.cron, at) \in Fires[s.cron] /\ LatestFire(s.cron, at) \in Nat /\ LatestFire(s.cron, at) <= at
    BY <1>1, LatestFireIsLatest
<1> QED BY <1>2, <1>3

LEMMA AirStart == AirInit => AirInv
<1> SUFFICES ASSUME AirInit PROVE AirInv
    OBVIOUS
<1>1. second \in 0 .. LastSecond
    BY SecondAssumption DEF AirInit
<1>2. row \in Entry /\ edits \in 0 .. MaxEdits
    BY <1>1, EditsAssumption DEF AirInit, Entry
<1>3. airings = <<>> /\ row.last = Never /\ stage \in Stages
    BY DEF AirInit
<1> QED BY <1>1, <1>2, <1>3 DEF AirInv, AirTypeOK, Remembers, KeepsItsDistance

LEMMA AirsOnce == ASSUME AirInv, Air PROVE AirInv'
<1> DEFINE n == Len(airings)
           airing == [at |-> second, stage |-> stage, created |-> row.created]
           kept == [row EXCEPT !.last = second, !.sent = @ + 1]
<1>1. /\ second \in 0 .. LastSecond /\ second \in Nat /\ stage \in Stages /\ row \in Entry /\ row # NoRow
      /\ edits \in 0 .. MaxEdits
      /\ airings \in Seq([at : 0 .. LastSecond, stage : Stages, created : 0 .. LastSecond])
    BY SecondAssumption DEF AirInv, AirTypeOK, Air
<1>2. /\ airings' = Append(airings, airing) /\ UNCHANGED <<second, stage, edits>>
      /\ row' = NoRow \/ row' = kept
      /\ TransmitDue(stage.schedule, row.created, row.last, second)
    BY DEF Air
<1>3. stage.schedule \in Stage /\ row.created \in 0 .. LastSecond /\ row.created \in Nat
    BY <1>1, StagesAssumption, SecondAssumption DEF Entry
<1>4. airing \in [at : 0 .. LastSecond, stage : Stages, created : 0 .. LastSecond]
    BY <1>1, <1>3
<1>5. kept \in Entry /\ kept.last = second /\ kept.created = row.created
    <2>1. PICK c \in 0 .. LastSecond, l \in 0 .. LastSecond \cup {Never}, k \in Nat :
               row = [created |-> c, last |-> l, sent |-> k]
        BY <1>1 DEF Entry
    <2>2. kept = [created |-> c, last |-> second, sent |-> k + 1]
        <3>1. kept = [[created |-> c, last |-> l, sent |-> k] EXCEPT !.last = second, !.sent = k + 1]
            BY <2>1
        <3> HIDE DEF kept
        <3> QED BY <3>1
    <2> HIDE DEF kept
    <2> QED BY <1>1, <2>1, <2>2 DEF Entry
<1>6. airing.at = second /\ airing.stage = stage /\ airing.created = row.created
    OBVIOUS
<1> HIDE DEF airing, kept
<1>7. /\ airings' \in Seq([at : 0 .. LastSecond, stage : Stages, created : 0 .. LastSecond])
      /\ n \in Nat /\ Len(airings') = n + 1 /\ airings'[n + 1] = airing /\ DOMAIN airings' = 1 .. n + 1
      /\ DOMAIN airings = 1 .. n /\ \A i \in 1 .. n : airings'[i] = airings[i]
    BY <1>1, <1>2, <1>4
<1>8. AirTypeOK'
    BY <1>1, <1>2, <1>5, <1>7 DEF AirTypeOK
<1>9. CASE n = 0
    <2>1. airings = <<>> /\ row.last = Never
        BY <1>1, <1>9 DEF AirInv, Remembers
    <2>2. airings'[1] = airing /\ DOMAIN airings' = {1}
        BY <1>7, <1>9
    <2>3. Remembers'
        BY <1>2, <1>5, <1>6, <1>7, <1>9, <2>2 DEF Remembers
    <2>4. stage.schedule.kind = "cron" => \E f \in Fires[stage.schedule.cron] : f \in row.created .. second
        BY <1>1, <1>2, <1>3, <2>1, FirstIsFresh
    <2>5. KeepsItsDistance'
        BY <1>6, <2>2, <2>4 DEF KeepsItsDistance
    <2> QED BY <1>8, <2>3, <2>5 DEF AirInv
<1>10. CASE n > 0
    <2>1. airings # <<>> /\ row.last = airings[n].at /\ row.created = airings[1].created
        BY <1>1, <1>7, <1>10 DEF AirInv, Remembers
    <2>2. airings[n].at \in Nat
        <3> DEFINE A == [at : 0 .. LastSecond, stage : Stages, created : 0 .. LastSecond]
        <3>1. airings \in Seq(A) /\ n \in 1 .. Len(airings)
            BY <1>1, <1>7, <1>10
        <3> HIDE DEF A, n
        <3>2. airings[n] \in A
            BY <3>1
        <3> USE DEF A
        <3>3. airings[n].at \in 0 .. LastSecond
            BY <3>2
        <3> QED BY <3>3, SecondAssumption
    <2>3. Remembers'
        BY <1>2, <1>5, <1>6, <1>7, <1>10, <2>1 DEF Remembers
    <2>4. NextFireAfter(stage.schedule, airings[n].at) \in 0 .. second
        BY <1>1, <1>2, <1>3, <2>1, <2>2, DueIsNext
    <2>5. ASSUME NEW i \in DOMAIN airings'
          PROVE  LET s == airings'[i].stage.schedule
                 IN  IF i > 1 THEN NextFireAfter(s, airings'[i - 1].at) \in 0 .. airings'[i].at
                     ELSE s.kind = "cron" => \E f \in Fires[s.cron] : f \in airings'[1].created .. airings'[1].at
        <3>1. CASE i = n + 1
            <4>1. i > 1 /\ i - 1 = n /\ airings'[i] = airing /\ airings'[i - 1] = airings[n]
                BY <1>7, <1>10, <3>1
            <4> QED BY <1>6, <2>4, <4>1
        <3>2. CASE i \in 1 .. n
            <4>1. airings'[i] = airings[i] /\ airings'[1] = airings[1] /\ (i > 1 => airings'[i - 1] = airings[i - 1])
                BY <1>7, <1>10, <3>2
            <4>2. i \in DOMAIN airings
                BY <1>7, <3>2
            <4> QED BY <4>1, <4>2 DEF AirInv, KeepsItsDistance
        <3> QED BY <1>7, <2>5, <3>1, <3>2
    <2>6. KeepsItsDistance'
        BY <2>5 DEF KeepsItsDistance
    <2> QED BY <1>8, <2>3, <2>6 DEF AirInv
<1> QED BY <1>7, <1>9, <1>10

LEMMA AirStep == AirInv /\ [AirNext]_airVars => AirInv'
<1> SUFFICES ASSUME AirInv, [AirNext]_airVars PROVE AirInv'
    OBVIOUS
<1>1. ASSUME UNCHANGED <<row, airings>>, second' \in 0 .. LastSecond, stage' \in Stages, edits' \in 0 .. MaxEdits
      PROVE  AirInv'
    BY <1>1 DEF AirInv, AirTypeOK, Remembers, KeepsItsDistance
<1>2. CASE AirTick
    <2>1. second' \in 0 .. LastSecond
        BY <1>2, SecondAssumption DEF AirTick, AirInv, AirTypeOK
    <2> QED BY <1>1, <1>2, <2>1 DEF AirTick, AirInv, AirTypeOK
<1>3. CASE Edit
    <2>1. edits' \in 0 .. MaxEdits
        BY <1>3, EditsAssumption DEF Edit, AirInv, AirTypeOK
    <2> QED BY <1>1, <1>3, <2>1 DEF Edit, AirInv, AirTypeOK
<1>4. CASE Spent
    BY <1>4 DEF Spent, AirInv, AirTypeOK, Remembers, KeepsItsDistance
<1>5. CASE Air
    BY <1>5, AirsOnce
<1>6. CASE NothingDue \/ UNCHANGED airVars
    BY <1>1, <1>6 DEF NothingDue, airVars, AirInv, AirTypeOK
<1> QED BY <1>2, <1>3, <1>4, <1>5, <1>6 DEF AirNext

\* However the policy is edited between two airings, a unit is never on the air before the schedule in
\* force would name the moment its next occurrence, and never for an occurrence older than its row.
THEOREM AiringsKeepTheirDistance == AirSpec => []KeepsItsDistance
BY AirStart, AirStep, PTL DEF AirSpec, AirInv

-----------------------------------------------------------------------------
(* Both readers of the schedules, as the run has them side by side.         *)

LEMMA AirRests == AirAtRest => AirInv
<1> SUFFICES ASSUME AirAtRest PROVE AirInv
    OBVIOUS
<1>1. second \in 0 .. LastSecond /\ edits \in 0 .. MaxEdits
    BY SecondAssumption, EditsAssumption DEF AirAtRest
<1>2. airings = <<>> /\ row = NoRow /\ stage \in Stages
    BY DEF AirAtRest
<1> QED BY <1>1, <1>2 DEF AirInv, AirTypeOK, Remembers, KeepsItsDistance

LEMMA PartsStart == PartsInit => Init /\ AirInv
BY AirStart, AirRests DEF PartsInit, FetchAtRest

LEMMA PartsStep == [PartsNext]_<<vars, airVars, part>> => [Next]_vars /\ [AirNext]_airVars
BY DEF PartsNext

LEMMA PartsAir == PartsSpec => []AirInv
BY PartsStart, PartsStep, AirStep, PTL DEF PartsSpec

LEMMA PartsCourse == PartsSpec => Course
BY PartsStart, PartsStep, PTL DEF PartsSpec, Course

\* The loops of the sources and the rows of the schedule keep their types, whichever of the two runs.
THEOREM PartsTypeCorrect == PartsSpec => []PartsTypeOK
<1>1. Inv /\ AirInv => PartsTypeOK
    BY InvTypes DEF AirInv, PartsTypeOK
<1> QED BY <1>1, PartsCourse, Inductive, PartsAir, PTL

\* One loop per source that is on, one paid call per occurrence, airings at their distance: what
\* the tables promise the operator, together.
THEOREM SchedulesAreKept ==
    PartsSpec => [](LoopsFollowTheTable /\ PaidOncePerOccurrence /\ KeepsItsDistance)
<1>1. AirInv => KeepsItsDistance
    BY DEF AirInv
<1> QED BY <1>1, PartsCourse, LoopsFollow, PaysOnceInCourse, PartsAir, PTL
=============================================================================
