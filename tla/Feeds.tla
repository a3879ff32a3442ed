------------------------------- MODULE Feeds -------------------------------
(***************************************************************************)
(* The data-adapters process (adapters/__main__.py): a supervisor that     *)
(* keeps one loop thread per enabled source, the loops, which read their   *)
(* row and its policy again on every iteration and fetch when that is due, *)
(* and the fetch of the aiprompt adapter, whose every call to a provider   *)
(* is paid for.  Around them the operator edits adapter_instances and      *)
(* policies (ui/routers/adapters.py, policies.py), the database is locked  *)
(* now and then, and the process is restarted.                             *)
(*                                                                         *)
(* A loop takes one action per transaction or call; a wait of              *)
(* stop_event is the time between two iterations, any number of which fit  *)
(* into a tick of the clock.                                               *)
(***************************************************************************)
EXTENDS Cadence

CONSTANTS Sources,     \* adapter_instances.source
          Threads,     \* the loop threads that may be alive or unreaped at a time
          Cli,         \* the process of `python -m adapters --once <source>`
          Prompts,     \* aiprompt configs, by their prompt
          Broken,      \* a config that build_adapter refuses
          Names,       \* policies.name
          Default,     \* DEFAULT_POLICY_NAME
          Schedules,   \* the fetch stages an operator may write, valid or not
          Fallback,    \* _fallback_policy's fetch stage
          Seeds,       \* _SEED_ADAPTER_INSTANCES as a table
          MaxTime,     \* bound on the clock
          Scenarios,   \* tables at the start and how often the environment may act
          None

Steps == {"save", "toggle", "delete", "policy", "drop", "locked", "fail", "restart", "once"}
Types == {"api", "aiprompt"}
Row   == [on : BOOLEAN, type : Types, policy : Names, config : Prompts \cup {Broken}]

\* A table of the database: a function whose domain is the keys of its rows.
IsTable(f, keys, rows) == DOMAIN f \subseteq keys /\ f \in [DOMAIN f -> rows]

ASSUME ThreadsAssumption  == Threads \subseteq Nat /\ Cli \notin Threads
ASSUME DefaultAssumption  == Default \in Names
ASSUME MaxTimeAssumption  == MaxTime \in Nat \ {0}
ASSUME SeedsAssumption    == IsTable(Seeds, Sources, Row)
ASSUME PolicyAssumption   == Schedules \subseteq Written /\ Fallback \in Stage
ASSUME ScenarioAssumption == \A s \in Scenarios : /\ IsTable(s.inst, Sources, Row)
                                                  /\ IsTable(s.policies, Names, Stage)
                                                  /\ s.fuel \in [Steps -> Nat]

VARIABLES
    now,         \* the clock, wall and monotonic alike
    inst,        \* adapter_instances: a function whose domain is the rows
    policies,    \* policies, their fetch stages
    items,       \* the ids of the generated items that are stored
    supPc, wanted, threads,   \* the supervisor: `enabled` and its dict of threads
    loop,        \* the loop threads, and the fetch `--once` runs in a process of its own
    fuel,
    \* history: provider calls and calls whose answer was lost, per item id; the ids
    \* `--once` has paid for; fetches begun since a source was last switched off
    paid, lost, apart, after

sup     == <<supPc, wanted, threads>>
tables  == <<inst, policies>>
history == <<paid, lost, apart, after>>
vars    == <<now, tables, items, sup, loop, fuel, history>>

\* items.item_id of an aiprompt source: the occurrence and the prompt's fingerprint.
Id == [source : Sources, at : Moments, prompt : Prompts]

\* A loop's local state: the adapter and policy it has rebuilt (`plan`), the time of
\* the last fetch and its cron occurrence, the occurrence it is about to serve.
Plan == [type : Types, config : Prompts, fetch : Stage]
Loop == [source : Sources, pc : {"top", "second", "decide", "fetch", "ask", "store", "ended"},
         plan : Plan \cup {None}, last : 0 .. MaxTime \cup {Never}, occ : Moments \cup {Never},
         serving : Moments \cup {Never}, id : Id \cup {None}]

ASSUME NoneAssumption == None \notin Threads \cup Plan \cup Loop \cup Id

TypeOK ==
    /\ now \in 0 .. MaxTime /\ items \subseteq Id
    /\ IsTable(inst, Sources, Row) /\ IsTable(policies, Names, Stage)
    /\ supPc \in {"scan", "spawn"}
    /\ wanted \subseteq Sources /\ threads \in [Sources -> Threads \cup {None}]
    /\ loop \in [Threads \cup {Cli} -> Loop \cup {None}]
    /\ fuel \in [Steps -> Nat] /\ paid \in [Id -> Nat] /\ lost \in [Id -> Nat]
    /\ apart \subseteq Id /\ after \in [Sources -> Nat]

Idle(s) == [source |-> s, pc |-> "top", plan |-> None, last |-> Never, occ |-> Never,
            serving |-> Never, id |-> None]

Init ==
    /\ \E s \in Scenarios : inst = s.inst /\ policies = s.policies /\ fuel = s.fuel
    /\ now = 1 /\ items = {} /\ supPc = "scan" /\ wanted = {}
    /\ threads = [s \in Sources |-> None] /\ loop = [t \in Threads \cup {Cli} |-> None]
    /\ paid = [i \in Id |-> 0] /\ lost = [i \in Id |-> 0]
    /\ apart = {} /\ after = [s \in Sources |-> 0]

Spend(step) == fuel[step] > 0 /\ fuel' = [fuel EXCEPT ![step] = @ - 1]

Tick == now < MaxTime /\ now' = now + 1
        /\ UNCHANGED <<tables, items, sup, loop, fuel, history>>

\* get_connection inserts the seeds whenever the table is empty.
Seeded(table)    == IF DOMAIN table = {} THEN Seeds ELSE table
Enabled(table)   == {s \in DOMAIN table : table[s].on}
Alive(t)         == loop[t] # None /\ loop[t].pc # "ended"
LoopsOf(s)       == {t \in Threads : Alive(t) /\ loop[t].source = s}

-----------------------------------------------------------------------------
(* The supervisor.                                                          *)

\* A locked database: `enabled` is what runs already.
SupScanFails == /\ supPc = "scan" /\ Spend("locked") /\ supPc' = "spawn"
                /\ wanted' = {s \in Sources : threads[s] # None}
                /\ UNCHANGED <<now, tables, items, threads, loop, history>>

SupScan == /\ supPc = "scan" /\ supPc' = "spawn"
           /\ inst' = Seeded(inst) /\ wanted' = Enabled(inst')
           /\ UNCHANGED <<now, policies, items, threads, loop, fuel, history>>

\* Dead threads leave the dict; a wanted source without one gets a thread.  A
\* mutant first: a source that is no longer wanted leaves it as well.
SpawnWith(reaped) ==
    LET gone    == {t \in Threads : loop[t] # None /\ loop[t].pc = "ended"}
        missing == {s \in wanted : threads[s] = None \/ s \in reaped}
        free    == {t \in Threads : loop[t] = None} \cup gone
    IN  /\ supPc = "spawn" /\ supPc' = "scan"
        /\ ExistsInjection(missing, free)
        /\ LET new == CHOOSE f \in Injection(missing, free) : TRUE
           IN
             /\ threads' = [s \in Sources |-> CASE s \in missing -> new[s]
                                              [] s \in reaped \ missing -> None
                                              [] OTHER -> threads[s]]
             /\ loop' = [t \in Threads \cup {Cli} |->
                            IF \E s \in missing : new[s] = t
                            THEN Idle(CHOOSE s \in missing : new[s] = t)
                            ELSE IF t \in gone THEN None ELSE loop[t]]
        /\ UNCHANGED <<now, tables, items, wanted, fuel, history>>

Reaped == {s \in Sources : threads[s] # None /\ ~Alive(threads[s])}

SupSpawnWanted == SpawnWith(Reaped \cup {s \in Sources : s \notin wanted})
SupSpawn       == SpawnWith(Reaped)

-----------------------------------------------------------------------------
(* A loop.  Step(t, pc) is a step of thread t that continues at pc.         *)

At(t, pc)    == loop[t] # None /\ loop[t].pc = pc
Step(t, new) == loop' = [loop EXCEPT ![t] = new]
Rest         == UNCHANGED <<now, policies, sup, fuel>>

\* Broken rows come from the SQL page or an import; the form refuses them.
Buildable(row) == row.config # Broken

Rebuilt(row) == [type |-> row.type, config |-> row.config,
                 fetch |-> Resolve(policies, row.policy, Default, Fallback)]

\* A mutant: the loop looks at the row, not at its flag.
ReloadAny(t) ==
    /\ At(t, "top") /\ inst' = Seeded(inst)
    /\ LET s == loop[t].source
       IN  IF s \in DOMAIN inst' /\ Buildable(inst'[s])
           THEN Step(t, [loop[t] EXCEPT !.pc = "decide", !.plan = Rebuilt(inst'[s])])
           ELSE Step(t, [loop[t] EXCEPT !.pc = "second", !.plan = None])
    /\ Rest /\ UNCHANGED <<items, history>>

\* _reload_adapter: None for a row that is gone, disabled or not buildable.
Reload(t) ==
    /\ At(t, "top") /\ inst' = Seeded(inst)
    /\ LET s == loop[t].source
       IN  IF s \in Enabled(inst') /\ Buildable(inst'[s])
           THEN Step(t, [loop[t] EXCEPT !.pc = "decide", !.plan = Rebuilt(inst'[s])])
           ELSE Step(t, [loop[t] EXCEPT !.pc = "second", !.plan = None])
    /\ Rest /\ UNCHANGED <<items, history>>

\* The second look: only a row that is gone ends the loop.
LookAgain(t) ==
    /\ At(t, "second") /\ inst' = Seeded(inst)
    /\ Step(t, [loop[t] EXCEPT !.pc = IF loop[t].source \in Enabled(inst') THEN "top" ELSE "ended"])
    /\ Rest /\ UNCHANGED <<items, history>>

\* Neither read is inside a try: an exception ends the thread.
LoopDies(t) ==
    /\ \/ At(t, "top") \/ At(t, "second")
       \/ At(t, "decide") /\ loop[t].plan.fetch.kind = "cron"
    /\ Spend("locked") /\ Step(t, [loop[t] EXCEPT !.pc = "ended", !.plan = None])
    /\ UNCHANGED <<now, tables, items, sup, history>>

\* Whether this iteration fetches.  A mutant first: a loop that starts waits for the
\* next occurrence.
FetchDueNoCatchUp(l, occ) ==
    CASE l.plan.fetch.kind = "once" -> l.last = Never
      [] l.plan.fetch.kind = "cron" -> occ # Never /\ l.occ # Never /\ occ # l.occ
      [] OTHER -> l.last = Never \/ now - l.last >= Max({1, l.plan.fetch.every})
FetchDue(l, occ) ==
    CASE l.plan.fetch.kind = "once" -> l.last = Never
      [] l.plan.fetch.kind = "cron" -> l.last = Never \/ (occ # Never /\ occ # l.occ)
      [] OTHER -> l.last = Never \/ now - l.last >= Max({1, l.plan.fetch.every})

Decide(t) ==
    LET l   == loop[t]
        occ == IF l.plan.fetch.kind = "cron" THEN LatestFire(l.plan.fetch.cron, now) ELSE Never
        due == FetchDue(l, occ)
    IN  /\ At(t, "decide")
        /\ Step(t, IF due THEN [l EXCEPT !.pc = "fetch", !.serving = occ]
                   ELSE [l EXCEPT !.pc = "top", !.plan = None])
        /\ after' = IF due /\ l.source \notin Enabled(inst) THEN [after EXCEPT ![l.source] = @ + 1]
                    ELSE after
        /\ Rest /\ UNCHANGED <<inst, items, paid, lost, apart>>

\* The end of _fetch_once, which swallows whatever the fetch raised; `--once` exits.
Fetched(t) ==
    IF t = Cli THEN None
    ELSE [loop[t] EXCEPT !.pc = "top", !.plan = None, !.id = None, !.serving = Never, !.last = now,
                         !.occ = IF loop[t].plan.fetch.kind = "cron" THEN loop[t].serving ELSE @]

-----------------------------------------------------------------------------
(* AiPromptAdapter.fetch and store_reading, for a loop or for `--once`.     *)

\* Without an occurrence, or with an item of this id, there is nothing to ask for.
\* A mutant first: the id is not looked up.
IdOf(l) == [source |-> l.source, at |-> LatestFire(l.plan.fetch.cron, now), prompt |-> l.plan.config]
NeedsNoLookup(l)  == l.plan.type = "aiprompt" /\ l.plan.fetch.kind = "cron"
NeedsProvider(l)  == l.plan.type = "aiprompt" /\ l.plan.fetch.kind = "cron" /\ IdOf(l) \notin items

FetchBegin(t) ==
    LET l == loop[t]
    IN  /\ At(t, "fetch")
        /\ Step(t, IF NeedsProvider(l) THEN [l EXCEPT !.pc = "ask", !.id = IdOf(l)] ELSE Fetched(t))
        /\ Rest /\ UNCHANGED <<inst, items, history>>

\* The database is locked, the provider fails or answers nothing: logged, and done.
FetchFails(t) == /\ At(t, "fetch") \/ At(t, "ask")
                 /\ Spend("fail") /\ Step(t, Fetched(t))
                 /\ UNCHANGED <<now, tables, items, sup, history>>

\* The provider answers with a text.
Ask(t) == /\ At(t, "ask") /\ Step(t, [loop[t] EXCEPT !.pc = "store"])
          /\ paid' = [paid EXCEPT ![loop[t].id] = @ + 1]
          /\ apart' = IF t = Cli THEN apart \cup {loop[t].id} ELSE apart
          /\ Rest /\ UNCHANGED <<inst, items, lost, after>>

\* store_reading, INSERT OR IGNORE: a stored item is left as it is.
Store(t) == /\ At(t, "store") /\ items' = items \cup {loop[t].id} /\ Step(t, Fetched(t))
            /\ Rest /\ UNCHANGED <<inst, history>>

StoreFails(t) == /\ At(t, "store") /\ Spend("locked") /\ Step(t, Fetched(t))
                 /\ lost' = [lost EXCEPT ![loop[t].id] = @ + 1]
                 /\ UNCHANGED <<now, tables, items, sup, paid, apart, after>>

\* run_once: no schedule, no supervisor, another process.
OnceStart(s) ==
    /\ loop[Cli] = None /\ Spend("once") /\ inst' = Seeded(inst)
    /\ s \in Enabled(inst') /\ Buildable(inst'[s])
    /\ Step(Cli, [Idle(s) EXCEPT !.pc = "fetch", !.plan = Rebuilt(inst'[s])])
    /\ UNCHANGED <<now, policies, items, sup, history>>

-----------------------------------------------------------------------------
(* The operator, and the process.                                           *)

\* What a write to adapter_instances means to the history variables.
Noted(s, new) ==
    /\ after' = IF s \in Enabled(inst) \ Enabled(new) THEN [after EXCEPT ![s] = 0] ELSE after
    /\ UNCHANGED <<now, policies, items, sup, loop, paid, lost, apart>>

\* set_adapter_instance: the form's save, create or replace.
SaveAdapter(s, row) == /\ Spend("save") /\ row \in Row
                       /\ inst' = [r \in DOMAIN inst \cup {s} |-> IF r = s THEN row ELSE inst[r]]
                       /\ Noted(s, inst')

\* adapter_toggle_action reads the flag and writes its opposite; only the ui writes it.
Toggle(s) == /\ Spend("toggle") /\ s \in DOMAIN inst
             /\ inst' = [inst EXCEPT ![s].on = ~@] /\ Noted(s, inst')

\* The ui's next connection finds the table empty and inserts the seeds.
DeleteAdapter(s) == /\ Spend("delete") /\ s \in DOMAIN inst
                    /\ inst' = [r \in DOMAIN inst \ {s} |-> inst[r]] /\ Noted(s, inst')

\* set_policy refuses an incoherent stage and normalises the others.
SetPolicy(n, sched) == /\ Spend("policy") /\ sched \in Schedules
                       /\ Accepted(sched)
                       /\ policies' = [m \in DOMAIN policies \cup {n} |->
                                          IF m = n THEN Normalised(sched) ELSE policies[m]]
                       /\ UNCHANGED <<now, inst, items, sup, loop, history>>

DeletePolicy(n) == /\ Spend("drop") /\ n \in DOMAIN policies
                   /\ policies' = [m \in DOMAIN policies \ {n} |-> policies[m]]
                   /\ UNCHANGED <<now, inst, items, sup, loop, history>>

\* A stop or a crash: daemon threads die with the process, answers with them.
Restart == /\ Spend("restart") /\ supPc' = "scan" /\ wanted' = {}
           /\ threads' = [s \in Sources |-> None]
           /\ loop' = [t \in Threads \cup {Cli} |-> IF t = Cli THEN loop[Cli] ELSE None]
           /\ lost' = [i \in Id |-> lost[i] + Cardinality({t \in Threads : At(t, "store") /\ loop[t].id = i})]
           /\ UNCHANGED <<now, tables, items, paid, apart, after>>

Supervise == SupScan \/ SupScanFails \/ SupSpawn
Fetch(t)  == FetchBegin(t) \/ FetchFails(t) \/ Ask(t) \/ Store(t) \/ StoreFails(t)
Run(t)    == Reload(t) \/ LookAgain(t) \/ LoopDies(t) \/ Decide(t) \/ Fetch(t)
Operator  == \/ \E s \in Sources, row \in Row : SaveAdapter(s, row)
             \/ \E s \in Sources : Toggle(s) \/ DeleteAdapter(s) \/ OnceStart(s)
             \/ \E n \in Names : DeletePolicy(n) \/ \E sched \in Schedules : SetPolicy(n, sched)

Next == Tick \/ Supervise \/ Operator \/ Restart \/ Fetch(Cli) \/ \E t \in Threads : Run(t)

\* Threads that are loops with a timeout, in a process that is started again.
Fairness == /\ WF_vars(Supervise) /\ WF_vars(Tick) /\ WF_vars(Fetch(Cli))
            /\ \A t \in Threads : WF_vars(Run(t))

Spec == Init /\ [][Next]_vars /\ Fairness

-----------------------------------------------------------------------------
\* A source never has two loops: two would fetch, and pay, twice and only one of them
\* would be the supervisor's to watch (_supervise's dict against its threads).
OneLoopPerSource == \A s \in Sources : Cardinality(LoopsOf(s)) <= 1

\* An unchanged prompt is one paid call per occurrence: a text that is answered again
\* was lost before it could be stored, or `--once` asked for it at the same time.
PaidOncePerOccurrence ==
    \A i \in Id : paid[i] <= 1 + lost[i] + (IF i \in apart THEN 1 ELSE 0)

\* A source that is switched off or deleted fetches at most once more, in the
\* iteration that had read its row before.
OffMeansOff == \A s \in Sources : s \notin Enabled(inst) => after[s] <= 1

\* The threads follow the table, whatever edits, deaths and restarts overlap.
LoopsFollowTheTable == OneLoopPerSource /\ OffMeansOff

\* However a source is edited, switched, lost to a locked database or restarted, if it
\* is enabled in the end it has a loop that has fetched for the latest occurrence.
Served(s) ==
    s \in Enabled(inst) /\ Buildable(inst[s]) =>
        \E t \in LoopsOf(s) :
            LET fetch == Rebuilt(inst[s]).fetch
            IN  loop[t].last # Never /\ (fetch.kind = "cron" => loop[t].occ = LatestFire(fetch.cron, now))
EverySourceIsServed == \A s \in Sources : []<>Served(s)
=============================================================================
