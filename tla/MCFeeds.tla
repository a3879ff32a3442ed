------------------------------ MODULE MCFeeds ------------------------------
(* Two sources, one of them a seed, three policies of which one can only be *)
(* resolved by falling back, and a clock over two cron occurrences.         *)
(* Beside it, in behaviours of its own, one row of the transmit schedule    *)
(* under six stages and two edits: the two parts share only module Cadence. *)
EXTENDS Schedules

CONSTANTS csn, wx, default, daily, hourly, p1, p2, broken, cli, never, none

MCSources == {csn, wx}
MCFires   == [c \in {"every2", "every3"} |-> IF c = "every2" THEN {0, 2, 4, 6} ELSE {0, 3, 6}]
MCSchedules == {OnceSchedule, Interval(2), CronSchedule("every2"), CronSchedule("every3"),
                CronSchedule("invalid")}
MCFallback == Interval(1)

R(type, policy, config) == [on |-> TRUE, type |-> type, policy |-> policy, config |-> config]
MCSeeds   == [s \in {csn} |-> R("api", default, p1)]
MCPolicies == [n \in {default, daily} |-> IF n = default THEN Interval(1) ELSE CronSchedule("every2")]

One(type, policy) == [s \in {wx} |-> R(type, policy, p1)]
Two == [s \in {csn, wx} |-> IF s = csn THEN R("api", default, p1) ELSE R("aiprompt", daily, p1)]

Env(table, f) == [inst |-> table, policies |-> MCPolicies,
                 fuel |-> [x \in Steps |-> IF x \in DOMAIN f THEN f[x] ELSE 0]]

MCScenarios == {
    Env(One("aiprompt", daily), <<>>),
    Env(One("aiprompt", daily), [toggle |-> 2, locked |-> 1]),
    Env(One("aiprompt", daily), [restart |-> 1, locked |-> 1, fail |-> 1]),
    Env(One("aiprompt", daily), [once |-> 1, restart |-> 1]),
    Env(One("aiprompt", daily), [policy |-> 1, drop |-> 1]),
    Env(One("aiprompt", hourly), [save |-> 1]),
    Env(One("api", default), [delete |-> 1, toggle |-> 1]),
    Env(One("aiprompt", hourly), [drop |-> 1])}

MCStages == {[schedule |-> s, count |-> n] :
                s \in {Interval(1), Interval(2), CronSchedule("every2"), CronSchedule("every3")}, n \in {1, 3}}
                \cup {[schedule |-> OnceSchedule, count |-> 1]}
=============================================================================
