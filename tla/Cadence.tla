------------------------------ MODULE Cadence ------------------------------
(***************************************************************************)
(* When something is due.  The schedules of a policy (adapters/policy.py), *)
(* cron evaluation (adapters/cron.py) and the transmit stage               *)
(* (_transmit_due of beacon/__main__.py) as operators over a clock of      *)
(* whole seconds.                                                          *)
(*                                                                         *)
(* A cron expression is the set of the seconds it fires in.  croniter      *)
(* always finds an earlier occurrence, so every set has one before the     *)
(* clock starts.                                                           *)
(***************************************************************************)
EXTENDS Integers, FiniteSetsExt

CONSTANTS Crons,     \* the valid cron expressions an operator may write
          Fires,     \* [Crons -> the seconds it fires in]
          Invalid,   \* an expression croniter cannot evaluate
          Never      \* no occurrence, not sent, no expression

ASSUME FiresAssumption == Fires \in [Crons -> SUBSET Nat] /\ \A c \in Crons : 0 \in Fires[c]
ASSUME NeverAssumption == Never \notin Nat \cup Crons

Moments == UNION {Fires[c] : c \in Crons}

\* One stage's schedule: `every` counts for interval, `cron` for cron.
OnceSchedule     == [kind |-> "once", every |-> 0, cron |-> Never]
Interval(n)      == [kind |-> "interval", every |-> n, cron |-> Never]
CronSchedule(c)  == [kind |-> "cron", every |-> 0, cron |-> c]

\* croniter's get_prev: strictly before the base.
Previous(c, base) ==
    IF \E f \in Fires[c] : f < base THEN Max({f \in Fires[c] : f < base}) ELSE Never

LatestFire(c, at) == IF c \in Crons THEN Previous(c, at + 1) ELSE Never

NextFire(c, after) ==
    IF c \in Crons /\ \E f \in Fires[c] : f > after
    THEN Min({f \in Fires[c] : f > after}) ELSE Never

\* Schedule.next_fire_after
NextFireAfter(s, after) ==
    CASE s.kind = "interval" -> after + Max({1, s.every})
      [] s.kind = "cron"     -> NextFire(s.cron, after)
      [] OTHER               -> Never

-----------------------------------------------------------------------------
(* set_policy's _validate: what is refused, and what a kind has no use for  *)
(* is reset.                                                                *)

FetchKinds == {"once", "interval", "cron"}

AcceptedAny(s) == TRUE      \* a mutant
Accepted(s) ==
    \/ s.kind = "once"
    \/ s.kind = "interval" /\ s.every >= 1
    \/ s.kind = "cron" /\ s.cron \in Crons

Normalised(s) ==
    CASE s.kind = "once"     -> OnceSchedule
      [] s.kind = "interval" -> Interval(s.every)
      [] OTHER               -> CronSchedule(s.cron)

\* A stage as an operator may write it, and as set_policy stores it.
Written == [kind : FetchKinds, every : Int, cron : Crons \cup {Invalid, Never}]
Stage   == {OnceSchedule} \cup [kind : {"interval"}, every : Nat \ {0}, cron : {Never}]
           \cup {CronSchedule(c) : c \in Crons}

(* resolve_policy: the named row, else the row `default`, else a constant.  *)
Resolve(policies, name, default, fallback) ==
    CASE name \in DOMAIN policies                                -> policies[name]
      [] name \notin DOMAIN policies /\ default \in DOMAIN policies -> policies[default]
      [] OTHER                                                   -> fallback

-----------------------------------------------------------------------------
(* _transmit_due for a row created at `created` and last sent at `last`.    *)
(* Its cron branch compares texts: an occurrence as 'YYYY-MM-DDTHH:MM:SS+00:00', *)
(* created_at without the offset and so, in the same second, a prefix of it *)
(* and smaller; last_transmitted_at with microseconds and so, in the same   *)
(* second, larger.                                                          *)

\* A mutant: as if both were compared with created_at's format.
TransmitDueAgain(s, created, last, now) ==
    CASE s.kind = "cron" -> LET occ == LatestFire(s.cron, now)
                            IN  occ # Never /\ occ >= (IF last = Never THEN created ELSE last)
      [] s.kind = "interval" -> now >= (IF last = Never THEN 0 ELSE last + s.every)
      [] OTHER -> last = Never

TransmitDue(s, created, last, now) ==
    CASE s.kind = "cron" -> LET occ == LatestFire(s.cron, now)
                            IN  occ # Never /\ IF last = Never THEN occ >= created ELSE occ > last
      [] s.kind = "interval" -> now >= (IF last = Never THEN 0 ELSE last + s.every)
      [] OTHER -> last = Never
=============================================================================
