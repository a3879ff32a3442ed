------------------------------ MODULE Airtime ------------------------------
(***************************************************************************)
(* One row of the transmit schedule against the clock: what _drain_kind    *)
(* of beacon/__main__.py does with it at every tick of the transmit        *)
(* thread, while the policy it names is edited.  Module Beacon leaves open *)
(* when a row is due; here that is computed from the live schedule, and    *)
(* compared with what the schedule itself calls its next occurrence.       *)
(***************************************************************************)
EXTENDS Cadence, Sequences

CONSTANTS LastSecond,  \* bound on the clock
          Stages,      \* the transmit stages an operator may write
          MaxEdits,    \* bound on the edits of the policy
          NoRow        \* the row is retired

ASSUME SecondAssumption == LastSecond \in Nat
ASSUME EditsAssumption  == MaxEdits \in Nat
ASSUME StagesAssumption == Stages \subseteq [schedule : Stage, count : Nat]

VARIABLES second, stage, row, edits,
          airings      \* history: when the unit was aired, under which stage

airVars == <<second, stage, row, edits, airings>>

Entry == [created : 0 .. LastSecond, last : 0 .. LastSecond \cup {Never}, sent : Nat]

ASSUME RowAssumption == NoRow \notin Entry

AirTypeOK ==
    /\ second \in 0 .. LastSecond /\ stage \in Stages /\ row \in Entry \cup {NoRow}
    /\ edits \in 0 .. MaxEdits
    /\ airings \in Seq([at : 0 .. LastSecond, stage : Stages, created : 0 .. LastSecond])

AirInit == /\ stage \in Stages /\ second \in 1 .. LastSecond \div 2
           /\ row = [created |-> second, last |-> Never, sent |-> 0]
           /\ edits = 0 /\ airings = <<>>

AirTick == second < LastSecond /\ second' = second + 1 /\ UNCHANGED <<stage, row, edits, airings>>

Edit == /\ edits < MaxEdits /\ edits' = edits + 1 /\ stage' \in Stages
        /\ UNCHANGED <<second, row, airings>>

\* The budget is the live one: a lowered count retires the row without an airing.
Spent == /\ row # NoRow /\ row.sent >= stage.count /\ row' = NoRow
         /\ UNCHANGED <<second, stage, edits, airings>>

Air == /\ row # NoRow /\ row.sent < stage.count
       /\ TransmitDue(stage.schedule, row.created, row.last, second)
       /\ airings' = Append(airings, [at |-> second, stage |-> stage, created |-> row.created])
       /\ row' = IF row.sent + 1 >= stage.count THEN NoRow
                 ELSE [row EXCEPT !.last = second, !.sent = @ + 1]
       /\ UNCHANGED <<second, stage, edits>>

NothingDue == /\ row # NoRow => /\ row.sent < stage.count
                                 /\ ~TransmitDue(stage.schedule, row.created, row.last, second)
              /\ UNCHANGED airVars

AirNext == AirTick \/ Edit \/ Spent \/ Air \/ NothingDue

AirSpec == AirInit /\ [][AirNext]_airVars

-----------------------------------------------------------------------------
\* Whatever the policy was before, an airing never comes before the next occurrence
\* that the schedule in force then names after the previous airing, strictly after it; and
\* the first airing of a cron row waits for an occurrence strictly after the row's creation
\* or, against _transmit_due's docstring, for the slot of the very second it was created in.
KeepsItsDistance ==
    \A i \in DOMAIN airings :
        LET s == airings[i].stage.schedule
        IN  IF i > 1 THEN NextFireAfter(s, airings[i - 1].at) \in 0 .. airings[i].at
            ELSE s.kind = "cron" => \E f \in Fires[s.cron] : f \in airings[1].created .. airings[1].at

=============================================================================
