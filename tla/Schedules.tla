----------------------------- MODULE Schedules ------------------------------
(***************************************************************************)
(* The two readers of a policy's schedules: the loops that fetch (Feeds)   *)
(* and the transmit thread that repeats (Airtime).  They share only what a *)
(* schedule means (Cadence): the fetch stage and the transmit stage of a   *)
(* policy are separate fields.  So a behaviour takes the steps of one part *)
(* while the other rests.                                                  *)
(***************************************************************************)
EXTENDS Feeds, Airtime

VARIABLE part

\* No row is in the schedule, nothing happens to the sources.
AirAtRest   == /\ second = 0 /\ stage \in Stages /\ stage = (CHOOSE s \in Stages : TRUE)
               /\ row = NoRow /\ edits = 0 /\ airings = <<>>
FetchAtRest == Init /\ fuel = [x \in Steps |-> 0]

PartsInit == \/ part = "fetch" /\ Init /\ AirAtRest
             \/ part = "air" /\ AirInit /\ FetchAtRest
PartsNext == /\ UNCHANGED part
             /\ \/ part = "fetch" /\ Next /\ UNCHANGED airVars
                \/ part = "air" /\ AirNext /\ UNCHANGED vars
PartsSpec == PartsInit /\ [][PartsNext]_<<vars, airVars, part>> /\ (part = "fetch" => Fairness)

\* Both parts keep their types.
PartsTypeOK == TypeOK /\ AirTypeOK

\* However the sources are edited, switched, failed and restarted, each is served in the end.
PartsServed == part = "fetch" => EverySourceIsServed
=============================================================================
