------------------------------ MODULE MCBeacon ------------------------------
(* Constants for checking Beacon: an older and a fresher item of one event,   *)
(* an item of no event, and the scenarios of the environment.                                      *)
EXTENDS Beacon, TLC

CONSTANTS i1, i2, i3

MCItems     == {i1, i2, i3}
MCPair      == {i1, i2}
MCEventKey  == [i \in MCItems |-> IF i = i3 THEN NoKey ELSE "flood"]
MCDate      == (i1 :> 1) @@ (i2 :> 2) @@ (i3 :> 3)
MCChunks    == {0, 1}
MCChunkSets == {{0}, {0, 1}}

Fuel(r) == [s \in Steps |-> IF s \in DOMAIN r THEN r[s] ELSE 0]
Start(k, c, m, cs, r) ==
    [type |-> k, cap |-> c, max |-> m, chunks |-> cs, fuel |-> Fuel(r)]

\* Two publishes of one event, rows that fill the queue, re-arming by the operator,
\* re-chunked frames, staleness, crashes, settings edited, manual messages.
MCScenarios ==
    {Start("voice", 1, 1, {0},    [publish |-> 2]),
     Start("frame", 1, 2, {0, 1}, [publish |-> 1, rechunk |-> 1]),
     Start("frame", 2, 2, {0, 1}, [publish |-> 1]),
     Start("frame", 1, 2, {0, 1}, [publish |-> 1, crash |-> 1, fail |-> 1]),
     Start("voice", 1, 1, {0},    [publish |-> 1, retransmit |-> 1, age |-> 1]),
     Start("voice", 2, 1, {0},    [publish |-> 1, retransmit |-> 1, policy |-> 1]),
     Start("voice", 1, 2, {0},    [publish |-> 1, retransmit |-> 1, queue |-> 1]),
     Start("voice", 2, 1, {0},    [publish |-> 1, delete |-> 1, duplicate |-> 1]),
     Start("voice", 1, 1, {0},    [publish |-> 1, type |-> 1, second |-> 1]),
     Start("voice", 1, 1, {0},    [publish |-> 1, republish |-> 1, lose |-> 1]),
     Start("voice", 1, 1, {0},    [manual |-> 2, type |-> 1, enable |-> 1, crash |-> 1])}

\* The same hazards one at a time, for the runs that check liveness on the pair.
MCPairEventKey == [i \in MCPair |-> "flood"]
MCPairDate     == [i \in MCPair |-> MCDate[i]]
MCLiveScenarios ==
    {Start("voice", 1, 1, {0},    [publish |-> 1, lose |-> 1, second |-> 1]),
     Start("voice", 1, 1, {0},    [publish |-> 1, crash |-> 1]),
     Start("frame", 1, 2, {0, 1}, [publish |-> 1, fail |-> 1]),
     Start("voice", 2, 1, {0},    [publish |-> 1]),
     Start("voice", 1, 1, {0},    [publish |-> 1, age |-> 1, enable |-> 1]),
     Start("voice", 1, 1, {0},    [manual |-> 1, type |-> 1, enable |-> 1, crash |-> 1])}

\* One scenario for each claim of the repository that the program breaks.
MCSupersedeScenarios == {Start("voice", 1, 0, {0}, [publish |-> 2])}
MCRearmScenarios     == {Start("voice", 1, 1, {0}, [publish |-> 2])}

\* Behaviours in which messages arrive one at a time, every row that is due goes on the air, and
\* the reconcile interval elapses only when all messages were handled and all rows worked off:
\* what the pass then finds missed, the handler has had before.
MCWorkedOff == msgs = {} /\ job["mqtt"] = None /\ sched = <<>> /\ airing = None
MCQuietSpec ==
    Init /\ [][/\ Next
               /\ nextId' # nextId => msgs = {}
               /\ TxAttempt => aired' # aired
               /\ HouseReconcile => MCWorkedOff]_vars
=============================================================================
