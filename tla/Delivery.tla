------------------------------ MODULE Delivery ------------------------------
(***************************************************************************)
(* What the operator is promised of a message typed into "Transmit now":   *)
(* it joins the queue of the kind it was composed for, the queues are      *)
(* served one message at a time and in the order of arrival, and no        *)
(* message is attempted twice, except that an attempt which a crash made   *)
(* the server forget is repeated.  Beacon implements this with a table, a  *)
(* snapshot of it that ages, and a process that may die (Beacon!Outbox).   *)
(***************************************************************************)
EXTENDS Naturals

CONSTANTS Jobs,   \* the messages, numbered as they arrive
          Lanes,  \* the kinds of message, none of them "new" or "gone"
          Nobody  \* no message, not one of Jobs

VARIABLES
    state,    \* what became of each message: "new", waiting in a lane, "gone"
    hand,     \* the message being attempted
    tried,    \* how often each message was attempted...
    forgotten \* ... and how often the attempt was forgotten

vars == <<state, hand, tried, forgotten>>

Init ==
    /\ state = [j \in Jobs |-> "new"] /\ hand = Nobody
    /\ tried = [j \in Jobs |-> 0] /\ forgotten = [j \in Jobs |-> 0]

Offer(j) ==
    /\ state[j] = "new"
    /\ \A i \in Jobs : i < j => state[i] # "new"
    /\ \E lane \in Lanes : state' = [state EXCEPT ![j] = lane]
    /\ UNCHANGED <<hand, tried, forgotten>>

First(j) == \A i \in Jobs : state[i] = state[j] => j <= i

Take(j) ==
    /\ hand = Nobody
    /\ state[j] \in Lanes /\ First(j)
    /\ tried[j] <= forgotten[j]
    /\ hand' = j
    /\ tried' = [tried EXCEPT ![j] = @ + 1]
    /\ UNCHANGED <<state, forgotten>>

Settle ==
    /\ hand # Nobody
    /\ state' = [state EXCEPT ![hand] = "gone"]
    /\ hand' = Nobody
    /\ UNCHANGED <<tried, forgotten>>

Forget ==
    /\ hand # Nobody
    /\ forgotten' = [forgotten EXCEPT ![hand] = @ + 1]
    /\ hand' = Nobody
    /\ UNCHANGED <<state, tried>>

Next == (\E j \in Jobs : Offer(j) \/ Take(j)) \/ Settle \/ Forget

Spec == Init /\ [][Next]_vars
=============================================================================
