--------------------------- MODULE MCDispatcher ----------------------------
(* Constants for checking Dispatcher: an item that is fresh for the first     *)
(* process and stale for the next, one that is always stale, one undated.     *)
EXTENDS Dispatcher, TLC

CONSTANTS a, b, c

MCItems == {a, b, c}
MCPair  == {a, b}
MCDate  == [i \in MCItems |-> CASE i = a -> 1 [] i = b -> Undated [] i = c -> 0]
MCPairDate == [i \in MCPair |-> MCDate[i]]

Begin(backlog, r) ==
    [backlog |-> backlog, fuel |-> [s \in Steps |-> IF s \in DOMAIN r THEN r[s] ELSE 0]]

\* Rows stored and deleted, policies edited, items re-armed and reset, and crashes, at
\* any point of a pass.
MCScenarios ==
    {Begin({},     [store |-> 3, crash |-> 1]),
     Begin({c},    [store |-> 2, override |-> 1, crash |-> 1]),
     Begin({a},    [store |-> 2, delete |-> 1, rearm |-> 1]),
     Begin({},     [store |-> 2, delete |-> 1, override |-> 1]),
     Begin({b},    [override |-> 2, rearm |-> 1, crash |-> 1, store |-> 1]),
     Begin({a, b}, [override |-> 1, reset |-> 1, rearm |-> 1, crash |-> 1])}

\* One scenario for the claim that the program breaks.
MCReuseScenarios == {Begin({a, b}, [store |-> 1, delete |-> 1])}
=============================================================================
