---------------------------- MODULE MCPipeline -----------------------------
(* Constants for checking Pipeline: an item with contents and one without.   *)
EXTENDS Pipeline

CONSTANTS i1, e1

MCItems == {i1, e1}
MCEmpty == {e1}
MCOne   == {i1}
MCNone  == {}

With(o, r) == [outcomes |-> o, fuel |-> [s \in Steps |-> IF s \in DOMAIN r THEN r[s] ELSE 0]]

\* Two rounds that overlap, with each thing that may go wrong between them.
MCScenarios ==
    {With({"text"},           [dispatch |-> 3]),
     With({"text"},           [dispatch |-> 2, duplicate |-> 1, second |-> 1]),
     With({"text", "raise"},  [dispatch |-> 2, fail |-> 1, duplicate |-> 1]),
     With({"text", "abort"},  [dispatch |-> 2, second |-> 1, lose |-> 1]),
     With({"text"},           [dispatch |-> 2, delete |-> 1, store |-> 1, second |-> 1]),
     With({"text"},           [dispatch |-> 2, crash |-> 1, second |-> 1])}

\* A scenario for the claim that the program breaks.
MCAbortScenarios == {With({"text", "abort"}, [dispatch |-> 2, second |-> 1])}
=============================================================================
