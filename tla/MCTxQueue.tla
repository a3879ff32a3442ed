----------------------------- MODULE MCTxQueue -----------------------------
(* Constants for checking TxQueue: two clips whose names differ only in      *)
(* characters that the queue name replaces, and one that is no WAV file.     *)
EXTENDS TxQueue

MCClips    == 1 .. 3
MCSafe     == [c \in MCClips |-> IF c = 3 THEN 2 ELSE 1]
MCUnusable == {3}

With(r) == [s \in Steps |-> IF s \in DOMAIN r THEN r[s] ELSE 0]

\* One or two clips against each thing that may happen meanwhile.
MCScenarios ==
    {With([drop |-> 2, second |-> 1]),
     With([drop |-> 3, bad |-> 1]),
     With([drop |-> 1, squelch |-> 2, ident |-> 1]),
     With([drop |-> 1, squelch |-> 2, rotate |-> 1, ident |-> 1]),
     With([drop |-> 1, stop |-> 1, kill |-> 1, ident |-> 1]),
     With([drop |-> 1, down |-> 1, stop |-> 1, squelch |-> 1, bad |-> 1]),
     With([drop |-> 2, second |-> 1, kill |-> 1])}
=============================================================================
