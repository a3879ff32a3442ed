------------------------------ MODULE MCStation ------------------------------
(* Two tabs and their requests, a log that rotates once, and the units of   *)
(* one source, a message and the watermark.                                 *)
EXTENDS Station

CONSTANTS p1, p2, desk, phone, live, backup

W(k, u, tr, q) == [key |-> k, url |-> u, trouble |-> tr, quiet |-> q]
MCScenarios == {W(1, 1, 1, 0), W(1, 1, 0, 1), W(2, 1, 0, 0), W(1, 0, 1, 1)}

Weather(t, r, s, c) == [tx |-> t, rotate |-> r, set |-> s, crash |-> c]
MCWeathers == {Weather(3, 1, 0, 0), Weather(3, 0, 2, 0), Weather(2, 0, 0, 1), Weather(2, 1, 1, 0),
               Weather(2, 1, 0, 1)}

\* An item as speech and in a frame, a message, an item with the message's names ("1" of a
\* source "manual"), and the watermark.
MCNumerals == {2026} \cup (0 .. 8)
CSN(kind, item, ref) == [kind |-> kind, source |-> <<9001>>, item |-> item, ref |-> ref]
Own(kind, ref)       == [kind |-> kind, source |-> <<>>, item |-> <<>>, ref |-> ref]
MCUnits == {CSN("voice", <<2026, 8>>, 0), CSN("frame", <<2026, 8>>, 1), Own("manual", 1), Own("watermark", 0),
            [kind |-> "voice", source |-> <<9002>>, item |-> <<1>>, ref |-> 0]}
MCKnobs == {[retention |-> 2, spool |-> FALSE], [retention |-> 0, spool |-> TRUE]}
=============================================================================
