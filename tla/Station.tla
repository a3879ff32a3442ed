------------------------------ MODULE Station -------------------------------
(***************************************************************************)
(* The station as the dashboard shows it: the live audio (StreamHub), the  *)
(* ON AIR indicator (TxMonitor) and the clips (Clips).  They run in the ui *)
(* and in the beacon and share neither a table nor a file, so a behaviour  *)
(* takes the steps of one part while the others rest.                      *)
(***************************************************************************)
EXTENDS StreamHub, TxMonitor, Clips

VARIABLE part

\* A part at rest does nothing that its fairness would ask of it: no thread, no time left.
AudioAtRest     == /\ HubInit /\ url = (CHOOSE u \in Urls : TRUE)
                   /\ world = (CHOOSE w \in Scenarios : TRUE)
IndicatorAtRest == MonitorFrom("dead", MaxKeyed + 1) /\ weather = (CHOOSE w \in Weathers : TRUE)
ClipsAtRest     == ClipsFrom(MaxClock) /\ knobs = (CHOOSE k \in Knobs : TRUE)

StationInit == \/ part = "audio" /\ HubInit /\ IndicatorAtRest /\ ClipsAtRest
               \/ part = "indicator" /\ MonitorInit /\ AudioAtRest /\ ClipsAtRest
               \/ part = "clips" /\ ClipsInit /\ AudioAtRest /\ IndicatorAtRest
StationNext == /\ UNCHANGED part
               /\ \/ part = "audio" /\ HubNext /\ UNCHANGED <<monitorVars, clipVars>>
                  \/ part = "indicator" /\ MonitorNext /\ UNCHANGED <<hubVars, clipVars>>
                  \/ part = "clips" /\ ClipsNext /\ UNCHANGED <<hubVars, monitorVars>>
StationSpec == /\ StationInit /\ [][StationNext]_<<hubVars, monitorVars, clipVars, part>>
               /\ HubFairness /\ MonitorFairness /\ ClipsFairness

\* All keep their types: queues within their bound, counters within theirs, a file per name.
StationTypeOK == HubTypeOK /\ MonitorTypeOK /\ ClipsTypeOK

\* What broke mends itself: a wanted player sounds again once the stream and the network
\* do, an upstream nobody listens to is let go, a keyed notice goes out although the line
\* that ends it was never written, and what a crash leaves of a clip is swept.
StationRecovers == SoundReturns /\ IdleIsReleased /\ IndicatorGoesOut /\ SoundsAreSwept
=============================================================================
