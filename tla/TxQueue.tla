------------------------------ MODULE TxQueue ------------------------------
(***************************************************************************)
(* documentation/svxlink-txqueue: the service that plays what the beacon   *)
(* (or anybody) drops into a spool over SvxLink.  One thread:              *)
(*                                                                         *)
(*   scan      files that stopped growing move from incoming/ to queue/    *)
(*   process   the first of the queue is staged, waits for an idle         *)
(*             channel, is handed to SvxLink, watched, and filed           *)
(*                                                                         *)
(* The service knows the channel only from the lines of SvxLink's log it   *)
(* gets to read: rxLine and txLine are the last unread line about the      *)
(* squelch and about the transmitter (older ones change nothing).          *)
(*                                                                         *)
(* Times are flags that time sets: a file that was quiet for               *)
(* STABLE_SECONDS, a channel that was idle for IDLE_GUARD, a deadline that *)
(* has passed.  SvxLink itself is external: it plays what it was told, one *)
(* after the other, with idents in between.                                *)
(***************************************************************************)
EXTENDS Integers, FiniteSets, Sequences

CONSTANTS Clips,      \* file names, in the order of the directory listing
          Safe,       \* what is left of a name in queue/: [Clips -> Nat]
          Unusable,   \* files with another extension, or without a WAV header
          Scenarios,  \* how often the environment may take each step
          None        \* no clip, no line

Steps == {"drop", "second", "squelch", "ident", "rotate", "stop", "kill", "down", "bad"}

ASSUME ClipsAssumption    == Clips \subseteq Nat /\ IsFiniteSet(Clips)
ASSUME SafeAssumption     == Safe \in [Clips -> Nat]
ASSUME UnusableAssumption == Unusable \subseteq Clips
ASSUME SpoolAssumption    == Scenarios \subseteq [Steps -> Nat]
ASSUME NoClipAssumption   == None \notin Clips \cup (Clips \X Nat) \cup BOOLEAN

VARIABLES
    \* the spool: where each clip is, the second in its queue name, the files whose
    \* producer is still writing, the copies in staging/, one for each attempt
    place, stamp, growing, staged,
    \* the service: where it is, the directory listing it works through, what it noted
    \* of each file, the clip in hand, a deadline that passed, a signal that arrived
    pc, listing, seen, cur, late, stop,
    \* ChannelState: open_rx, tx_on, and the age of last_busy
    openRx, txOn, busy,
    \* SvxLink: is it up, its receiver, an ident on the air, the clips it was told to
    \* play, the clip on the air; and the log
    svx, rx, ident, pending, playing, rxLine, txLine,
    clock, fuel,
    \* history: commands given per clip, clips staged while growing, commands whose
    \* outcome a stop or a kill left open, channel changes the service could not see
    plays, partial, cut, blind

spool   == <<place, stamp, growing>>
service == <<pc, listing, seen, cur, late, stop, staged>>
channel == <<openRx, txOn, busy>>
svxlink == <<svx, rx, ident, pending, playing>>
lines   == <<rxLine, txLine>>
history == <<plays, partial, cut, blind>>
vars    == <<spool, service, channel, svxlink, lines, clock, fuel, history>>

Keyed == ident \/ playing # None                 \* the transmitter is on

TypeOK ==
    /\ place \in [Clips -> {"out", "incoming", "queue", "sent", "failed", "replaced"}]
    /\ stamp \in [Clips -> Nat] /\ growing \subseteq Clips
    /\ pc \in {"down", "scan", "process", "stage", "idle", "write", "key", "air", "off", "done", "fail"}
    /\ listing \subseteq Clips /\ seen \in [Clips -> {"no", "noted", "changed", "quiet"}]
    /\ cur \in Clips \cup {None} /\ staged \subseteq Clips \X Nat
    /\ late \in BOOLEAN /\ stop \in BOOLEAN
    /\ openRx \in BOOLEAN /\ txOn \in BOOLEAN /\ busy \in {"never", "recent", "past"}
    /\ svx \in BOOLEAN /\ rx \in BOOLEAN /\ ident \in BOOLEAN
    /\ pending \in Seq(Clips \X Nat) /\ playing \in (Clips \X Nat) \cup {None}
    /\ rxLine \in BOOLEAN \cup {None} /\ txLine \in BOOLEAN \cup {None}
    /\ clock \in Nat /\ fuel \in [Steps -> Nat]
    /\ plays \in [Clips -> Nat] /\ cut \in [Clips -> Nat]
    /\ partial \subseteq Clips /\ blind \in BOOLEAN
    \* the clip in hand is in queue/, what is noted is in incoming/
    /\ (cur # None) <=> pc \in {"stage", "idle", "write", "key", "air", "off", "done", "fail"}
    /\ cur # None => place[cur] = "queue"
    /\ \A c \in Clips : seen[c] # "no" => place[c] = "incoming"

Init ==
    /\ fuel \in Scenarios
    /\ place = [c \in Clips |-> "out"] /\ stamp = [c \in Clips |-> 0] /\ growing = {}
    /\ staged = {}
    /\ pc = "down" /\ listing = {} /\ seen = [c \in Clips |-> "no"] /\ cur = None
    /\ late = FALSE /\ stop = FALSE
    /\ openRx = FALSE /\ txOn = FALSE /\ busy = "never"
    /\ svx = TRUE /\ rx = FALSE /\ ident = FALSE /\ pending = <<>> /\ playing = None
    /\ rxLine = None /\ txLine = None
    /\ clock = 1
    /\ plays = [c \in Clips |-> 0] /\ cut = [c \in Clips |-> 0]
    /\ partial = {} /\ blind = FALSE

Spend(step) == fuel[step] > 0 /\ fuel' = [fuel EXCEPT ![step] = @ - 1]

In(dir) == {c \in Clips : place[c] = dir}

\* ChannelState.poll: the lines since the last one, and last_busy.
Heard(known, line) == IF line = None THEN known ELSE line
Poll == /\ openRx' = Heard(openRx, rxLine)
        /\ txOn' = Heard(txOn, txLine)
        /\ rxLine' = None /\ txLine' = None
        /\ busy' = IF openRx' \/ txOn' THEN "recent" ELSE busy

-----------------------------------------------------------------------------
(* main and ingest_incoming                                                  *)

\* A fresh process has noted nothing and tails the log from its end.
Start ==
    /\ pc = "down" /\ svx
    /\ pc' = "scan" /\ stop' = FALSE /\ late' = FALSE
    /\ listing' = In("incoming") /\ seen' = [c \in Clips |-> "no"]
    /\ openRx' = FALSE /\ txOn' = FALSE /\ busy' = "never"
    /\ rxLine' = None /\ txLine' = None
    /\ blind' = (rx \/ Keyed)
    /\ UNCHANGED <<spool, cur, staged, svxlink, clock, fuel, plays, partial, cut>>

\* The name in queue/ is the second and the sanitized name.  A mutant first: no stamp.
SameSafeName(c, d) == Safe[c] = Safe[d]
SameQueueName(c, d) == stamp'[c] = stamp'[d] /\ Safe[c] = Safe[d]

\* A mutant: a file is taken as soon as it was seen twice.
StableOnceNoted(c) == seen[c] \in {"noted", "quiet"}
Stable(c) == seen[c] = "quiet"

\* A mutant: the note outlives the file it is about.
NotesKept(c) == seen
NotesWithout(c) == [seen EXCEPT ![c] = "no"]

\* The next file of the listing: noted, waited for, rejected, or queued, which replaces
\* a file of the same name.
ScanFile ==
    /\ pc = "scan"
    /\ \E c \in listing :
        /\ \A d \in listing : c <= d
        /\ listing' = listing \ {c}
        /\ IF Stable(c)
           THEN /\ seen' = NotesWithout(c)
                /\ stamp' = [stamp EXCEPT ![c] = IF c \in Unusable THEN @ ELSE clock]
                /\ place' = [d \in Clips |->
                     CASE d = c /\ c \in Unusable -> "failed"
                       [] d = c /\ c \notin Unusable -> "queue"
                       [] d # c /\ c \notin Unusable /\ d \in In("queue") /\ SameQueueName(c, d)
                            -> "replaced"
                       [] OTHER -> place[d]]
           ELSE /\ seen' = [seen EXCEPT ![c] = IF @ \in {"no", "changed"} THEN "noted" ELSE @]
                /\ UNCHANGED <<place, stamp>>
    /\ UNCHANGED <<growing, pc, cur, late, stop, staged, channel, svxlink, lines, clock, fuel, history>>

ScanEnd ==
    /\ pc = "scan" /\ listing = {}
    /\ pc' = "process"
    /\ UNCHANGED <<spool, listing, seen, cur, late, stop, staged, channel, svxlink, lines, clock,
                   fuel, history>>

\* process_queue: the first name of the queue.
Before(c, d) == stamp[c] < stamp[d] \/ (stamp[c] = stamp[d] /\ Safe[c] < Safe[d])

TakeNext ==
    /\ pc = "process" /\ ~stop
    /\ \E c \in In("queue") :
        /\ \A d \in In("queue") : ~Before(d, c)
        /\ cur' = c
    /\ pc' = "stage"
    /\ UNCHANGED <<spool, listing, seen, late, stop, staged, channel, svxlink, lines, clock, fuel, history>>

\* An empty queue: the next round of the main loop, or its end.
ProcessEnd ==
    /\ pc = "process"
    /\ In("queue") = {} \/ stop
    /\ IF stop
       THEN pc' = "down" /\ UNCHANGED listing /\ UNCHANGED <<channel, lines>>
       ELSE pc' = "scan" /\ listing' = In("incoming") /\ Poll
    /\ UNCHANGED <<spool, seen, cur, late, stop, staged, svxlink, clock, fuel, history>>

-----------------------------------------------------------------------------
(* transmit                                                                  *)

\* This attempt's copy in staging/, before and after SvxLink is told to play it; the
\* end of the attempt removes it.
Copy     == <<cur, plays[cur]>>
Unstaged == staged \ {IF pc \in {"stage", "idle", "write"} THEN Copy ELSE <<cur, plays[cur] - 1>>}

\* SvxLink is not there, the file is no PCM WAV or too long: failed.
Stage ==
    /\ pc = "stage"
    /\ \/ /\ svx
          /\ pc' = "idle" /\ staged' = staged \cup {Copy} /\ late' = FALSE
          /\ UNCHANGED fuel
          /\ partial' = IF cur \in growing THEN partial \cup {cur} ELSE partial
       \/ /\ (~svx /\ UNCHANGED fuel) \/ (svx /\ Spend("bad"))
          /\ pc' = "fail" /\ UNCHANGED <<staged, late, partial>>
    /\ UNCHANGED <<spool, listing, seen, cur, stop, channel, svxlink, lines, clock, plays, cut, blind>>

\* A mutant: the channel as it was before this poll.
IdleBefore == svx /\ ~openRx /\ ~txOn /\ busy # "recent"
Idle   == svx /\ ~openRx' /\ ~txOn' /\ busy' # "recent"

\* A mutant: the wait never gives up.
AwaitIdleForever ==
    /\ pc = "idle" /\ ~stop
    /\ Poll
    /\ pc' = IF Idle THEN "write" ELSE "idle"
    /\ UNCHANGED <<spool, listing, seen, cur, late, stop, staged, svxlink, clock, fuel, history>>

\* wait_for_idle.
AwaitIdle ==
    /\ pc = "idle" /\ ~stop
    /\ Poll
    /\ pc' = IF Idle \/ late THEN "write" ELSE "idle"
    /\ UNCHANGED <<spool, listing, seen, cur, late, stop, staged, svxlink, clock, fuel, history>>

\* A stop leaves the file in queue/; so does one before the transmitter keys.
StopWaiting ==
    /\ stop
    /\ pc = "idle" \/ (pc = "key" /\ ~late)
    /\ pc' = "process" /\ cur' = None
    /\ staged' = Unstaged
    /\ cut' = IF pc = "key" THEN [cut EXCEPT ![cur] = @ + 1] ELSE cut
    /\ UNCHANGED <<spool, listing, seen, late, stop, channel, svxlink, lines, clock, fuel,
                   plays, partial, blind>>

\* EVENT ::playFile, after one more look at the transmitter.
Write ==
    /\ pc = "write"
    /\ Poll
    /\ IF svx
       THEN /\ pending' = Append(pending, Copy)
            /\ plays' = [plays EXCEPT ![cur] = @ + 1]
            /\ pc' = IF txOn' THEN "air" ELSE "key"
            /\ UNCHANGED staged
       ELSE pc' = "fail" /\ staged' = Unstaged /\ UNCHANGED <<pending, plays>>
    /\ late' = FALSE
    /\ UNCHANGED <<spool, listing, seen, cur, stop, svx, rx, ident, playing, clock, fuel,
                   partial, cut, blind>>

\* A mutant: a clip that never keyed is left in queue/ for the next round.
AwaitKeyAgain ==
    /\ pc = "key"
    /\ \/ /\ late
          /\ pc' = "process" /\ cur' = None /\ staged' = Unstaged /\ UNCHANGED <<channel, lines>>
       \/ /\ ~late /\ ~stop
          /\ Poll
          /\ pc' = IF txOn' THEN "air" ELSE "key"
          /\ UNCHANGED <<cur, staged>>
    /\ UNCHANGED <<spool, listing, seen, late, stop, svxlink, clock, fuel, history>>

\* Phase 1: the transmitter keys, or never does.
AwaitKey ==
    /\ pc = "key"
    /\ \/ /\ late
          /\ pc' = "fail" /\ staged' = Unstaged /\ UNCHANGED <<cur, channel, lines>>
       \/ /\ ~late /\ ~stop
          /\ Poll
          /\ pc' = IF txOn' THEN "air" ELSE "key"
          /\ UNCHANGED <<cur, staged>>
    /\ UNCHANGED <<spool, listing, seen, late, stop, svxlink, clock, fuel, history>>

\* Phase 2: off, and still off a second later; or the deadline, or a stop.
AwaitOff ==
    /\ pc \in {"air", "off"}
    /\ IF pc = "air" /\ (late \/ stop)
       THEN pc' = "done" /\ staged' = Unstaged /\ UNCHANGED <<channel, lines>>
       ELSE /\ Poll
            /\ pc' = CASE txOn' -> "air"
                       [] ~txOn' /\ pc = "air" -> "off"
                       [] OTHER -> "done"
            /\ staged' = IF ~txOn' /\ pc = "off" THEN Unstaged ELSE staged
    /\ UNCHANGED <<spool, listing, seen, cur, late, stop, svxlink, clock, fuel, history>>

\* process_queue moves the original to sent/ or to failed/.
File ==
    /\ pc \in {"done", "fail"}
    /\ place' = [place EXCEPT ![cur] = IF pc = "done" THEN "sent" ELSE "failed"]
    /\ pc' = "process" /\ cur' = None
    /\ UNCHANGED <<stamp, growing, listing, seen, late, stop, staged, channel, svxlink, lines, clock,
                   fuel, history>>

-----------------------------------------------------------------------------
(* The producers, time, signals.                                             *)

\* The beacon renames a whole file into place; cp writes one that grows.
Drop(c) ==
    /\ Spend("drop")
    /\ place[c] = "out"
    /\ place' = [place EXCEPT ![c] = "incoming"]
    /\ \/ growing' = growing \cup {c}
       \/ UNCHANGED growing
    /\ UNCHANGED <<stamp, service, channel, svxlink, lines, clock, history>>

\* It never pauses for STABLE_SECONDS before it is done.
FinishWriting(c) ==
    /\ c \in growing
    /\ growing' = growing \ {c}
    /\ seen' = [seen EXCEPT ![c] = IF @ = "noted" THEN "changed" ELSE @]
    /\ UNCHANGED <<place, stamp, pc, listing, cur, late, stop, staged, channel, svxlink, lines, clock,
                   fuel, history>>

Settle(c) ==
    /\ seen[c] = "noted" /\ c \notin growing
    /\ seen' = [seen EXCEPT ![c] = "quiet"]
    /\ UNCHANGED <<spool, pc, listing, cur, late, stop, staged, channel, svxlink, lines, clock, fuel, history>>

GuardPasses ==
    /\ busy = "recent"
    /\ busy' = "past"
    /\ UNCHANGED <<spool, service, openRx, txOn, svxlink, lines, clock, fuel, history>>

DeadlinePasses ==
    /\ pc \in {"idle", "key", "air", "off"} /\ ~late
    /\ late' = TRUE
    /\ UNCHANGED <<spool, pc, listing, seen, cur, stop, staged, channel, svxlink, lines, clock, fuel, history>>

Second ==
    /\ Spend("second")
    /\ clock' = clock + 1
    /\ UNCHANGED <<spool, service, channel, svxlink, lines, history>>

Terminate ==
    /\ Spend("stop")
    /\ pc # "down" /\ ~stop
    /\ stop' = TRUE
    /\ UNCHANGED <<spool, pc, listing, seen, cur, late, staged, channel, svxlink, lines, clock, history>>

\* The process is gone at once; its copy in staging/ stays.
Kill ==
    /\ Spend("kill")
    /\ pc # "down"
    /\ pc' = "down" /\ cur' = None
    /\ cut' = IF cur # None /\ plays[cur] > cut[cur] THEN [cut EXCEPT ![cur] = @ + 1] ELSE cut
    /\ UNCHANGED <<spool, listing, seen, late, stop, staged, channel, svxlink, lines, clock,
                   plays, partial, blind>>

-----------------------------------------------------------------------------
(* SvxLink and the other users of the channel.                               *)

\* A line about the transmitter, if it changed.
LogTx(on) == txLine' = IF on # Keyed THEN on ELSE txLine

Squelch ==
    /\ Spend("squelch")
    /\ rx' = ~rx /\ rxLine' = ~rx
    /\ UNCHANGED <<spool, service, channel, svx, ident, pending, playing, txLine, clock, history>>

\* The next clip starts, if its file is still there.
PlayNext ==
    /\ svx /\ ~ident /\ playing = None /\ pending # <<>>
    /\ pending' = Tail(pending)
    /\ IF Head(pending) \in staged
       THEN playing' = Head(pending) /\ LogTx(TRUE)
       ELSE UNCHANGED <<playing, txLine>>
    /\ UNCHANGED <<spool, service, channel, svx, rx, ident, rxLine, clock, fuel, history>>

PlayEnds ==
    /\ playing # None
    /\ playing' = None /\ LogTx(FALSE)
    /\ UNCHANGED <<spool, service, channel, svx, rx, ident, pending, rxLine, clock, fuel, history>>

Ident ==
    /\ svx /\ playing = None
    /\ \/ ~ident /\ Spend("ident")
       \/ ident /\ UNCHANGED fuel
    /\ ident' = ~ident /\ LogTx(~ident)
    /\ UNCHANGED <<spool, service, channel, svx, rx, pending, playing, rxLine, clock, history>>

\* logrotate: the service reopens the log at its end and misses what it had not read.
Rotate ==
    /\ Spend("rotate")
    /\ rxLine' = None /\ txLine' = None
    /\ blind' = (blind \/ rxLine # None \/ txLine # None)
    /\ UNCHANGED <<spool, service, channel, svxlink, clock, plays, partial, cut>>

\* SvxLink goes down, which systemd (BindsTo) passes on to the service, and comes back.
SvxDown ==
    /\ Spend("down")
    /\ svx
    /\ svx' = FALSE /\ ident' = FALSE /\ pending' = <<>> /\ playing' = None
    /\ stop' = (pc # "down" \/ stop)
    /\ blind' = (blind \/ Keyed)
    /\ UNCHANGED <<spool, pc, listing, seen, cur, late, staged, channel, rx, lines, clock, plays, partial, cut>>

SvxUp ==
    /\ ~svx
    /\ svx' = TRUE
    /\ UNCHANGED <<spool, service, channel, rx, ident, pending, playing, lines, clock, fuel, history>>

-----------------------------------------------------------------------------
Service == \/ Start \/ ScanFile \/ ScanEnd \/ TakeNext \/ ProcessEnd \/ Stage \/ AwaitIdle
           \/ StopWaiting \/ Write \/ AwaitKey \/ AwaitOff \/ File

Time == \/ GuardPasses \/ DeadlinePasses
        \/ \E c \in Clips : FinishWriting(c) \/ Settle(c)

SvxLink == PlayNext \/ PlayEnds \/ Ident \/ SvxUp

Next == \/ Service \/ Time \/ SvxLink
        \/ \E c \in Clips : Drop(c)
        \/ Second \/ Terminate \/ Kill \/ Squelch \/ Rotate \/ SvxDown

Spec == Init /\ [][Next]_vars

\* The service is started again (systemd after a kill, the operator after a stop) and runs on, producers finish, time passes, SvxLink is
\* restarted; whether it plays anything, and whether the channel is ever free, is open.
FairSpec == /\ Spec
            /\ WF_vars(Service)
            /\ WF_vars(DeadlinePasses) /\ WF_vars(SvxUp)
            /\ \A c \in Clips : WF_vars(FinishWriting(c)) /\ WF_vars(Settle(c))

-----------------------------------------------------------------------------
(* Properties.                                                               *)

\* A clip is handed to SvxLink once.  The only repeats are commands whose outcome a stop
\* before the transmitter keyed, or a kill before the file was moved, left open.
PlayedOnce == \A c \in Clips : plays[c] <= 1 + cut[c]

\* No clip is lost or cut on its way through the spool, whatever is dropped, stopped or
\* killed meanwhile: what is staged had stopped growing, and a clip is replaced only by one
\* with the same name in queue/, the same sanitized name moved there in the same second.
ClipsSurvive ==
    /\ partial = {}
    /\ \A c \in In("replaced") :
         \E d \in Clips \ {c} : Safe[d] = Safe[c] /\ stamp[d] = stamp[c]

\* A clip is never started over another one or an ident that was on the air when the wait
\* for the channel ended, unless the wait timed out or log lines were missed.
IdleMeansIdle ==
    [][pc = "idle" /\ pc' = "write" /\ ~late /\ ~blind => ~Keyed /\ ~rx]_vars

\* Every clip dropped leaves the spool in the end: sent, failed, or replaced by a
\* namesake, however busy the channel is and however often SvxLink fails it.
EveryClipIsFiled ==
    \A c \in Clips : place[c] = "incoming" ~> place[c] \in {"sent", "failed", "replaced"}
=============================================================================
