------------------------------ MODULE TxMonitor ------------------------------
(***************************************************************************)
(* The "ON AIR" indicator: a thread of the beacon follows SvxLink's log    *)
(* (beacon/tx_monitor.py) and records the transmitter's state in the table *)
(* beacon_status, one commit per key; the ui decides from the table what   *)
(* it shows (ui/routers/beacon.py _status_context).                        *)
(*                                                                         *)
(* Clocks are kept as ages that stop at the largest value anyone compares  *)
(* them with.  The monitor's own steps take no time; a dead one lets time  *)
(* pass.                                                                   *)
(***************************************************************************)
EXTENDS Integers, Sequences, SequencesExt

CONSTANTS Heartbeat, Stale, RetryWait, MaxKeyed, KeyedStale,  \* in polls
          MaxLog,    \* log files in the life of the system
          MaxLines,  \* lines in one of them
          Weathers   \* bounds on what the world does: [tx, rotate, set, crash |-> n]

ASSUME Durations == /\ {Heartbeat, Stale, RetryWait, MaxKeyed, KeyedStale} \subseteq Nat
                    /\ 0 < Heartbeat /\ Heartbeat < Stale /\ MaxKeyed < KeyedStale /\ 0 < RetryWait
\* Every rotation may make a file.
ASSUME WeatherAssumption == /\ MaxLog \in Nat /\ MaxLines \in Nat
                            /\ Weathers \subseteq [{"tx", "rotate", "set", "crash"} -> Nat]
                            /\ \A w \in Weathers : w["rotate"] + 1 <= MaxLog

VARIABLES
    tx,        \* the transmitter
    log,       \* the log files, a function from their inodes to their lines
    path,      \* the inode at BEACON_SVXLINK_LOG_PATH, 0 if there is none
    writer,    \* the inode SvxLink writes to
    enabled, elsewhere,  \* BEACON_TX_MONITOR_ENABLED; the setting names a file that does not exist
    \* the thread
    pc, wait, tailPath, handle, active, keyed, keyedFor, sinceBeat,
    \* the table
    dbKeyed, keyedAge, beatAge,
    \* history: the lines of the file at `path` that a first open may skip and a dormant
    \* monitor forgets; the watchdog has spoken last; the row is an earlier thread's
    excused, forced, inherited,
    weather

files   == <<tx, log, path, writer>>
setting == <<enabled, elsewhere>>
thread  == <<pc, wait, tailPath, handle, active, keyed, keyedFor, sinceBeat>>
table   == <<dbKeyed, keyedAge, beatAge>>
history == <<excused, forced, inherited>>
monitorVars == <<files, setting, thread, table, history, weather>>

NoHandle == [id |-> 0, pos |-> 0]

MonitorTypeOK ==
    /\ tx \in BOOLEAN /\ log \in Seq(Seq(BOOLEAN)) /\ \A i \in DOMAIN log : Len(log[i]) <= MaxLines
    /\ path \in 0 .. MaxLog /\ writer \in 1 .. MaxLog /\ enabled \in BOOLEAN /\ elsewhere \in BOOLEAN
    /\ pc \in {"top", "lines", "stamp", "watch", "wait", "dead"} /\ wait \in 0 .. RetryWait
    /\ tailPath \in {"", "log", "other"} /\ handle \in [id : 0 .. MaxLog, pos : 0 .. MaxLines]
    /\ active \in BOOLEAN /\ keyed \in BOOLEAN /\ keyedFor \in 0 .. MaxKeyed + 1
    /\ sinceBeat \in 0 .. Heartbeat /\ dbKeyed \in BOOLEAN
    /\ keyedAge \in 0 .. KeyedStale /\ beatAge \in 0 .. Stale
    /\ excused \in 0 .. MaxLines /\ forced \in BOOLEAN /\ inherited \in BOOLEAN
    /\ weather \in [{"tx", "rotate", "set", "crash"} -> Nat]

MonitorFrom(at, age) ==
    /\ tx = FALSE /\ log = <<<<>>>> /\ path = 1 /\ writer = 1 /\ enabled = TRUE /\ elsewhere = FALSE
    /\ pc = at /\ wait = 0 /\ tailPath = "" /\ handle = NoHandle /\ active = FALSE /\ keyed = FALSE
    /\ keyedFor = age /\ sinceBeat = Heartbeat
    /\ dbKeyed = FALSE /\ keyedAge = KeyedStale /\ beatAge = Stale
    /\ excused = 0 /\ forced = FALSE /\ inherited = FALSE /\ weather \in Weathers
MonitorInit == MonitorFrom("top", 0)

Spent(what) == weather[what] > 0 /\ weather' = [weather EXCEPT ![what] = @ - 1]

\* _is_fresh, and what the dashboard shows.
MonitorActive == beatAge < Stale
OnAirUntimed == MonitorActive /\ dbKeyed    \* a mutant: the row is trusted
OnAir == MonitorActive /\ dbKeyed /\ keyedAge < KeyedStale

-----------------------------------------------------------------------------
\* Where a file is read from: its end, or its beginning if it replaces one that was open.
StartAtEnd(rotated) == Len(log[path])    \* a mutant
StartAt(rotated)    == IF rotated THEN 0 ELSE Len(log[path])

\* _record_keyed(False), and what else a dormant monitor forgets.
Rest(k) == IF k THEN dbKeyed' = FALSE /\ inherited' = FALSE ELSE UNCHANGED <<dbKeyed, inherited>>

\* The settings, then ensure_open on the file of that path: a new path lets the old file
\* go, a disabled monitor keeps it, a file that is gone or replaced closes it.
Top ==
    LET name  == IF elsewhere THEN "other" ELSE "log"
        kept  == IF name = tailPath THEN handle ELSE NoHandle
        there == ~elsewhere /\ path # 0
        ready == enabled /\ there
        open  == IF kept.id = path THEN kept ELSE [id |-> path, pos |-> StartAt(kept # NoHandle)]
    IN  /\ pc = "top" /\ tailPath' = name
        /\ handle' = CASE ready -> open [] enabled /\ ~there -> NoHandle [] OTHER -> kept
        /\ excused' = CASE ready /\ kept = NoHandle -> Len(log[path])
                        [] ~ready /\ path # 0 /\ kept.id = path -> kept.pos
                        [] OTHER -> excused
        /\ IF ready
           THEN /\ active' = TRUE /\ pc' = "lines" /\ UNCHANGED <<keyed, dbKeyed, inherited, wait>>
           ELSE /\ Rest(keyed) /\ active' = FALSE /\ keyed' = FALSE /\ pc' = "wait" /\ wait' = RetryWait
        /\ UNCHANGED <<files, setting, keyedFor, sinceBeat, keyedAge, beatAge, forced, weather>>

Unread == handle.pos < Len(log[handle.id])

\* A line with a change: tx_keyed is written, and after it its time.
ReadLine ==
    LET want == log[handle.id][handle.pos + 1]
    IN  /\ pc = "lines" /\ Unread /\ handle' = [handle EXCEPT !.pos = @ + 1] /\ forced' = FALSE
        /\ IF want # keyed
           THEN /\ keyed' = want /\ keyedFor' = 0 /\ dbKeyed' = want /\ inherited' = FALSE
                /\ pc' = IF want THEN "stamp" ELSE "lines"
           ELSE UNCHANGED <<keyed, keyedFor, dbKeyed, inherited, pc>>
        /\ UNCHANGED <<files, setting, wait, tailPath, active, sinceBeat, keyedAge, beatAge, excused, weather>>

Stamp == /\ pc = "stamp" /\ keyedAge' = 0 /\ pc' = "lines"
         /\ UNCHANGED <<files, setting, wait, tailPath, handle, active, keyed, keyedFor, sinceBeat, dbKeyed,
                        beatAge, history, weather>>

LinesEnd == /\ pc = "lines" /\ ~Unread /\ pc' = "watch"
            /\ UNCHANGED <<files, setting, wait, tailPath, handle, active, keyed, keyedFor, sinceBeat, table,
                           history, weather>>

\* The watchdog and the heartbeat.
Watch ==
    LET stuck == keyed /\ keyedFor > MaxKeyed
        beat  == sinceBeat >= Heartbeat
    IN  /\ pc = "watch" /\ pc' = "wait" /\ wait' = 1
        /\ keyed' = (keyed /\ ~stuck) /\ Rest(stuck) /\ forced' = (forced \/ stuck)
        /\ sinceBeat' = (IF beat THEN 0 ELSE sinceBeat) /\ beatAge' = (IF beat THEN 0 ELSE beatAge)
        /\ UNCHANGED <<files, setting, tailPath, handle, active, keyedFor, keyedAge, excused, weather>>

-----------------------------------------------------------------------------
(* The world. *)

Older(age, limit) == IF age < limit THEN age + 1 ELSE age

Tick ==
    /\ pc \in {"wait", "dead"}
    /\ wait' = (IF wait = 0 THEN 0 ELSE wait - 1)
    /\ pc' = IF pc = "wait" /\ wait <= 1 THEN "top" ELSE pc
    /\ keyedFor' = Older(keyedFor, MaxKeyed + 1) /\ sinceBeat' = Older(sinceBeat, Heartbeat)
    /\ keyedAge' = Older(keyedAge, KeyedStale) /\ beatAge' = Older(beatAge, Stale)
    /\ UNCHANGED <<files, setting, tailPath, handle, active, keyed, dbKeyed, history, weather>>

Written(on) == IF Len(log[writer]) < MaxLines THEN log' = [log EXCEPT ![writer] = Append(@, on)]
               ELSE UNCHANGED log

\* The transmitter keys or unkeys and SvxLink logs it, or dies without a word.
Turn == /\ Spent("tx") /\ tx' = ~tx /\ Len(log[writer]) < MaxLines /\ Written(~tx)
        /\ UNCHANGED <<path, writer, setting, thread, table, history>>
Silence == /\ tx /\ Spent("crash") /\ tx' = FALSE
           /\ UNCHANGED <<log, path, writer, setting, thread, table, history>>

\* logrotate renames the file, leaves none or an empty one, and SvxLink reopens the path.
\* A monitor that sees the path without a file starts over.
NewLog == Len(log) + 1
Rotate(new) ==
    /\ Spent("rotate") /\ path = writer /\ path' = new /\ excused' = 0
    /\ log' = IF new = 0 THEN log ELSE Append(log, <<>>)
    /\ UNCHANGED <<tx, writer, setting, thread, table, forced, inherited>>
Reopen ==
    /\ path # writer
    /\ IF path = 0 THEN log' = Append(log, <<>>) /\ path' = NewLog ELSE UNCHANGED <<log, path>>
    /\ writer' = path'
    /\ UNCHANGED <<tx, setting, thread, table, history, weather>>

Set(e, o) == /\ <<e, o>> # setting /\ Spent("set") /\ enabled' = e /\ elsewhere' = o
             /\ UNCHANGED <<files, thread, table, history>>

\* The thread ends with its process, or by itself: a locked database is not caught.
Die == /\ pc # "dead" /\ Spent("crash") /\ pc' = "dead" /\ wait' = 0 /\ handle' = NoHandle
       /\ UNCHANGED <<files, setting, tailPath, active, keyed, keyedFor, sinceBeat, table, history>>
Revive == /\ pc = "dead" /\ pc' = "top" /\ wait' = 0 /\ tailPath' = "" /\ handle' = NoHandle /\ active' = FALSE
          /\ keyed' = FALSE /\ keyedFor' = 0 /\ sinceBeat' = Heartbeat /\ inherited' = TRUE /\ forced' = FALSE
          /\ UNCHANGED <<files, setting, table, excused, weather>>

MonitorNext ==
    \/ Top \/ ReadLine \/ Stamp \/ LinesEnd \/ Watch
    \/ Tick \/ Turn \/ Silence \/ Reopen \/ Die \/ Revive
    \/ (\E new \in {0, NewLog} : Rotate(new)) \/ (\E e, o \in BOOLEAN : Set(e, o))

\* Time passes, and a thread that is alive runs.
MonitorFairness ==
    WF_monitorVars(Tick) /\ WF_monitorVars(Top \/ ReadLine \/ Stamp \/ LinesEnd \/ Watch)

MonitorSpec == MonitorInit /\ [][MonitorNext]_monitorVars /\ MonitorFairness

-----------------------------------------------------------------------------
\* A monitor that has read the file to its end shows what its last line says, across
\* rotations, a switch off and on and a new path: unless the watchdog spoke after it, the
\* row is an earlier thread's, or the line is one that a first open may skip.
CaughtUp == pc = "wait" /\ enabled /\ ~elsewhere /\ handle.id = path /\ handle.id # 0
            /\ handle.pos = Len(log[path])
IndicatorFollowsLog ==
    CaughtUp /\ ~forced /\ ~inherited /\ Len(log[path]) > excused =>
        dbKeyed = Last(log[path]) /\ keyed = dbKeyed

\* The indicator cannot stay on for ever once the transmitter is silent, whatever was lost.
IndicatorGoesOut == <>[](~tx) => <>[](~OnAir)
=============================================================================
