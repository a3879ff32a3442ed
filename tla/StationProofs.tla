--------------------------- MODULE StationProofs ---------------------------
(***************************************************************************)
(* What the dashboard shows and plays, for every number of tabs, pumps,    *)
(* log files and units: the indicator follows the log (TxMonitor), the     *)
(* live audio keeps one upstream and strands no listener (StreamHub), and  *)
(* the clips are what went out (Clips).                                    *)
(***************************************************************************)
EXTENDS Station, SequenceTheorems, WellFoundedInduction, TLAPS

-----------------------------------------------------------------------------
(* The indicator.  The type of the monitor, in named parts.                *)

FilesOK  == /\ tx \in BOOLEAN /\ log \in Seq(Seq(BOOLEAN)) /\ \A i \in DOMAIN log : Len(log[i]) <= MaxLines
            /\ path \in 0 .. MaxLog /\ writer \in 1 .. MaxLog
            /\ weather \in [{"tx", "rotate", "set", "crash"} -> Nat]
SwitchOK == enabled \in BOOLEAN /\ elsewhere \in BOOLEAN /\ tailPath \in {"", "log", "other"} /\ active \in BOOLEAN
PaceOK   == /\ pc \in {"top", "lines", "stamp", "watch", "wait", "dead"} /\ wait \in 0 .. RetryWait
            /\ keyedFor \in 0 .. MaxKeyed + 1 /\ sinceBeat \in 0 .. Heartbeat
            /\ keyedAge \in 0 .. KeyedStale /\ beatAge \in 0 .. Stale
ShownOK  == /\ handle \in [id : 0 .. MaxLog, pos : 0 .. MaxLines] /\ keyed \in BOOLEAN /\ dbKeyed \in BOOLEAN
            /\ excused \in 0 .. MaxLines /\ forced \in BOOLEAN /\ inherited \in BOOLEAN

LEMMA MonitorTypeParts == MonitorTypeOK <=> FilesOK /\ SwitchOK /\ PaceOK /\ ShownOK
BY DEF MonitorTypeOK, FilesOK, SwitchOK, PaceOK, ShownOK

\* Every inode in use is a file's, and rotations leave room for the files they make.
InodesOK == /\ Len(log) + (IF path = 0 THEN 1 ELSE 0) + weather["rotate"] <= MaxLog
            /\ writer \in DOMAIN log /\ (path # 0 => path \in DOMAIN log)
\* The open handle is a file's, no further than its end.
HandleOK == /\ handle.id = 0 => handle.pos = 0
            /\ handle.id # 0 => handle.id \in DOMAIN log /\ handle.pos <= Len(log[handle.id])
            /\ pc \in {"lines", "stamp", "watch"} => handle.id # 0
\* The row says what the thread believes, and the thread what the last line it read says.
RowOK    == ~inherited => dbKeyed = keyed
LineOK   == path # 0 /\ handle.id = path /\ handle.pos > excused /\ ~forced => keyed = log[path][handle.pos]

MonitorInv == MonitorTypeOK /\ InodesOK /\ HandleOK /\ RowOK /\ LineOK

\* The log's files only grow or become more: what has been read of them stays.
Grown == /\ log' \in Seq(Seq(BOOLEAN)) /\ \A i \in DOMAIN log' : Len(log'[i]) <= MaxLines
         /\ \A i \in DOMAIN log : /\ i \in DOMAIN log' /\ Len(log[i]) <= Len(log'[i])
                                  /\ \A k \in 1 .. Len(log[i]) : log'[i][k] = log[i][k]

LEMMA LogType ==
    ASSUME FilesOK, NEW i \in DOMAIN log
    PROVE  i \in 1 .. Len(log) /\ log[i] \in Seq(BOOLEAN) /\ Len(log[i]) \in Nat /\ Len(log[i]) <= MaxLines
BY DEF FilesOK

LEMMA WrittenGrows ==
    ASSUME FilesOK, InodesOK, NEW on \in BOOLEAN, Written(on) PROVE Grown /\ Len(log') = Len(log)
<1>1. log \in Seq(Seq(BOOLEAN)) /\ writer \in DOMAIN log /\ log[writer] \in Seq(BOOLEAN) /\ MaxLines \in Nat
    BY LogType, WeatherAssumption DEF FilesOK, InodesOK
<1>2. CASE log' = log
    <2>1. \A i \in DOMAIN log : Len(log[i]) \in Nat /\ Len(log[i]) <= MaxLines
        BY LogType
    <2> QED BY <1>1, <1>2, <2>1 DEF Grown
<1>3. CASE Len(log[writer]) < MaxLines /\ log' = [log EXCEPT ![writer] = Append(log[writer], on)]
    <2> DEFINE longer == Append(log[writer], on)
    <2>1. /\ longer \in Seq(BOOLEAN) /\ Len(longer) = Len(log[writer]) + 1
          /\ \A k \in 1 .. Len(log[writer]) : longer[k] = log[writer][k]
        BY <1>1, AppendProperties
    <2>2. log' = [log EXCEPT ![writer] = longer]
        BY <1>3
    <2> HIDE DEF longer
    <2>3. log' \in Seq(Seq(BOOLEAN)) /\ Len(log') = Len(log) /\ DOMAIN log' = DOMAIN log
          /\ \A i \in DOMAIN log : log'[i] = IF i = writer THEN longer ELSE log[i]
        BY <1>1, <2>1, <2>2, ExceptSeq
    <2>4. ASSUME NEW i \in DOMAIN log
          PROVE  /\ Len(log[i]) <= Len(log'[i]) /\ Len(log'[i]) <= MaxLines
                 /\ \A k \in 1 .. Len(log[i]) : log'[i][k] = log[i][k]
        <3>1. Len(log[i]) \in Nat /\ Len(log[i]) <= MaxLines /\ Len(log[writer]) \in Nat
            BY <1>1, LogType
        <3> QED BY <1>1, <1>3, <2>1, <2>3, <3>1
    <2> QED BY <2>3, <2>4 DEF Grown
<1> QED BY <1>2, <1>3 DEF Written

LEMMA NewFileGrows ==
    ASSUME FilesOK, log' = Append(log, <<>>) PROVE Grown /\ Len(log') = Len(log) + 1
<1>1. log \in Seq(Seq(BOOLEAN)) /\ <<>> \in Seq(BOOLEAN) /\ Len(<<>>) = 0 /\ MaxLines \in Nat
    BY WeatherAssumption DEF FilesOK
<1>2. /\ log' \in Seq(Seq(BOOLEAN)) /\ Len(log') = Len(log) + 1 /\ log'[Len(log) + 1] = <<>>
      /\ \A i \in 1 .. Len(log) : log'[i] = log[i]
    BY <1>1, AppendProperties
<1>3. DOMAIN log = 1 .. Len(log) /\ DOMAIN log' = 1 .. Len(log) + 1 /\ Len(log) \in Nat
    BY <1>1, <1>2
<1>4. \A i \in DOMAIN log : Len(log[i]) \in Nat /\ Len(log[i]) <= MaxLines
    BY LogType
<1> QED BY <1>1, <1>2, <1>3, <1>4 DEF Grown

LEMMA SpentType ==
    ASSUME weather \in [{"tx", "rotate", "set", "crash"} -> Nat],
           NEW what \in {"tx", "rotate", "set", "crash"}, Spent(what)
    PROVE  /\ weather' \in [{"tx", "rotate", "set", "crash"} -> Nat] /\ weather[what] > 0
           /\ weather'["rotate"] = IF what = "rotate" THEN weather["rotate"] - 1 ELSE weather["rotate"]
BY DEF Spent

LEMMA FilesStep == FilesOK /\ InodesOK /\ [MonitorNext]_monitorVars => FilesOK' /\ InodesOK'
<1> SUFFICES ASSUME FilesOK, InodesOK, [MonitorNext]_monitorVars PROVE FilesOK' /\ InodesOK'
    OBVIOUS
<1>1. /\ tx \in BOOLEAN /\ path \in 0 .. MaxLog /\ writer \in 1 .. MaxLog /\ Len(log) \in Nat
      /\ weather \in [{"tx", "rotate", "set", "crash"} -> Nat] /\ MaxLog \in Nat /\ DOMAIN log = 1 .. Len(log)
    BY WeatherAssumption DEF FilesOK
<1>2. /\ Len(log) + (IF path = 0 THEN 1 ELSE 0) + weather["rotate"] <= MaxLog
      /\ writer \in DOMAIN log /\ (path # 0 => path \in DOMAIN log) /\ weather["rotate"] \in Nat
    BY <1>1 DEF InodesOK
<1>3. CASE UNCHANGED <<files, weather>>
    BY <1>3 DEF files, FilesOK, InodesOK
<1>4. ASSUME Grown, Len(log') = Len(log), UNCHANGED <<path, writer>>, tx' \in BOOLEAN,
             NEW what \in {"tx", "set", "crash"}, Spent(what)
      PROVE  FilesOK' /\ InodesOK'
    <2>1. log' \in Seq(Seq(BOOLEAN)) /\ DOMAIN log' = DOMAIN log /\ \A i \in DOMAIN log' : Len(log'[i]) <= MaxLines
        BY <1>1, <1>4 DEF Grown
    <2>2. weather' \in [{"tx", "rotate", "set", "crash"} -> Nat] /\ weather'["rotate"] = weather["rotate"]
        BY <1>1, <1>4, SpentType
    <2> QED BY <1>1, <1>2, <1>4, <2>1, <2>2 DEF FilesOK, InodesOK
<1>5. log' = log => Grown /\ Len(log') = Len(log)
    <2>1. \A i \in DOMAIN log : Len(log[i]) \in Nat
        BY LogType
    <2> QED BY <1>1, <2>1 DEF Grown, FilesOK
<1>6. CASE Turn
    BY <1>1, <1>4, <1>6, WrittenGrows DEF Turn
<1>7. CASE Silence \/ Die \/ (\E e, o \in BOOLEAN : Set(e, o))
    <2>1. /\ UNCHANGED <<log, path, writer>> /\ tx' \in BOOLEAN
          /\ Spent("crash") \/ Spent("set")
        BY <1>1, <1>7 DEF Silence, Die, Set, files
    <2> QED BY <1>4, <1>5, <2>1
<1>8. ASSUME NEW new \in {0, NewLog}, Rotate(new) PROVE FilesOK' /\ InodesOK'
    <2>1. /\ Spent("rotate") /\ path = writer /\ path' = new /\ UNCHANGED <<tx, writer>>
          /\ new = 0 => log' = log
          /\ new # 0 => log' = Append(log, <<>>) /\ new = Len(log) + 1
        BY <1>8 DEF Rotate, NewLog
    <2>2. /\ weather' \in [{"tx", "rotate", "set", "crash"} -> Nat]
          /\ weather["rotate"] > 0 /\ weather'["rotate"] = weather["rotate"] - 1
        BY <1>1, <2>1, SpentType
    <2>3. /\ Grown /\ Len(log') \in Nat /\ DOMAIN log' = 1 .. Len(log')
          /\ Len(log') = IF new = 0 THEN Len(log) ELSE Len(log) + 1
        BY <1>1, <1>5, <2>1, NewFileGrows DEF Grown
    <2>4. path # 0
        BY <1>1, <2>1
    <2>5. InodesOK'
        <3>1. path' = new /\ (new = 0 \/ new = Len(log) + 1) /\ writer' = writer
            BY <2>1 DEF NewLog
        <3>2. writer' \in DOMAIN log' /\ (path' # 0 => path' \in DOMAIN log')
            BY <1>1, <1>2, <2>3, <3>1
        <3>3. Len(log') + (IF path' = 0 THEN 1 ELSE 0) = Len(log) + 1
            BY <1>1, <2>3, <3>1
        <3>4. Len(log) + weather["rotate"] <= MaxLog
            BY <1>2, <2>4
        <3>5. Len(log') + (IF path' = 0 THEN 1 ELSE 0) + weather'["rotate"] <= MaxLog
            BY <1>1, <1>2, <2>2, <3>3, <3>4
        <3> QED BY <3>2, <3>5 DEF InodesOK
    <2>6. path' \in 0 .. MaxLog
        BY <1>1, <1>2, <2>1, <2>2, <2>4
    <2> QED BY <1>1, <2>1, <2>2, <2>3, <2>5, <2>6 DEF FilesOK, Grown
<1>9. CASE Reopen
    <2>1. /\ UNCHANGED <<tx, weather>> /\ writer' = path'
          /\ path = 0 => log' = Append(log, <<>>) /\ path' = Len(log) + 1
          /\ path # 0 => log' = log /\ path' = path
        BY <1>9 DEF Reopen, NewLog
    <2>2. /\ Grown /\ Len(log') \in Nat /\ DOMAIN log' = 1 .. Len(log')
          /\ Len(log') = IF path = 0 THEN Len(log) + 1 ELSE Len(log)
        BY <1>1, <1>5, <2>1, NewFileGrows DEF Grown
    <2>3. path' \in 1 .. MaxLog /\ path' \in DOMAIN log'
        BY <1>1, <1>2, <2>1, <2>2
    <2>4. Len(log') + (IF path' = 0 THEN 1 ELSE 0) + weather'["rotate"] <= MaxLog
        <3>1. weather' = weather /\ path' # 0 /\ weather["rotate"] \in Nat
            BY <1>1, <1>2, <2>1, <2>3
        <3>2. CASE path = 0
            BY <1>1, <1>2, <2>2, <3>1, <3>2
        <3>3. CASE path # 0
            BY <1>1, <1>2, <2>2, <3>1, <3>3
        <3> QED BY <3>2, <3>3
    <2>5. InodesOK'
        BY <2>1, <2>3, <2>4 DEF InodesOK
    <2> QED BY <1>1, <2>1, <2>2, <2>3, <2>5 DEF FilesOK, Grown
<1>10. CASE Top \/ ReadLine \/ Stamp \/ LinesEnd \/ Watch \/ Tick \/ Revive
    BY <1>3, <1>10 DEF Top, ReadLine, Stamp, LinesEnd, Watch, Tick, Revive
<1>11. CASE UNCHANGED monitorVars
    BY <1>3, <1>11 DEF monitorVars
<1> QED BY <1>6, <1>7, <1>8, <1>9, <1>10, <1>11 DEF MonitorNext

LEMMA SwitchStep == SwitchOK /\ [MonitorNext]_monitorVars => SwitchOK'
BY DEF SwitchOK, MonitorNext, monitorVars, files, setting, thread, table, history, Top, ReadLine, Stamp, LinesEnd,
       Watch, Tick, Turn, Silence, Reopen, Die, Revive, Rotate, Set

LEMMA DurationTypes ==
    /\ Heartbeat \in Nat \ {0} /\ Stale \in Nat /\ RetryWait \in Nat \ {0} /\ MaxKeyed \in Nat /\ KeyedStale \in Nat
    /\ Heartbeat < Stale /\ MaxKeyed < KeyedStale
BY Durations

LEMMA PaceStep == PaceOK /\ [MonitorNext]_monitorVars => PaceOK'
<1> SUFFICES ASSUME PaceOK, [MonitorNext]_monitorVars PROVE PaceOK'
    OBVIOUS
<1>1. CASE UNCHANGED <<pc, wait, keyedFor, sinceBeat, keyedAge, beatAge>>
    BY <1>1 DEF PaceOK
<1>2. CASE Turn \/ Silence \/ Reopen \/ (\E new \in {0, NewLog} : Rotate(new)) \/ (\E e, o \in BOOLEAN : Set(e, o))
    BY <1>1, <1>2 DEF Turn, Silence, Reopen, Rotate, Set, files, thread, table
<1>3. CASE Top
    BY <1>3, DurationTypes DEF Top, PaceOK
<1>4. CASE ReadLine
    BY <1>4, DurationTypes DEF ReadLine, PaceOK
<1>5. CASE Stamp \/ LinesEnd
    BY <1>5, DurationTypes DEF Stamp, LinesEnd, PaceOK, table
<1>6. CASE Watch
    BY <1>6, DurationTypes DEF Watch, PaceOK
<1>7. CASE Tick
    BY <1>7, DurationTypes DEF Tick, Older, PaceOK
<1>8. CASE Die
    BY <1>8, DurationTypes DEF Die, PaceOK, table
<1>9. CASE Revive
    <2>1. UNCHANGED <<keyedAge, beatAge>>
        BY <1>9 DEF Revive, table
    <2>2. pc' = "top" /\ wait' = 0 /\ keyedFor' = 0 /\ sinceBeat' = Heartbeat
        BY <1>9 DEF Revive
    <2> QED BY <2>1, <2>2, DurationTypes DEF PaceOK
<1>10. CASE UNCHANGED monitorVars
    BY <1>1, <1>10 DEF monitorVars, thread, table
<1> QED BY <1>2, <1>3, <1>4, <1>5, <1>6, <1>7, <1>8, <1>9, <1>10 DEF MonitorNext

LEMMA NoHandleType ==
    NoHandle \in [id : 0 .. MaxLog, pos : 0 .. MaxLines] /\ NoHandle.id = 0 /\ NoHandle.pos = 0
<1>1. 0 \in 0 .. MaxLog /\ 0 \in 0 .. MaxLines
    BY WeatherAssumption
<1> QED BY <1>1 DEF NoHandle

\* What the monitor opens and shows: each action of the thread, and what the others leave.
LEMMA TopShows ==
    ASSUME MonitorInv, Top PROVE ShownOK' /\ HandleOK' /\ RowOK' /\ LineOK'
<1> DEFINE there == ~elsewhere /\ path # 0
           ready == enabled /\ there
           kept  == IF (IF elsewhere THEN "other" ELSE "log") = tailPath THEN handle ELSE NoHandle
           size  == Len(log[path])
<1>1. /\ handle \in [id : 0 .. MaxLog, pos : 0 .. MaxLines] /\ keyed \in BOOLEAN /\ dbKeyed \in BOOLEAN
      /\ excused \in 0 .. MaxLines /\ path \in 0 .. MaxLog
      /\ MaxLog \in Nat /\ MaxLines \in Nat /\ enabled \in BOOLEAN /\ elsewhere \in BOOLEAN /\ forced \in BOOLEAN
    BY MonitorTypeParts, WeatherAssumption DEF MonitorInv, ShownOK, FilesOK, SwitchOK
<1>2. path # 0 => path \in DOMAIN log /\ size \in 0 .. MaxLines
    BY <1>1, LogType, MonitorTypeParts DEF MonitorInv, InodesOK
<1>3. /\ kept \in [id : 0 .. MaxLog, pos : 0 .. MaxLines] /\ (kept.id = 0 => kept = NoHandle)
      /\ (kept # NoHandle => kept = handle /\ handle.id \in DOMAIN log /\ handle.pos <= Len(log[handle.id]))
      /\ NoHandle.id = 0 /\ NoHandle.pos = 0 /\ (kept = handle \/ kept = NoHandle)
    BY <1>1 DEF MonitorInv, HandleOK, NoHandle
<1>4. /\ UNCHANGED <<log, path, forced>>
      /\ ready => /\ UNCHANGED <<keyed, dbKeyed, inherited>> /\ pc' = "lines"
                  /\ handle' = IF kept.id = path THEN kept
                               ELSE [id |-> path, pos |-> IF kept # NoHandle THEN 0 ELSE size]
      /\ ~ready => /\ Rest(keyed) /\ keyed' = FALSE /\ pc' = "wait"
                   /\ handle' = IF enabled /\ ~there THEN NoHandle ELSE kept
    BY DEF Top, files, StartAt
<1>5. excused' = CASE ready /\ kept = NoHandle -> size
                   [] ~ready /\ path # 0 /\ kept.id = path -> kept.pos
                   [] OTHER -> excused
    BY DEF Top
<1> HIDE DEF kept, size
<1>6. CASE ready
    <2>1. /\ path # 0 /\ path \in DOMAIN log /\ size \in 0 .. MaxLines
          /\ UNCHANGED <<keyed, dbKeyed, inherited, forced, log, path>> /\ pc' = "lines"
        BY <1>2, <1>4, <1>6
    <2>2. \/ handle' = [id |-> path, pos |-> size] /\ excused' = size
          \/ handle' = handle /\ handle.id = path /\ excused' = excused /\ handle.pos <= Len(log[path])
          \/ handle' = [id |-> path, pos |-> 0] /\ excused' = excused
        <3>1. CASE kept = NoHandle
            BY <1>3, <1>4, <1>5, <1>6, <2>1, <3>1
        <3>2. CASE kept # NoHandle /\ kept.id = path
            BY <1>3, <1>4, <1>5, <1>6, <3>2
        <3>3. CASE kept # NoHandle /\ kept.id # path
            BY <1>3, <1>4, <1>5, <1>6, <3>3
        <3> QED BY <3>1, <3>2, <3>3
    <2>3. /\ handle' \in [id : 0 .. MaxLog, pos : 0 .. MaxLines] /\ excused' \in 0 .. MaxLines
          /\ handle'.id = path /\ handle'.pos <= Len(log[path])
          /\ handle'.pos > excused' => handle' = handle /\ excused' = excused
        BY <1>1, <2>1, <2>2 DEF size
    <2>4. ShownOK'
        BY <1>1, <2>1, <2>3 DEF MonitorInv, MonitorTypeOK, ShownOK
    <2>5. HandleOK'
        BY <2>1, <2>3 DEF HandleOK
    <2>6. RowOK'
        BY <2>1 DEF MonitorInv, RowOK
    <2>7. LineOK'
        BY <2>1, <2>3 DEF MonitorInv, LineOK
    <2> QED BY <2>4, <2>5, <2>6, <2>7
<1>9. CASE ~ready
    <2>1. keyed' = FALSE /\ dbKeyed' \in BOOLEAN /\ inherited' \in BOOLEAN /\ (~inherited' => dbKeyed' = FALSE)
        BY <1>1, <1>4, <1>9 DEF Rest, MonitorInv, RowOK, MonitorTypeOK
    <2>2. handle' = NoHandle \/ (handle' = kept /\ kept = handle)
        BY <1>3, <1>4, <1>9
    <2>3. path # 0 /\ handle'.id = path => handle'.pos = excused'
        BY <1>3, <1>4, <1>5, <1>9
    <2>4. excused' \in 0 .. MaxLines
        BY <1>1, <1>3, <1>5, <1>9
    <2>5. ShownOK' /\ RowOK'
        <3>1. handle' \in [id : 0 .. MaxLog, pos : 0 .. MaxLines] /\ forced' \in BOOLEAN
            BY <1>1, <1>4, <2>2, NoHandleType
        <3> QED BY <2>1, <2>4, <3>1 DEF ShownOK, RowOK
    <2>6. HandleOK'
        BY <1>3, <1>4, <1>9, <2>2 DEF HandleOK, MonitorInv
    <2>7. LineOK'
        BY <1>1, <1>3, <1>4, <2>2, <2>3, <2>4 DEF LineOK
    <2> QED BY <2>5, <2>6, <2>7
<1> QED BY <1>6, <1>9

LEMMA ReadLineShows ==
    ASSUME MonitorInv, ReadLine PROVE ShownOK' /\ HandleOK' /\ RowOK' /\ LineOK'
<1> DEFINE id   == handle.id
           next == handle.pos + 1
           want == log[handle.id][handle.pos + 1]
<1>1. /\ handle \in [id : 0 .. MaxLog, pos : 0 .. MaxLines] /\ keyed \in BOOLEAN /\ dbKeyed \in BOOLEAN
      /\ excused \in 0 .. MaxLines /\ inherited \in BOOLEAN /\ FilesOK /\ MaxLines \in Nat
    BY MonitorTypeParts, WeatherAssumption DEF MonitorInv, ShownOK
<1>2. id \in DOMAIN log /\ pc = "lines" /\ handle.pos < Len(log[id])
    BY DEF MonitorInv, HandleOK, ReadLine, Unread
<1>3. /\ log[id] \in Seq(BOOLEAN) /\ Len(log[id]) \in Nat /\ Len(log[id]) <= MaxLines /\ 0 \notin DOMAIN log
      /\ DOMAIN log[id] = 1 .. Len(log[id])
    BY <1>1, <1>2, LogType
<1>4. next \in 1 .. Len(log[id]) /\ want \in BOOLEAN
    BY <1>1, <1>2, <1>3
<1>5. /\ handle' = [handle EXCEPT !.pos = next] /\ forced' = FALSE /\ UNCHANGED <<log, path, excused>>
      /\ pc' \in {"lines", "stamp"}
      /\ want # keyed => keyed' = want /\ dbKeyed' = want /\ inherited' = FALSE
      /\ want = keyed => UNCHANGED <<keyed, dbKeyed, inherited>>
    BY <1>2 DEF ReadLine, files
<1>6. handle'.id = id /\ handle'.pos = next /\ handle' \in [id : 0 .. MaxLog, pos : 0 .. MaxLines]
    BY <1>1, <1>3, <1>4, <1>5
<1> HIDE DEF id, next, want
<1>7. keyed' = want
    BY <1>5
<1>8. ShownOK'
    BY <1>1, <1>4, <1>5, <1>6 DEF ShownOK
<1>9. HandleOK'
    BY <1>2, <1>3, <1>4, <1>5, <1>6 DEF HandleOK
<1>10. RowOK'
    BY <1>5 DEF MonitorInv, RowOK
<1>11. LineOK'
    BY <1>5, <1>6, <1>7 DEF LineOK, want, id, next
<1> QED BY <1>8, <1>9, <1>10, <1>11

\* What the watchdog, the clock and a new thread do to what is shown.
LEMMA ThreadShows ==
    ASSUME MonitorInv, Stamp \/ LinesEnd \/ Watch \/ Tick \/ Die \/ Revive
    PROVE  ShownOK' /\ HandleOK' /\ RowOK' /\ LineOK'
<1>1. /\ handle \in [id : 0 .. MaxLog, pos : 0 .. MaxLines] /\ keyed \in BOOLEAN /\ dbKeyed \in BOOLEAN
      /\ excused \in 0 .. MaxLines /\ forced \in BOOLEAN /\ inherited \in BOOLEAN /\ MaxLog \in Nat /\ MaxLines \in Nat
    BY MonitorTypeParts, WeatherAssumption DEF MonitorInv, ShownOK
<1>2. UNCHANGED <<log, path, excused>>
    BY DEF Stamp, LinesEnd, Watch, Tick, Die, Revive, files, history
<1>3. CASE Stamp \/ LinesEnd \/ Tick
    <2>1. /\ UNCHANGED <<handle, keyed, dbKeyed, forced, inherited>>
          /\ pc' \in {"lines", "stamp", "watch"} => pc \in {"lines", "stamp", "watch"}
        BY <1>3 DEF Stamp, LinesEnd, Tick, history, table
    <2> QED BY <1>1, <1>2, <2>1 DEF MonitorInv, ShownOK, HandleOK, RowOK, LineOK
<1>4. CASE Watch
    <2> DEFINE stuck == keyed /\ keyedFor > MaxKeyed
    <2>1. /\ UNCHANGED handle /\ pc' = "wait" /\ (forced' <=> forced \/ stuck) /\ forced' \in BOOLEAN
          /\ keyed' \in BOOLEAN /\ (keyed' <=> keyed /\ ~stuck) /\ Rest(stuck)
        BY <1>1, <1>4 DEF Watch
    <2>2. dbKeyed' \in BOOLEAN /\ inherited' \in BOOLEAN
        BY <1>1, <2>1 DEF Rest
    <2>3. stuck => dbKeyed' = FALSE /\ keyed' = FALSE /\ forced'
        BY <2>1 DEF Rest
    <2>4. ~stuck => UNCHANGED <<dbKeyed, inherited, keyed, forced>>
        BY <1>1, <2>1 DEF Rest
    <2> HIDE DEF stuck
    <2>5. ShownOK'
        BY <1>1, <1>2, <2>1, <2>2 DEF ShownOK
    <2>6. HandleOK'
        BY <1>2, <2>1 DEF MonitorInv, HandleOK
    <2>7. RowOK' /\ LineOK'
        BY <1>2, <2>1, <2>3, <2>4 DEF MonitorInv, RowOK, LineOK
    <2> QED BY <2>5, <2>6, <2>7
<1>5. CASE Die \/ Revive
    <2>1. /\ handle' = NoHandle /\ NoHandle.id = 0 /\ NoHandle.pos = 0 /\ pc' \in {"dead", "top"}
          /\ NoHandle \in [id : 0 .. MaxLog, pos : 0 .. MaxLines]
        BY <1>5, NoHandleType DEF Die, Revive
    <2>2. /\ keyed' \in BOOLEAN /\ dbKeyed' = dbKeyed /\ forced' \in BOOLEAN /\ inherited' \in BOOLEAN
          /\ inherited' \/ (inherited' = inherited /\ keyed' = keyed)
        BY <1>1, <1>5 DEF Die, Revive, table, history
    <2>3. ShownOK'
        BY <1>1, <1>2, <2>1, <2>2 DEF ShownOK
    <2>4. HandleOK' /\ LineOK'
        BY <1>2, <2>1 DEF HandleOK, LineOK
    <2>5. RowOK'
        BY <1>1, <2>2 DEF MonitorInv, RowOK
    <2> QED BY <2>3, <2>4, <2>5
<1> QED BY <1>3, <1>4, <1>5

\* What SvxLink, logrotate and the operator do.
LEMMA WorldShows ==
    ASSUME MonitorInv,
           Turn \/ Silence \/ Reopen \/ (\E new \in {0, NewLog} : Rotate(new)) \/ (\E e, o \in BOOLEAN : Set(e, o))
    PROVE  ShownOK' /\ HandleOK' /\ RowOK' /\ LineOK'
<1>1. FilesOK /\ InodesOK /\ ShownOK
    BY MonitorTypeParts DEF MonitorInv
<1>2. UNCHANGED <<handle, pc, keyed, dbKeyed, forced, inherited>>
    BY DEF Turn, Silence, Reopen, Rotate, Set, thread, table, history
<1>3. Grown
    <2>1. CASE Turn
        BY <1>1, <2>1, WrittenGrows DEF Turn, FilesOK
    <2>2. CASE log' = log
        <3>1. \A i \in DOMAIN log : Len(log[i]) \in Nat
            BY <1>1, LogType
        <3> QED BY <1>1, <2>2, <3>1 DEF Grown, FilesOK
    <2>3. CASE log' = Append(log, <<>>)
        BY <1>1, <2>3, NewFileGrows
    <2> QED BY <2>1, <2>2, <2>3 DEF Silence, Reopen, Rotate, Set, files
<1>4. handle.id # 0 => /\ handle.id \in DOMAIN log /\ handle.id \in DOMAIN log' /\ handle.pos \in Nat
                       /\ handle.pos <= Len(log[handle.id]) /\ Len(log[handle.id]) \in Nat
                       /\ Len(log[handle.id]) <= Len(log'[handle.id]) /\ Len(log'[handle.id]) \in Nat
    BY <1>1, <1>3, LogType DEF MonitorInv, HandleOK, Grown, ShownOK
<1>5. \/ path' = path /\ excused' = excused
      \/ path' \notin DOMAIN log \cup {0} /\ excused' \in {excused, 0}
      \/ path' = 0 /\ excused' \in {excused, 0}
    <2>1. CASE Turn \/ Silence \/ \E e, o \in BOOLEAN : Set(e, o)
        BY <2>1 DEF Turn, Silence, Set, files, history
    <2>2. ASSUME NEW new \in {0, NewLog}, Rotate(new) PROVE path' \notin DOMAIN log \/ path' = 0
        BY <1>1, <2>2 DEF Rotate, NewLog, FilesOK
    <2>3. CASE Reopen
        BY <1>1, <2>3 DEF Reopen, NewLog, FilesOK, history
    <2> QED BY <2>1, <2>2, <2>3 DEF Rotate
<1>6. ShownOK'
    BY <1>1, <1>2, <1>5, WeatherAssumption DEF ShownOK
<1>7. HandleOK'
    BY <1>2, <1>4 DEF MonitorInv, HandleOK
<1>8. RowOK'
    BY <1>2 DEF MonitorInv, RowOK
<1>9. LineOK'
    <2> SUFFICES ASSUME path' # 0, handle.id = path', handle.pos > excused', ~forced
                 PROVE  keyed = log'[path'][handle.pos]
        BY <1>2 DEF LineOK
    <2>1. path' = path /\ excused' = excused
        BY <1>4, <1>5
    <2>2. handle.pos \in 1 .. Len(log[path]) /\ path \in DOMAIN log
        BY <1>1, <1>4, <2>1 DEF ShownOK
    <2>3. log'[path][handle.pos] = log[path][handle.pos]
        BY <1>3, <2>2 DEF Grown
    <2> QED BY <2>1, <2>3 DEF MonitorInv, LineOK
<1> QED BY <1>6, <1>7, <1>8, <1>9

LEMMA MonitorStart ==
    ASSUME NEW at \in {"top", "dead"}, NEW age \in 0 .. MaxKeyed + 1, MonitorFrom(at, age) PROVE MonitorInv
<1>1. log = <<<<>>>>
    BY DEF MonitorFrom
<1>2. path = 1 /\ writer = 1 /\ handle = NoHandle /\ excused = 0 /\ pc = at /\ weather \in Weathers
    BY DEF MonitorFrom
<1>3. ~tx /\ tx \in BOOLEAN /\ ~forced /\ forced \in BOOLEAN /\ inherited \in BOOLEAN
      /\ keyed \in BOOLEAN /\ dbKeyed \in BOOLEAN /\ dbKeyed = keyed
    BY DEF MonitorFrom
<1>4. /\ weather \in [{"tx", "rotate", "set", "crash"} -> Nat] /\ weather["rotate"] + 1 <= MaxLog
      /\ MaxLog \in Nat /\ MaxLines \in Nat /\ weather["rotate"] \in Nat
    BY <1>2, WeatherAssumption
<1>5. log \in Seq(Seq(BOOLEAN)) /\ Len(log) = 1 /\ DOMAIN log = {1} /\ \A i \in DOMAIN log : Len(log[i]) = 0
    BY <1>1
<1>6. FilesOK /\ InodesOK
    <2>1. Len(log) + (IF path = 0 THEN 1 ELSE 0) + weather["rotate"] <= MaxLog
        BY <1>2, <1>4, <1>5
    <2>2. path \in 0 .. MaxLog /\ writer \in 1 .. MaxLog
        BY <1>2, <1>4
    <2>3. FilesOK
        BY <1>3, <1>4, <1>5, <2>2 DEF FilesOK
    <2>4. InodesOK
        BY <1>2, <1>5, <2>1 DEF InodesOK
    <2> QED BY <2>3, <2>4
<1>7. ShownOK
    BY <1>2, <1>3, <1>4, NoHandleType DEF ShownOK
<1>8. HandleOK /\ RowOK /\ LineOK
    BY <1>2, <1>3, <1>4, NoHandleType DEF HandleOK, RowOK, LineOK
<1>9. SwitchOK /\ PaceOK
    <2>1. wait = 0 /\ keyedFor = age /\ sinceBeat = Heartbeat /\ keyedAge = KeyedStale /\ beatAge = Stale
        BY DEF MonitorFrom
    <2>2. SwitchOK
        BY DEF MonitorFrom, SwitchOK
    <2>3. PaceOK
        BY <1>2, <2>1, DurationTypes DEF PaceOK
    <2> QED BY <2>2, <2>3
<1> QED BY <1>6, <1>7, <1>8, <1>9, MonitorTypeParts DEF MonitorInv

LEMMA MonitorStarts == MonitorInit \/ IndicatorAtRest => MonitorInv
<1>1. 0 \in 0 .. MaxKeyed + 1 /\ MaxKeyed + 1 \in 0 .. MaxKeyed + 1
    BY DurationTypes
<1> QED BY <1>1, MonitorStart DEF MonitorInit, IndicatorAtRest

LEMMA MonitorStep == MonitorInv /\ [MonitorNext]_monitorVars => MonitorInv'
<1> SUFFICES ASSUME MonitorInv, [MonitorNext]_monitorVars PROVE MonitorInv'
    OBVIOUS
<1>1. FilesOK /\ InodesOK /\ SwitchOK /\ PaceOK /\ ShownOK
    BY MonitorTypeParts DEF MonitorInv
<1>2. FilesOK' /\ InodesOK' /\ SwitchOK' /\ PaceOK'
    BY <1>1, FilesStep, SwitchStep, PaceStep
<1>3. ShownOK' /\ HandleOK' /\ RowOK' /\ LineOK'
    <2>1. CASE UNCHANGED monitorVars
        <3>1. UNCHANGED <<log, path, pc, handle, keyed, dbKeyed, excused, forced, inherited>>
            BY <2>1 DEF monitorVars, files, thread, table, history
        <3>2. ShownOK' /\ HandleOK'
            BY <1>1, <3>1 DEF MonitorInv, ShownOK, HandleOK
        <3>3. RowOK' /\ LineOK'
            BY <3>1 DEF MonitorInv, RowOK, LineOK
        <3> QED BY <3>2, <3>3
    <2> QED BY <2>1, TopShows, ReadLineShows, ThreadShows, WorldShows DEF MonitorNext
<1>4. MonitorTypeOK'
    BY <1>2, <1>3 DEF MonitorTypeOK, FilesOK, SwitchOK, PaceOK, ShownOK
<1> QED BY <1>2, <1>3, <1>4 DEF MonitorInv

LEMMA MonitorTyped == MonitorInv => MonitorTypeOK
BY DEF MonitorInv

\* The monitor keeps its types: no handle past the end of a file that there is, no counter
\* or age past its limit, whatever the log, the settings and the process do.
THEOREM MonitorTypeCorrect == MonitorSpec => []MonitorTypeOK
BY MonitorTyped, MonitorStarts, MonitorStep, PTL DEF MonitorSpec

LEMMA MonitorFollows == MonitorInv => IndicatorFollowsLog
<1> SUFFICES ASSUME MonitorInv, CaughtUp, ~forced, ~inherited, Len(log[path]) > excused
             PROVE  dbKeyed = log[path][Len(log[path])] /\ keyed = dbKeyed
    BY DEF IndicatorFollowsLog, Last
<1>1. path # 0 /\ handle.id = path /\ handle.pos = Len(log[path])
    BY DEF CaughtUp
<1> QED BY <1>1 DEF MonitorInv, RowOK, LineOK

\* A monitor that has read the log to its end shows what its last line says, across
\* rotations, a switch off and on, a new path, crashes and restarts (tx_monitor.py run).
THEOREM LogIsFollowed == MonitorSpec => []IndicatorFollowsLog
BY MonitorFollows, MonitorStarts, MonitorStep, PTL DEF MonitorSpec

-----------------------------------------------------------------------------
(* The live audio.  The type of the hub, in named parts.                   *)

Connections(cs) == cs \in [Conns -> Request] /\ \A c \in Conns : Len(cs[c].queue) <= QueueMax
Tasks == [Slots -> {"done", "connecting", "streaming", "closing"}]
Hubs  == [url : Urls \cup {Nowhere}, listeners : SUBSET Conns, pump : Slots \cup {Nobody},
          reaper : {"none", "sleeping", "waiting"}]

\* At most one task runs: the hub's pump or, once it is cancelled, the one the lock's
\* holder awaits; and who listens has an open response.
OneRuns   == \A s \in Slots : task[s] # "done" => s = hub.pump \/ s = awaiting
Awaited   == awaiting # Nobody => hub.pump = Nobody /\ task[awaiting] \in {"closing", "done"}
Listening == \A c \in hub.listeners : conn[c].state = "open"

HubInv == HubTypeOK /\ OneRuns /\ Awaited /\ Listening /\ NobodyWaitsInVain

LEMMA HubTypeParts ==
    HubTypeOK <=> /\ url \in Urls \cup {Nowhere} /\ onAir \in BOOLEAN /\ hub \in Hubs
                  /\ line \in Seq(Conns \cup {Reaper}) /\ awaiting \in Slots \cup {Nobody}
                  /\ task \in Tasks /\ Connections(conn) /\ tab \in [Tabs -> Player]
BY DEF HubTypeOK, Hubs, Tasks, Connections

\* What a full queue gives up is its oldest item; the new one is always in it.
LEMMA OfferType ==
    ASSUME NEW q \in Seq({"chunk", "end"}), Len(q) <= QueueMax, NEW item \in {"chunk", "end"}
    PROVE  Offer(q, item) \in Seq({"chunk", "end"}) /\ Len(Offer(q, item)) <= QueueMax
           /\ item \in ToSet(Offer(q, item))
<1> DEFINE rest == IF Len(q) = QueueMax THEN Tail(q) ELSE q
<1>1. QueueMax \in Nat \ {0} /\ Len(q) \in Nat
    BY HubAssumption
<1>2. rest \in Seq({"chunk", "end"}) /\ Len(rest) < QueueMax
    BY <1>1, HeadTailProperties
<1>3. Offer(q, item) = Append(rest, item)
    BY DEF Offer
<1> HIDE DEF rest
<1>4. /\ Append(rest, item) \in Seq({"chunk", "end"}) /\ Len(Append(rest, item)) = Len(rest) + 1
      /\ Append(rest, item)[Len(rest) + 1] = item /\ Len(rest) \in Nat
    BY <1>2, AppendProperties
<1>5. Len(rest) + 1 \in DOMAIN Append(rest, item)
    BY <1>4
<1> QED BY <1>1, <1>2, <1>3, <1>4, <1>5 DEF ToSet

LEMMA BroadcastType ==
    ASSUME NEW cs, Connections(cs), NEW ls \in SUBSET Conns, NEW item \in {"chunk", "end"}
    PROVE  /\ Connections(Broadcast(cs, ls, item))
           /\ \A c \in ls : item \in ToSet(Broadcast(cs, ls, item)[c].queue)
           /\ \A c \in Conns : Broadcast(cs, ls, item)[c].state = cs[c].state
<1>1. ASSUME NEW c \in Conns
      PROVE  /\ Broadcast(cs, ls, item)[c] \in Request /\ Len(Broadcast(cs, ls, item)[c].queue) <= QueueMax
             /\ c \in ls => item \in ToSet(Broadcast(cs, ls, item)[c].queue)
             /\ Broadcast(cs, ls, item)[c].state = cs[c].state
    <2> DEFINE q == Offer(cs[c].queue, item)
    <2>1. cs[c] \in Request /\ Len(cs[c].queue) <= QueueMax /\ cs[c].queue \in Seq({"chunk", "end"})
        BY DEF Connections, Request
    <2>2. q \in Seq({"chunk", "end"}) /\ Len(q) <= QueueMax /\ item \in ToSet(q)
        BY <2>1, OfferType
    <2>3. Broadcast(cs, ls, item)[c] = IF c \in ls THEN [cs[c] EXCEPT !.queue = q] ELSE cs[c]
        BY DEF Broadcast
    <2> HIDE DEF q
    <2>4. /\ [cs[c] EXCEPT !.queue = q] \in Request /\ [cs[c] EXCEPT !.queue = q].queue = q
          /\ [cs[c] EXCEPT !.queue = q].state = cs[c].state
        BY <2>1, <2>2 DEF Request
    <2> QED BY <2>1, <2>2, <2>3, <2>4
<1>2. Broadcast(cs, ls, item) \in [Conns -> Request]
    BY <1>1 DEF Broadcast
<1> QED BY <1>1, <1>2 DEF Connections

LEMMA CutType ==
    ASSUME NEW cs, Connections(cs), NEW t
    PROVE  /\ Connections(Cut(cs, t))
           /\ \A c \in Conns : Cut(cs, t)[c].state = cs[c].state /\ Cut(cs, t)[c].queue = cs[c].queue
<1>1. ASSUME NEW c \in Conns
      PROVE  /\ Cut(cs, t)[c] \in Request /\ Cut(cs, t)[c].state = cs[c].state
             /\ Cut(cs, t)[c].queue = cs[c].queue
    <2>1. cs[c] \in Request
        BY DEF Connections
    <2>2. Cut(cs, t)[c] = IF cs[c].tab = t THEN [cs[c] EXCEPT !.cut = TRUE] ELSE cs[c]
        BY DEF Cut
    <2> QED BY <2>1, <2>2 DEF Request
<1>2. Cut(cs, t) \in [Conns -> Request]
    BY <1>1 DEF Cut
<1> QED BY <1>1, <1>2 DEF Connections

LEMMA IdleType == Idle \in Request /\ Len(Idle.queue) = 0 /\ Idle.state = "free"
<1>1. <<>> \in Seq({"chunk", "end"}) /\ Len(<<>>) = 0
    OBVIOUS
<1> QED BY <1>1 DEF Idle, Request

LEMMA LineType ==
    ASSUME NEW S, NEW q \in Seq(S), NEW e PROVE RemoveFirst(q, e) \in Seq(S)
<1> DEFINE found == {i \in 1 .. Len(q) : q[i] = e}
           k     == Min(found)
<1>1. CASE found = {}
    BY <1>1 DEF RemoveFirst
<1>2. CASE found # {}
    <2>1. found \subseteq Nat /\ found \subseteq 1 .. Len(q)
        OBVIOUS
    <2>2. k \in found
        <3>1. \E m \in found : \A n \in found : m <= n
            <4> DEFINE Below == {ss \in Nat \X Nat : ss[1] < ss[2]}
            <4>1. Below = OpToRel(<, Nat)
                BY Zenon DEF OpToRel
            <4>2. IsWellFoundedOn(Below, Nat)
                BY <4>1, NatLessThanWellFounded, Zenon
            <4> HIDE DEF Below, found
            <4>3. PICK m \in found : \A n \in found : ~(<<n, m>> \in Below)
                BY <1>2, <2>1, <4>2, WFMin
            <4>4. \A n \in found : ~(n < m)
                BY <2>1, <4>3 DEF Below
            <4> QED BY <2>1, <4>4
        <3> HIDE DEF found
        <3> QED BY <3>1 DEF Min
    <2>3. RemoveFirst(q, e) = SubSeq(q, 1, k - 1) \o SubSeq(q, k + 1, Len(q))
        BY <1>2 DEF RemoveFirst, RemoveAt, SelectInSeq
    <2>4. k \in 1 .. Len(q) /\ Len(q) \in Nat
        BY <2>1, <2>2
    <2> HIDE DEF k, found
    <2>5. SubSeq(q, 1, k - 1) \in Seq(S) /\ SubSeq(q, k + 1, Len(q)) \in Seq(S)
        BY <2>4, SubSeqProperties
    <2> QED BY <2>3, <2>5, ConcatProperties
<1> QED BY <1>1, <1>2

\* Where nothing is said about a listener's queue: its mark stays, or its pump does.
LEMMA WaitsOn ==
    ASSUME NobodyWaitsInVain, hub'.listeners \subseteq hub.listeners,
           \A c \in hub'.listeners : "end" \in ToSet(conn[c].queue) => "end" \in ToSet(conn'[c].queue),
           Running(hub.pump) => Running(hub.pump)' \/ awaiting' # Nobody,
           awaiting # Nobody => awaiting' # Nobody
    PROVE  NobodyWaitsInVain'
BY DEF NobodyWaitsInVain

\* The player: it opens and cuts connections, which are not yet or no longer listened on.
LEMMA PlayerStep ==
    ASSUME HubInv, NEW t \in Tabs, TxState(t) \/ PollFails(t) \/ Retry(t) \/ Quiet(t) PROVE HubInv'
<1>1. /\ onAir \in BOOLEAN /\ hub \in Hubs /\ Connections(conn) /\ tab \in [Tabs -> Player]
      /\ tab[t] \in Player
    BY HubTypeParts DEF HubInv
<1>2. UNCHANGED <<url, onAir, hub, line, awaiting, task>>
    BY DEF TxState, PollFails, Told, Retry, Quiet, server
<1>3. tab' \in [Tabs -> Player]
    <2>1. CASE TxState(t) \/ PollFails(t)
        <3>1. PICK answer \in BOOLEAN : tab' = [tab EXCEPT ![t] = [want |-> answer, playing |-> answer, timer |-> FALSE]]
            BY <1>1, <2>1 DEF TxState, PollFails, Told
        <3>2. [want |-> answer, playing |-> answer, timer |-> FALSE] \in Player
            BY DEF Player
        <3> QED BY <1>1, <3>1, <3>2
    <2>2. CASE Retry(t)
        <3>1. PICK playing \in BOOLEAN : tab' = [tab EXCEPT ![t].timer = FALSE, ![t].playing = playing]
            <4>1. tab' = [tab EXCEPT ![t].timer = FALSE, ![t].playing = TRUE] \/ tab' = [tab EXCEPT ![t].timer = FALSE]
                BY <2>2 DEF Retry
            <4>2. CASE tab' = [tab EXCEPT ![t].timer = FALSE]
                <5>1. tab' = [tab EXCEPT ![t].timer = FALSE, ![t].playing = tab[t].playing] /\ tab[t].playing \in BOOLEAN
                    BY <1>1, <4>2 DEF Player
                <5> QED BY <5>1
            <4> QED BY <4>1, <4>2
        <3>2. tab' = [tab EXCEPT ![t] = [tab[t] EXCEPT !.timer = FALSE, !.playing = playing]]
            BY <1>1, <3>1
        <3>3. [tab[t] EXCEPT !.timer = FALSE, !.playing = playing] \in Player
            BY <1>1 DEF Player
        <3> QED BY <1>1, <3>2, <3>3
    <2>3. CASE Quiet(t)
        <3>1. tab' = [tab EXCEPT ![t] = [tab[t] EXCEPT !.playing = FALSE, !.timer = FALSE]]
            BY <1>1, <2>3 DEF Quiet
        <3>2. [tab[t] EXCEPT !.playing = FALSE, !.timer = FALSE] \in Player
            BY <1>1 DEF Player
        <3> QED BY <1>1, <3>1, <3>2
    <2> QED BY <2>1, <2>2, <2>3
<1>4. conn' = conn \/ conn' = Cut(conn, t) \/ StartPlaying(t)
    BY <1>2 DEF TxState, PollFails, Told, Retry, Quiet
<1>5. /\ Connections(conn')
      /\ \A c \in hub.listeners : conn'[c].state = conn[c].state /\ conn'[c].queue = conn[c].queue
    <2>1. CASE conn' = conn \/ conn' = Cut(conn, t)
        BY <1>1, <2>1, CutType DEF Hubs
    <2>2. CASE StartPlaying(t)
        <3>1. PICK c \in Conns : conn[c].state = "free"
                                 /\ conn' = [Cut(conn, t) EXCEPT ![c] = [Idle EXCEPT !.state = "asking", !.tab = t]]
            BY <2>2 DEF StartPlaying
        <3> DEFINE fresh == [Idle EXCEPT !.state = "asking", !.tab = t]
        <3>2. fresh \in Request /\ Len(fresh.queue) = 0
            BY IdleType DEF Request
        <3> HIDE DEF fresh
        <3>3. c \notin hub.listeners /\ hub.listeners \subseteq Conns
            BY <1>1, <3>1 DEF HubInv, Listening, Hubs
        <3>4. Connections(Cut(conn, t)) /\ Cut(conn, t) \in [Conns -> Request] /\ QueueMax \in Nat
            BY <1>1, CutType, HubAssumption DEF Connections
        <3>5. \A d \in Conns : conn'[d] = IF d = c THEN fresh ELSE Cut(conn, t)[d]
            BY <3>1, <3>4 DEF fresh
        <3>6. Connections(conn')
            BY <3>1, <3>2, <3>4, <3>5 DEF Connections, fresh
        <3> QED BY <1>1, <3>3, <3>5, <3>6, CutType
    <2> QED BY <1>4, <2>1, <2>2
<1>6. HubTypeOK'
    BY <1>2, <1>3, <1>5, HubTypeParts DEF HubInv, HubTypeOK, Connections
<1>7. OneRuns' /\ Awaited' /\ Listening'
    BY <1>2, <1>5 DEF HubInv, OneRuns, Awaited, Listening
<1>8. NobodyWaitsInVain'
    BY <1>2, <1>5, WaitsOn DEF HubInv, Running
<1> QED BY <1>6, <1>7, <1>8 DEF HubInv

\* A response that ends takes its listener away and nothing else.
LEMMA UnsubscribeType ==
    ASSUME hub \in Hubs, NEW c
    PROVE  /\ Unsubscribe(hub, c) \in Hubs /\ Unsubscribe(hub, c).pump = hub.pump
           /\ Unsubscribe(hub, c).listeners = hub.listeners \ {c}
BY DEF Unsubscribe, Hubs

LEMMA DroppedType ==
    ASSUME tab \in [Tabs -> Player], NEW c PROVE Dropped(c) \in [Tabs -> Player]
<1>1. \A p \in Player : OnDrop(p) \in Player
    BY DEF OnDrop, Player
<1> QED BY <1>1 DEF Dropped

LEMMA RequestStep ==
    ASSUME HubInv, NEW c \in Conns, Ask(c) \/ Deliver(c) \/ Disconnect(c) PROVE HubInv'
<1>1. /\ url \in Urls \cup {Nowhere} /\ hub \in Hubs /\ line \in Seq(Conns \cup {Reaper}) /\ Connections(conn)
      /\ tab \in [Tabs -> Player] /\ conn \in [Conns -> Request] /\ conn[c] \in Request /\ QueueMax \in Nat
      /\ conn[c].queue \in Seq({"chunk", "end"}) /\ Len(conn[c].queue) \in Nat /\ Len(conn[c].queue) <= QueueMax
    BY HubTypeParts, HubAssumption DEF HubInv, Connections, Request
<1>2. UNCHANGED <<url, onAir, awaiting, task>>
    BY DEF Ask, Deliver, Disconnect
<1>3. tab' \in [Tabs -> Player]
    BY <1>1, DroppedType DEF Ask, Deliver, Disconnect
<1>4. line' \in Seq(Conns \cup {Reaper})
    <2>1. line' = line \/ line' = Append(line, c)
        BY DEF Ask, Deliver, Disconnect
    <2> QED BY <1>1, <2>1
<1>5. /\ hub' \in Hubs /\ hub'.pump = hub.pump /\ hub'.listeners \in {hub.listeners, hub.listeners \ {c}}
      /\ hub'.listeners \subseteq hub.listeners
    BY <1>1, UnsubscribeType DEF Ask, Deliver, Disconnect
<1> DEFINE Fits(r) == /\ r \in Request /\ Len(r.queue) <= QueueMax
                      /\ c \in hub'.listeners => /\ r.state = "open"
                                                 /\ "end" \in ToSet(conn[c].queue) => "end" \in ToSet(r.queue)
<1> HIDE DEF Fits
<1>6. PICK r : conn' = [conn EXCEPT ![c] = r] /\ Fits(r)
    <2>1. CASE Ask(c)
        <3>1. hub' = hub /\ c \notin hub.listeners
            BY <2>1 DEF Ask, HubInv, Listening
        <3>2. \/ conn' = [conn EXCEPT ![c] = Idle]
              \/ conn' = [conn EXCEPT ![c] = [conn[c] EXCEPT !.state = "queued", !.url = url]]
            BY <1>1, <2>1 DEF Ask
        <3> DEFINE r == [conn[c] EXCEPT !.state = "queued", !.url = url]
        <3>3. r \in Request /\ r.queue = conn[c].queue
            BY <1>1 DEF Request
        <3> HIDE DEF r
        <3>4. Fits(Idle) /\ Fits(r)
            BY <1>1, <3>1, <3>3, IdleType DEF Fits
        <3> QED BY <3>2, <3>4 DEF r
    <2>2. CASE conn' = [conn EXCEPT ![c] = Idle] /\ hub' = Unsubscribe(hub, c)
        <3>1. c \notin hub'.listeners
            BY <1>1, <2>2, UnsubscribeType
        <3>2. Fits(Idle)
            BY <1>1, <3>1, IdleType DEF Fits
        <3> QED BY <2>2, <3>2
    <2>3. CASE /\ conn[c].state = "open" /\ conn[c].queue # <<>> /\ Head(conn[c].queue) = "chunk"
               /\ conn' = [conn EXCEPT ![c].queue = Tail(@)]
        <3> DEFINE q == conn[c].queue
                   r == [conn[c] EXCEPT !.queue = Tail(q)]
        <3>1. /\ Tail(q) \in Seq({"chunk", "end"}) /\ Len(Tail(q)) = Len(q) - 1 /\ q[1] = "chunk"
              /\ \A i \in 1 .. Len(Tail(q)) : Tail(q)[i] = q[i + 1]
            BY <1>1, <2>3, HeadTailProperties
        <3>2. r \in Request /\ r.queue = Tail(q) /\ r.state = "open"
            BY <1>1, <2>3, <3>1 DEF Request
        <3>3. conn' = [conn EXCEPT ![c] = r]
            BY <1>1, <2>3
        <3>4. ASSUME "end" \in ToSet(q) PROVE "end" \in ToSet(Tail(q))
            <4>1. PICK i \in DOMAIN q : q[i] = "end"
                BY <3>4 DEF ToSet
            <4>2. i \in 1 .. Len(q) /\ i # 1 /\ DOMAIN Tail(q) = 1 .. Len(Tail(q))
                BY <1>1, <3>1, <4>1
            <4>3. i - 1 \in DOMAIN Tail(q) /\ Tail(q)[i - 1] = "end"
                BY <1>1, <3>1, <4>1, <4>2
            <4> QED BY <4>3 DEF ToSet
        <3> HIDE DEF r
        <3>5. Fits(r)
            BY <1>1, <3>1, <3>2, <3>4 DEF Fits
        <3> QED BY <3>3, <3>5
    <2> QED BY <2>1, <2>2, <2>3 DEF Deliver, Disconnect
<1>7. /\ Connections(conn')
      /\ \A d \in hub'.listeners : /\ conn'[d].state = "open"
                                   /\ "end" \in ToSet(conn[d].queue) => "end" \in ToSet(conn'[d].queue)
    <2>1. \A d \in Conns : conn'[d] = IF d = c THEN r ELSE conn[d]
        BY <1>1, <1>6
    <2>2. hub'.listeners \subseteq Conns
        BY <1>5 DEF Hubs
    <2> QED BY <1>1, <1>5, <1>6, <2>1, <2>2 DEF Connections, HubInv, Listening, Fits
<1>8. HubTypeOK'
    BY <1>2, <1>3, <1>4, <1>5, <1>7 DEF HubInv, HubTypeOK, Connections, Hubs
<1>9. OneRuns' /\ Awaited' /\ Listening'
    BY <1>2, <1>5, <1>7 DEF HubInv, OneRuns, Awaited, Listening
<1>10. NobodyWaitsInVain'
    BY <1>2, <1>5, <1>7, WaitsOn DEF HubInv, Running
<1> QED BY <1>8, <1>9, <1>10 DEF HubInv

\* A listener that comes joins the pump that runs, or starts one when none does.
LEMMA EnlistStep ==
    ASSUME HubInv, NEW c \in Conns, NEW pump \in Slots \cup {Nobody}, NEW cs, Enlist(c, pump, cs), line # <<>>,
           Connections(cs), \A d \in Conns : cs[d].state = conn[d].state,
           \A s \in Slots : task[s] # "done" => s = pump,
           UNCHANGED <<url, onAir, tab>>
    PROVE  HubInv'
<1> DEFINE s == IF Serves(pump) THEN pump ELSE CHOOSE x \in Slots : task[x] = "done"
<1>1. /\ hub \in Hubs /\ line \in Seq(Conns \cup {Reaper}) /\ task \in Tasks /\ conn[c] \in Request
      /\ cs \in [Conns -> Request] /\ cs[c] \in Request /\ url \in Urls \cup {Nowhere} /\ onAir \in BOOLEAN
      /\ tab \in [Tabs -> Player]
    BY HubTypeParts DEF HubInv, Connections
<1>2. /\ hub' = [url |-> conn[c].url, listeners |-> hub.listeners \cup {c}, pump |-> s, reaper |-> "none"]
      /\ conn' = [cs EXCEPT ![c].state = "open"] /\ awaiting' = Nobody
      /\ task' = IF Serves(pump) THEN task ELSE [task EXCEPT ![s] = "connecting"]
      /\ line' = RemoveFirst(Tail(line), Reaper)
    BY DEF Enlist
<1>3. /\ s \in Slots /\ task' \in Tasks /\ task'[s] # "done"
      /\ \A x \in Slots : task'[x] # "done" => x = s
    <2>1. CASE Serves(pump)
        BY <1>1, <1>2, <2>1 DEF Serves
    <2>2. CASE ~Serves(pump)
        <3>1. \A x \in Slots : task[x] = "done"
            BY <2>2, HubAssumption DEF Serves
        <3>2. s \in Slots
            <4>1. \E x \in Slots : task[x] = "done"
                BY <3>1, HubAssumption
            <4> QED BY <2>2, <4>1
        <3>3. task' = [task EXCEPT ![s] = "connecting"]
            BY <1>2, <2>2
        <3> HIDE DEF s
        <3> QED BY <1>1, <3>1, <3>2, <3>3 DEF Tasks
    <2> QED BY <2>1, <2>2
<1> HIDE DEF s
<1>4. hub' \in Hubs /\ hub'.pump = s /\ hub'.listeners = hub.listeners \cup {c}
    BY <1>1, <1>2, <1>3 DEF Hubs, Request
<1>5. Connections(conn') /\ \A d \in hub'.listeners : conn'[d].state = "open"
    <2> DEFINE r == [cs[c] EXCEPT !.state = "open"]
    <2>1. r \in Request /\ r.state = "open" /\ r.queue = cs[c].queue
        BY <1>1 DEF Request
    <2>2. conn' = [cs EXCEPT ![c] = r]
        BY <1>1, <1>2
    <2> HIDE DEF r
    <2>3. \A d \in Conns : conn'[d] = IF d = c THEN r ELSE cs[d]
        BY <1>1, <2>2
    <2>4. hub.listeners \subseteq Conns
        BY <1>1 DEF Hubs
    <2> QED BY <1>1, <1>4, <2>1, <2>2, <2>3, <2>4 DEF Connections, HubInv, Listening
<1>6. line' \in Seq(Conns \cup {Reaper})
    BY <1>1, <1>2, HeadTailProperties, LineType
<1>7. HubTypeOK'
    BY <1>1, <1>2, <1>3, <1>4, <1>5, <1>6 DEF HubTypeOK, Hubs, Tasks, Connections
<1>8. OneRuns' /\ Awaited' /\ Listening' /\ NobodyWaitsInVain'
    <2>1. Nobody \notin Slots
        BY HubAssumption
    <2> QED BY <1>2, <1>3, <1>4, <1>5, <2>1 DEF OneRuns, Awaited, Listening, NobodyWaitsInVain, Running
<1> QED BY <1>7, <1>8 DEF HubInv

\* The pump that runs is cancelled: its holder of the lock waits for it.
LEMMA CancelStep ==
    ASSUME HubInv, NEW h \in Hubs, h.pump = hub.pump, h.listeners = hub.listeners, Running(hub.pump),
           awaiting = Nobody, Cancel(h), UNCHANGED <<url, onAir, tab>>
    PROVE  HubInv'
<1>1. /\ hub \in Hubs /\ task \in Tasks /\ hub.pump \in Slots /\ Nobody \notin Slots
    BY HubTypeParts, HubAssumption DEF HubInv, Running, Hubs
<1>2. /\ hub' = [h EXCEPT !.pump = Nobody] /\ awaiting' = hub.pump /\ UNCHANGED <<conn, line>>
      /\ task' = [task EXCEPT ![hub.pump] = "closing"]
    BY DEF Cancel
<1>3. hub' \in Hubs /\ hub'.pump = Nobody /\ hub'.listeners = hub.listeners
    BY <1>2 DEF Hubs
<1>4. task' \in Tasks /\ task'[hub.pump] = "closing" /\ \A s \in Slots : s # hub.pump => task'[s] = task[s]
    BY <1>1, <1>2 DEF Tasks
<1>5. HubTypeOK'
    BY <1>1, <1>2, <1>3, <1>4 DEF HubInv, HubTypeOK, Hubs, Tasks
<1>6. OneRuns' /\ Awaited' /\ Listening' /\ NobodyWaitsInVain'
    BY <1>1, <1>2, <1>3, <1>4 DEF HubInv, OneRuns, Awaited, Listening, NobodyWaitsInVain
<1> QED BY <1>5, <1>6 DEF HubInv

LEMMA SubscribeStep ==
    ASSUME HubInv, NEW c \in Conns, Subscribe(c) \/ Resubscribe(c) PROVE HubInv'
<1> DEFINE told == Broadcast(conn, hub.listeners, "end")
<1>1. /\ hub \in Hubs /\ Connections(conn) /\ hub.pump \in Slots \cup {Nobody} /\ Nobody \in Slots \cup {Nobody}
      /\ hub.listeners \in SUBSET Conns /\ Nobody \notin Slots
    BY HubTypeParts, HubAssumption DEF HubInv, Hubs
<1>2. Connections(told) /\ \A d \in Conns : told[d].state = conn[d].state
    BY <1>1, BroadcastType
<1>3. line # <<>> /\ UNCHANGED <<url, onAir, tab>>
    BY DEF Subscribe, Resubscribe, Holds
<1> HIDE DEF told
<1>4. CASE Subscribe(c)
    <2>1. awaiting = Nobody /\ \A s \in Slots : task[s] # "done" => s = hub.pump
        BY <1>1, <1>4 DEF Subscribe, HubInv, OneRuns
    <2>2. CASE Enlist(c, hub.pump, conn)
        BY <1>1, <1>3, <2>1, <2>2, EnlistStep
    <2>3. CASE Running(hub.pump) /\ Cancel(hub)
        BY <1>1, <1>3, <2>1, <2>3, CancelStep
    <2>4. CASE ~Running(hub.pump) /\ Enlist(c, Nobody, told)
        <3>1. \A s \in Slots : task[s] = "done"
            BY <1>1, <2>1, <2>4 DEF Running
        <3> QED BY <1>1, <1>2, <1>3, <2>4, <3>1, EnlistStep
    <2> QED BY <1>4, <2>2, <2>3, <2>4 DEF Subscribe, told
<1>5. CASE Resubscribe(c)
    <2>1. awaiting # Nobody /\ task[awaiting] = "done" /\ Enlist(c, Nobody, told)
        BY <1>5 DEF Resubscribe, told
    <2>2. \A s \in Slots : task[s] = "done"
        BY <1>1, <2>1 DEF HubInv, OneRuns, Awaited
    <2> QED BY <1>1, <1>2, <1>3, <2>1, <2>2, EnlistStep
<1> QED BY <1>4, <1>5

LEMMA ReaperStep ==
    ASSUME HubInv, ReaperWakes \/ Reap \/ Reaped PROVE HubInv'
<1>1. /\ hub \in Hubs /\ Connections(conn) /\ hub.pump \in Slots \cup {Nobody} /\ line \in Seq(Conns \cup {Reaper})
      /\ hub.listeners \in SUBSET Conns /\ Nobody \notin Slots /\ task \in Tasks
    BY HubTypeParts, HubAssumption DEF HubInv, Hubs
<1>2. CASE ReaperWakes
    <2>1. /\ hub' \in Hubs /\ hub'.pump = hub.pump /\ hub'.listeners = hub.listeners
          /\ line' \in Seq(Conns \cup {Reaper}) /\ UNCHANGED <<url, onAir, awaiting, task, conn, tab>>
        BY <1>1, <1>2 DEF ReaperWakes, Hubs
    <2>2. HubTypeOK'
        BY <2>1 DEF HubInv, HubTypeOK, Hubs
    <2> QED BY <2>1, <2>2 DEF HubInv, OneRuns, Awaited, Listening, NobodyWaitsInVain, Running
<1>3. CASE Reap
    <2> DEFINE h == [hub EXCEPT !.reaper = "none"]
    <2>1. h \in Hubs /\ h.pump = hub.pump /\ h.listeners = hub.listeners
        BY <1>1 DEF Hubs
    <2>2. awaiting = Nobody /\ line # <<>> /\ UNCHANGED <<url, onAir, tab>>
        BY <1>3 DEF Reap, Holds
    <2>3. CASE hub.listeners = {} /\ Running(hub.pump)
        <3>1. Cancel(h)
            BY <1>3, <2>3 DEF Reap
        <3> HIDE DEF h
        <3> QED BY <1>1, <2>1, <2>2, <2>3, <3>1, CancelStep
    <2>4. CASE ~(hub.listeners = {} /\ Running(hub.pump))
        <3> DEFINE p == IF hub.listeners = {} THEN Nobody ELSE hub.pump
        <3>1. /\ hub' = [hub EXCEPT !.reaper = "none", !.pump = p]
              /\ line' = Tail(line) /\ UNCHANGED <<awaiting, task, conn>>
            BY <1>1, <1>3, <2>4 DEF Reap, Hubs
        <3>2. p \in Slots \cup {Nobody}
            BY <1>1
        <3>3. hub.listeners = {} => \A s \in Slots : task[s] = "done"
            BY <1>1, <2>2, <2>4 DEF HubInv, OneRuns, Running
        <3>4. hub.listeners # {} => p = hub.pump
            OBVIOUS
        <3> HIDE DEF p
        <3>5. hub' \in Hubs /\ hub'.pump = p /\ hub'.listeners = hub.listeners
            BY <1>1, <3>1, <3>2 DEF Hubs
        <3>6. line' \in Seq(Conns \cup {Reaper})
            BY <1>1, <2>2, <3>1, HeadTailProperties
        <3>7. HubTypeOK'
            BY <2>2, <3>1, <3>5, <3>6 DEF HubInv, HubTypeOK, Hubs
        <3>8. OneRuns' /\ Awaited' /\ Listening'
            BY <2>2, <3>1, <3>3, <3>4, <3>5 DEF HubInv, OneRuns, Awaited, Listening
        <3>9. NobodyWaitsInVain'
            BY <3>1, <3>4, <3>5 DEF HubInv, NobodyWaitsInVain, Running
        <3> QED BY <3>7, <3>8, <3>9 DEF HubInv
    <2> QED BY <2>3, <2>4
<1>4. CASE Reaped
    <2> DEFINE told == Broadcast(conn, hub.listeners, "end")
    <2>1. /\ conn' = told /\ line' = Tail(line) /\ awaiting' = Nobody /\ line # <<>>
          /\ UNCHANGED <<url, onAir, hub, task, tab>> /\ awaiting # Nobody /\ task[awaiting] = "done"
        BY <1>4 DEF Reaped, Holds
    <2>2. /\ Connections(told) /\ \A d \in Conns : told[d].state = conn[d].state
          /\ \A d \in hub.listeners : "end" \in ToSet(told[d].queue)
        BY <1>1, BroadcastType
    <2> HIDE DEF told
    <2>3. line' \in Seq(Conns \cup {Reaper})
        BY <1>1, <2>1, HeadTailProperties
    <2>4. HubTypeOK'
        BY <2>1, <2>2, <2>3 DEF HubInv, HubTypeOK, Connections
    <2>5. OneRuns' /\ Awaited' /\ Listening' /\ NobodyWaitsInVain'
        BY <1>1, <2>1, <2>2 DEF HubInv, OneRuns, Awaited, Listening, NobodyWaitsInVain
    <2> QED BY <2>4, <2>5 DEF HubInv
<1> QED BY <1>2, <1>3, <1>4

LEMMA PumpStep ==
    ASSUME HubInv, NEW s \in Slots, Connect(s) \/ Chunk(s) \/ UpstreamEnds(s) \/ Close(s) PROVE HubInv'
<1>1. /\ hub \in Hubs /\ Connections(conn) /\ hub.pump \in Slots \cup {Nobody} /\ task \in Tasks
      /\ hub.listeners \in SUBSET Conns /\ Nobody \notin Slots
    BY HubTypeParts, HubAssumption DEF HubInv, Hubs
<1>2. UNCHANGED <<url, onAir, hub, line, awaiting, tab>> /\ task[s] # "done"
    BY DEF Connect, Chunk, UpstreamEnds, Close, Becomes
<1>3. s = hub.pump \/ s = awaiting
    BY <1>2 DEF HubInv, OneRuns
<1>4. PICK state \in {"done", "streaming", "closing"} :
           /\ task' = [task EXCEPT ![s] = state]
           /\ state = "streaming" => task[s] \in {"connecting", "streaming"}
           /\ state = "done" => conn' = Broadcast(conn, hub.listeners, "end")
           /\ conn' = conn \/ \E item \in {"chunk", "end"} : conn' = Broadcast(conn, hub.listeners, item)
    BY DEF Connect, Chunk, UpstreamEnds, Close, Becomes
<1>5. /\ task' \in Tasks /\ task'[s] = state /\ \A r \in Slots : r # s => task'[r] = task[r]
    BY <1>1, <1>4 DEF Tasks
<1>6. /\ Connections(conn') /\ \A d \in Conns : conn'[d].state = conn[d].state
      /\ state = "done" => \A d \in hub.listeners : "end" \in ToSet(conn'[d].queue)
    BY <1>1, <1>4, BroadcastType
<1>7. HubTypeOK'
    BY <1>1, <1>2, <1>5, <1>6 DEF HubInv, HubTypeOK, Connections, Tasks
<1>8. OneRuns' /\ Awaited' /\ Listening'
    BY <1>1, <1>2, <1>4, <1>5, <1>6 DEF HubInv, OneRuns, Awaited, Listening
<1>9. NobodyWaitsInVain'
    <2>1. CASE state = "done"
        BY <1>2, <1>6, <2>1 DEF NobodyWaitsInVain
    <2>2. CASE state # "done"
        BY <1>1, <1>2, <1>3, <1>5, <2>2 DEF NobodyWaitsInVain, Running
    <2> QED BY <2>1, <2>2
<1> QED BY <1>7, <1>8, <1>9 DEF HubInv

\* A new process: nobody listens, nothing runs.
LEMMA RestartStep == ASSUME HubInv, RestartUi PROVE HubInv'
<1>1. /\ hub' = NewHub /\ line' = <<>> /\ awaiting' = Nobody /\ UNCHANGED <<url, onAir>>
      /\ task' = [s \in Slots |-> "done"] /\ conn' = [c \in Conns |-> Idle]
      /\ tab' = [t \in Tabs |-> IF \E c \in Conns : conn[c].tab = t /\ ~conn[c].cut THEN OnDrop(tab[t]) ELSE tab[t]]
    BY DEF RestartUi
<1>2. hub' \in Hubs /\ hub'.listeners = {}
    BY <1>1 DEF NewHub, Hubs
<1>3. task' \in Tasks /\ Connections(conn')
    BY <1>1, IdleType, HubAssumption DEF Tasks, Connections
<1>4. tab' \in [Tabs -> Player]
    <2>1. \A p \in Player : OnDrop(p) \in Player
        BY DEF OnDrop, Player
    <2>2. \A t \in Tabs : tab[t] \in Player
        BY DEF HubInv, HubTypeOK
    <2> QED BY <1>1, <2>1, <2>2
<1>5. line' \in Seq(Conns \cup {Reaper})
    BY <1>1
<1>6. HubTypeOK'
    BY <1>1, <1>2, <1>3, <1>4, <1>5 DEF HubInv, HubTypeOK, Connections, Hubs, Tasks
<1>7. OneRuns' /\ Awaited' /\ Listening' /\ NobodyWaitsInVain'
    BY <1>1, <1>2 DEF OneRuns, Awaited, Listening, NobodyWaitsInVain
<1> QED BY <1>6, <1>7 DEF HubInv

LEMMA HubStart == HubInit => HubInv
<1> SUFFICES ASSUME HubInit PROVE HubInv
    OBVIOUS
<1>1. /\ url \in Urls /\ onAir = FALSE /\ hub = NewHub /\ line = <<>> /\ awaiting = Nobody
      /\ task = [s \in Slots |-> "done"] /\ conn = [c \in Conns |-> Idle] /\ tab = [t \in Tabs |-> Silent]
    BY DEF HubInit
<1>2. hub \in Hubs /\ hub.listeners = {} /\ task \in Tasks
    BY <1>1 DEF NewHub, Hubs, Tasks
<1>3. Connections(conn) /\ tab \in [Tabs -> Player] /\ line \in Seq(Conns \cup {Reaper})
    BY <1>1, IdleType, HubAssumption DEF Connections, Silent, Player
<1>4. HubTypeOK
    BY <1>1, <1>2, <1>3, HubTypeParts
<1> QED BY <1>1, <1>2, <1>4 DEF HubInv, OneRuns, Awaited, Listening, NobodyWaitsInVain

LEMMA HubStep == HubInv /\ [HubNext]_hubVars => HubInv'
<1> SUFFICES ASSUME HubInv, [HubNext]_hubVars PROVE HubInv'
    OBVIOUS
<1>1. ASSUME UNCHANGED <<hub, line, awaiting, task, conn, tab>>, url' \in Urls \cup {Nowhere}, onAir' \in BOOLEAN
      PROVE  HubInv'
    <2>1. HubTypeOK'
        BY <1>1 DEF HubInv, HubTypeOK
    <2> QED BY <1>1, <2>1 DEF HubInv, OneRuns, Awaited, Listening, NobodyWaitsInVain, Running
<1>2. url \in Urls \cup {Nowhere} /\ onAir \in BOOLEAN
    BY DEF HubInv, HubTypeOK
<1>3. CASE Key
    BY <1>1, <1>2, <1>3 DEF Key, server
<1>4. ASSUME NEW u \in Urls \cup {Nowhere}, Configure(u) PROVE HubInv'
    BY <1>1, <1>2, <1>4 DEF Configure, server
<1>5. CASE UNCHANGED hubVars
    BY <1>1, <1>2, <1>5 DEF hubVars
<1> QED BY <1>3, <1>4, <1>5, PlayerStep, RequestStep, SubscribeStep, ReaperStep, PumpStep, RestartStep
        DEF HubNext

LEMMA HubTyped == HubInv => HubTypeOK
BY DEF HubInv

\* The hub keeps its types: queues within _QUEUE_MAXSIZE, a pump that is a task of its own.
THEOREM HubTypeCorrect == HubSpec => []HubTypeOK
BY HubTyped, HubStart, HubStep, PTL DEF HubSpec

LEMMA HubFaithful == HubInv => HubKeepsFaith
<1>1. Nobody \notin Slots
    BY HubAssumption
<1>2. HubInv => OneUpstream
    BY <1>1 DEF HubInv, OneRuns, Awaited, OneUpstream
<1> QED BY <1>2 DEF HubInv, HubKeepsFaith

\* "This module opens ONE upstream connection" (tx_stream.py:6), and no listener is left on
\* a queue that nobody will write to, for any number of tabs, requests and pumps.
THEOREM FaithIsKept == HubSpec => []HubKeepsFaith
BY HubFaithful, HubStart, HubStep, PTL DEF HubSpec

-----------------------------------------------------------------------------
(* The clips.  Types that do not change with the state, and its parts.     *)

Stages == {"idle", "render", "writing", "pad", "swap", "hand", "rename", "sent", "failed"}
Wav    == [name : Seq(Nat), ext : {"wav", "pad.wav", "txt"}, n : Nat, whole : BOOLEAN, at : Nat]
Sounds == {f \in wavs : f.ext = "wav"}
Busy   == job.pc # "idle"

\* A unit's file is named after it and the second it was begun in.
NamedAfter(name, u) == \E t \in 0 .. LastStart : name = Name(u, t)
ClockOK == clock \in 0 .. MaxClock /\ knobs \in Knobs
BegunOK == /\ begun \in Seq([unit : Units, name : Seq(Nat)]) /\ N <= MaxAirings
           /\ \A n \in 1 .. N : NamedAfter(begun[n].name, begun[n].unit)
OneEach(ws) == ws \subseteq Wav /\ \A f, g \in ws : f.name = g.name /\ f.ext = g.ext => f = g
WavsOK  == OneEach(wavs) /\ \A f \in wavs : f.n \in 1 .. N /\ f.at <= clock /\ f.name = begun[f.n].name
JobOK   == /\ job \in [pc : Stages, since : 0 .. clock, read : SUBSET Copy]
           /\ Busy => clock - job.since <= RenderMax /\ N > 0
SpoolOK == /\ incoming \subseteq [n : 1 .. N, name : Seq(Nat), ext : {"wav", "part"}, copy : SUBSET Copy]
           /\ SpooledIsWhole
           /\ job.pc = "rename" => job.read = {[n |-> N, whole |-> TRUE]}
RowsOK  == /\ airings \in Seq([n : 1 .. N, unit : Units, clip : Seq(Nat), at : 0 .. clock])
           /\ \A e \in ToSet(airings) : /\ e.clip = begun[e.n].name /\ e.unit = begun[e.n].unit
                                        /\ Busy => e.n < N
\* What is ready to be handed over is there, whole and fresh.
MadeOK  == /\ job.pc \in {"pad", "swap", "hand", "rename", "sent", "failed"} =>
                 \A f \in Rendered : f.n = N /\ f.whole
           /\ job.pc \in {"pad", "swap", "hand", "rename", "sent"} => \E f \in Rendered : f.at >= job.since
\* What has aired is whole, or of a unit begun later; and it is there as long as it is to be.
AiredOK == \A e \in ToSet(airings) : \A f \in Plays(e.clip) : f.n >= e.n /\ (f.n = e.n => f.whole)
KeptOK  == \A e \in ToSet(airings) :
              (\A u \in {e.unit} \cup Namesakes(e.unit) : u.kind # "watermark")
              /\ (knobs.retention = 0 \/ clock - e.at <= knobs.retention - RenderMax) =>
                  \E f \in Plays(e.clip) : f.at >= e.at - RenderMax

ClipInv == ClockOK /\ BegunOK /\ WavsOK /\ JobOK /\ SpoolOK /\ RowsOK /\ MadeOK /\ AiredOK /\ KeptOK

LEMMA ClipConstants ==
    /\ MaxClock \in Nat /\ LastStart \in Nat /\ MaxAirings \in Nat /\ RenderMax \in Nat
    /\ \A k \in Knobs : k.retention \in Nat /\ k.spool \in BOOLEAN /\ (k.retention = 0 \/ RenderMax < k.retention)
    /\ \A u \in Units : /\ u.kind \in {"voice", "frame", "manual", "watermark"} /\ u.source \in Seq(Nat)
                        /\ u.item \in Seq(Nat) /\ u.ref \in Nat
BY UnitsAssumption, KnobsAssumption, RetentionIsLong

LEMMA NameType ==
    ASSUME NEW u \in Units, NEW t \in Nat PROVE Name(u, t) \in Seq(Nat)
<1>1. /\ u.kind \in {"voice", "frame", "manual", "watermark"} /\ u.source \in Seq(Nat) /\ u.item \in Seq(Nat)
      /\ u.ref \in Nat /\ ManualWord \in Nat /\ WatermarkWord \in Nat
    BY ClipConstants, UnitsAssumption
<1>2. /\ u.source \o u.item \in Seq(Nat) /\ <<t>> \in Seq(Nat) /\ <<u.ref, t>> \in Seq(Nat)
    BY <1>1, ConcatProperties
<1>3. <<ManualWord, u.ref, t>> \in Seq(Nat) /\ <<WatermarkWord, t>> \in Seq(Nat)
    BY <1>1
<1>4. u.source \o u.item \o <<t>> \in Seq(Nat) /\ u.source \o u.item \o <<u.ref, t>> \in Seq(Nat)
    BY <1>2, ConcatProperties
<1> QED BY <1>1, <1>3, <1>4 DEF Name

\* A name tells a unit apart from all but its namesakes.
LEMMA NamesTell ==
    ASSUME NEW name, NEW u \in Units, NEW v \in Units, NamedAfter(name, u), NamedAfter(name, v)
    PROVE  v \in {u} \cup Namesakes(u)
BY UnitsAssumption DEF NamedAfter, Namesakes

LEMMA PutType ==
    ASSUME NEW ws, OneEach(ws), NEW f \in Wav
    PROVE  /\ OneEach(Put(ws, f)) /\ f \in Put(ws, f)
           /\ \A g : g \in Put(ws, f) <=> g = f \/ (g \in ws /\ ~(g.name = f.name /\ g.ext = f.ext))
BY DEF OneEach, Put, Without

LEMMA WithoutType ==
    ASSUME NEW ws, OneEach(ws), NEW name, NEW ext
    PROVE  /\ OneEach(Without(ws, name, ext))
           /\ \A g : g \in Without(ws, name, ext) <=> g \in ws /\ ~(g.name = name /\ g.ext = ext)
BY DEF OneEach, Without

LEMMA ClipType ==
    ASSUME BegunOK, N > 0 PROVE N \in 1 .. N /\ Clip \in Seq(Nat) /\ Unit \in Units /\ NamedAfter(Clip, Unit)
<1>1. begun \in Seq([unit : Units, name : Seq(Nat)]) /\ Len(begun) = N /\ N \in Nat
    BY DEF N, BegunOK
<1>2. N \in 1 .. N
    BY <1>1
<1>3. begun[N] \in [unit : Units, name : Seq(Nat)]
    BY <1>1, <1>2, ElementOfSeq
<1> QED BY <1>2, <1>3 DEF BegunOK, Clip, Unit

LEMMA FileType ==
    ASSUME ClockOK, NEW name \in Seq(Nat), NEW ext \in {"wav", "pad.wav", "txt"}, NEW n \in Nat, NEW whole \in BOOLEAN
    PROVE  /\ File(name, ext, n, whole) \in Wav /\ File(name, ext, n, whole).name = name
           /\ File(name, ext, n, whole).ext = ext /\ File(name, ext, n, whole).n = n
           /\ File(name, ext, n, whole).whole = whole /\ File(name, ext, n, whole).at = clock
BY ClipConstants DEF ClockOK, File, Wav

\* What a step does to the sounds: nothing, one is made, a watermark's is unlinked, or one
\* that is old is swept.
Kept     == Sounds' = Sounds
Made(w)  == /\ Busy /\ UNCHANGED <<begun, clock>>
            /\ \E f \in Wav : /\ f.name = Clip /\ f.n = N /\ f.whole = w /\ f.at = clock
                              /\ Sounds' = {g \in Sounds : g.name # Clip} \cup {f}
Unlinked == /\ Busy /\ UNCHANGED <<begun, clock>> /\ Unit.kind = "watermark"
            /\ Sounds' = {g \in Sounds : g.name # Clip}
Swept    == /\ UNCHANGED <<begun, clock, knobs, job, airings, incoming>> /\ knobs.retention > 0
            /\ \E f \in Sounds : f.at < clock - knobs.retention /\ Sounds' = Sounds \ {f}

\* Time passes and units are begun; nothing of what was begun is forgotten.
LEMMA BegunStep ==
    ASSUME ClockOK, BegunOK, [ClipsNext]_clipVars
    PROVE  /\ ClockOK' /\ BegunOK' /\ N \in Nat /\ N' \in Nat /\ N <= N' /\ clock <= clock' /\ UNCHANGED knobs
           /\ \A n \in 1 .. N : begun'[n] = begun[n]
<1>1. begun \in Seq([unit : Units, name : Seq(Nat)]) /\ N = Len(begun) /\ N' = Len(begun') /\ N \in Nat /\ clock \in Nat
    BY ClipConstants DEF N, BegunOK, ClockOK
<1>2. CASE UNCHANGED <<clock, knobs, begun>>
    <2>1. N' = N
        BY <1>2 DEF N
    <2> QED BY <1>1, <1>2, <2>1 DEF ClockOK, BegunOK
<1>3. ASSUME NEW u \in Units, Begin(u)
      PROVE  /\ ClockOK' /\ BegunOK' /\ N' = N + 1 /\ UNCHANGED <<clock, knobs>>
             /\ \A n \in 1 .. N : begun'[n] = begun[n]
    <2> DEFINE b == [unit |-> u, name |-> Name(u, clock)]
    <2>1. /\ clock <= LastStart /\ N < MaxAirings /\ begun' = Append(begun, b) /\ UNCHANGED <<clock, knobs>>
        BY <1>3 DEF Begin
    <2>2. b \in [unit : Units, name : Seq(Nat)] /\ NamedAfter(b.name, b.unit)
        <3>1. clock \in 0 .. LastStart
            BY <1>1, <2>1, ClipConstants
        <3>2. Name(u, clock) \in Seq(Nat)
            BY <1>1, NameType
        <3> QED BY <3>1, <3>2 DEF NamedAfter
    <2> HIDE DEF b
    <2>3. /\ begun' \in Seq([unit : Units, name : Seq(Nat)]) /\ N' = N + 1 /\ begun'[N + 1] = b
          /\ \A n \in 1 .. N : begun'[n] = begun[n]
        BY <1>1, <2>1, <2>2, AppendProperties
    <2>4. N' <= MaxAirings
        BY <1>1, <2>1, <2>3, ClipConstants
    <2>5. \A n \in 1 .. N' : NamedAfter(begun'[n].name, begun'[n].unit)
        <3> TAKE n \in 1 .. N'
        <3>1. CASE n = N + 1
            BY <2>2, <2>3, <3>1
        <3>2. CASE n # N + 1
            <4>1. n \in 1 .. N
                BY <1>1, <2>3, <3>2
            <4> QED BY <2>3, <4>1 DEF BegunOK
        <3> QED BY <3>1, <3>2
    <2>6. BegunOK'
        BY <2>3, <2>4, <2>5 DEF BegunOK, NamedAfter
    <2> QED BY <2>1, <2>3, <2>6 DEF ClockOK
<1>4. CASE Second
    <2>1. clock' = clock + 1 /\ clock < MaxClock /\ UNCHANGED <<knobs, begun>> /\ N' = N
        BY <1>4 DEF Second, N
    <2> QED BY <1>1, <2>1, ClipConstants DEF ClockOK, BegunOK
<1>5. CASE Work \/ Sweep \/ Kill \/ UNCHANGED clipVars
    BY <1>2, <1>5 DEF Work, Sweep, Kill, Write, RenderFails, Pad, Swap, PadFails, LogOnly, CopyIn, Rename, HandOffFails,
                      Record, RecordFailure, Finish, Prune, clipVars
<1> QED BY <1>1, <1>3, <1>4, <1>5 DEF ClipsNext

\* One file put in place of another: a sound is made, or the sounds stay.
LEMMA PutStep ==
    ASSUME ClockOK, BegunOK, WavsOK, UNCHANGED <<begun, clock>>, Busy, N > 0,
           NEW x \in {"txt", "pad.wav"}, NEW ws, ws = wavs \/ ws = Without(wavs, Clip, x),
           NEW ext \in {"wav", "pad.wav", "txt"}, NEW w \in BOOLEAN, wavs' = Put(ws, File(Clip, ext, N, w))
    PROVE  WavsOK' /\ (ext = "wav" => Made(w)) /\ (ext # "wav" => Kept)
<1> DEFINE f == File(Clip, ext, N, w)
<1>1. N \in 1 .. N /\ Clip \in Seq(Nat) /\ N \in Nat /\ N' = N /\ Clip = begun[N].name /\ clock \in Nat
    BY ClipType, ClipConstants DEF Clip, N, BegunOK, ClockOK
<1>2. f \in Wav /\ f.name = Clip /\ f.ext = ext /\ f.n = N /\ f.whole = w /\ f.at = clock
    BY <1>1, FileType
<1>3. OneEach(ws) /\ ws \subseteq wavs /\ \A g \in wavs : g.ext = "wav" => g \in ws
    BY WithoutType DEF WavsOK
<1> HIDE DEF f
<1>4. OneEach(wavs') /\ \A g : g \in wavs' <=> g = f \/ (g \in ws /\ ~(g.name = Clip /\ g.ext = ext))
    BY <1>2, <1>3, PutType DEF f
<1>5. WavsOK'
    BY <1>1, <1>2, <1>3, <1>4 DEF WavsOK, OneEach
<1>6. CASE ext = "wav"
    <2>1. Sounds' = {g \in Sounds : g.name # Clip} \cup {f}
        BY <1>2, <1>3, <1>4, <1>6 DEF Sounds
    <2> QED BY <1>2, <1>5, <1>6, <2>1 DEF Made
<1>7. CASE ext # "wav"
    BY <1>2, <1>3, <1>4, <1>5, <1>7 DEF Sounds, Kept
<1> QED BY <1>6, <1>7

\* A temporary file or a watermark is taken away.
LEMMA TakeStep ==
    ASSUME BegunOK, WavsOK, UNCHANGED <<begun, clock>>, NEW ext, wavs' = Without(wavs, Clip, ext)
    PROVE  WavsOK' /\ (ext # "wav" => Kept) /\ (ext = "wav" => Sounds' = {g \in Sounds : g.name # Clip})
<1>1. N' = N
    BY DEF N
<1>2. OneEach(wavs') /\ \A g : g \in wavs' <=> g \in wavs /\ ~(g.name = Clip /\ g.ext = ext)
    BY WithoutType DEF WavsOK
<1> QED BY <1>1, <1>2 DEF WavsOK, Sounds, Kept

LEMMA WavsStep ==
    ASSUME ClockOK, BegunOK, WavsOK, JobOK, [ClipsNext]_clipVars
    PROVE  /\ WavsOK'
           /\ \/ Kept
              \/ Swept
              \/ Unlinked /\ job'.pc = "idle"
              \/ Made(FALSE) /\ job'.pc = "writing"
              \/ Made(TRUE) /\ (Swap \/ \E next \in {"pad", "hand"} : Finish(next))
<1>1. N \in Nat /\ N' \in Nat /\ N <= N' /\ clock <= clock' /\ clock \in Nat /\ clock' \in Nat
      /\ \A n \in 1 .. N : begun'[n] = begun[n]
    BY BegunStep, ClipConstants DEF ClockOK
<1>2. Busy => N > 0
    BY DEF JobOK
<1>3. \A f \in wavs : f.n \in 1 .. N' /\ f.at <= clock' /\ f.name = begun'[f.n].name
    <2> TAKE f \in wavs
    <2>1. f.n \in 1 .. N /\ f.at <= clock /\ f.name = begun[f.n].name /\ f.at \in Nat
        BY DEF WavsOK, OneEach, Wav
    <2> QED BY <1>1, <2>1
<1>4. ASSUME wavs' = wavs PROVE WavsOK' /\ Kept
    BY <1>3, <1>4 DEF WavsOK, Kept, Sounds
<1>5. ASSUME NEW u \in Units, Begin(u) PROVE WavsOK' /\ Kept
    <2>1. CASE wavs' = wavs
        BY <1>4, <2>1
    <2>2. CASE wavs' = Put(wavs, File(Name(u, clock), "txt", N + 1, TRUE))
        <3> DEFINE f == File(Name(u, clock), "txt", N + 1, TRUE)
        <3>1. begun' = Append(begun, [unit |-> u, name |-> Name(u, clock)]) /\ clock' = clock
            BY <1>5 DEF Begin
        <3>2. begun \in Seq([unit : Units, name : Seq(Nat)]) /\ Len(begun) = N /\ Len(begun') = N'
            BY DEF BegunOK, N
        <3>3. [unit |-> u, name |-> Name(u, clock)] \in [unit : Units, name : Seq(Nat)]
            BY <1>1, NameType
        <3>4. N' = N + 1 /\ begun'[N + 1] = [unit |-> u, name |-> Name(u, clock)]
            BY <3>1, <3>2, <3>3, AppendProperties
        <3>5. f \in Wav /\ f.name = Name(u, clock) /\ f.ext = "txt" /\ f.n = N + 1 /\ f.at = clock
            <4>1. Name(u, clock) \in Seq(Nat)
                BY <1>1, NameType, Zenon
            <4>2. f = [name |-> Name(u, clock), ext |-> "txt", n |-> N + 1, whole |-> TRUE, at |-> clock]
                BY Zenon DEF File
            <4> DEFINE m == N + 1
                       name == Name(u, clock)
            <4> HIDE DEF f, m, name
            <4>3. name \in Seq(Nat) /\ m \in Nat /\ f = [name |-> name, ext |-> "txt", n |-> m, whole |-> TRUE, at |-> clock]
                BY <1>1, <4>1, <4>2 DEF m, name
            <4> QED BY <1>1, <4>3 DEF Wav, m, name
        <3> HIDE DEF f
        <3>6. OneEach(wavs') /\ \A g : g \in wavs' <=> g = f \/ (g \in wavs /\ ~(g.name = f.name /\ g.ext = f.ext))
            BY <2>2, <3>5, PutType DEF f, WavsOK
        <3>7. \A g \in wavs' : g.n \in 1 .. N' /\ g.at <= clock' /\ g.name = begun'[g.n].name
            <4> TAKE g \in wavs'
            <4>1. CASE g = f
                <5>1. g.n = N + 1 /\ g.at = clock /\ g.name = Name(u, clock)
                    BY <3>5, <4>1
                <5>2. begun'[N + 1].name = Name(u, clock)
                    BY <3>4
                <5>3. N + 1 \in 1 .. N' /\ clock <= clock'
                    BY <1>1, <3>1, <3>4
                <5> QED BY <5>1, <5>2, <5>3
            <4>2. CASE g \in wavs
                BY <1>3, <4>2
            <4> QED BY <3>6, <4>1, <4>2
        <3>8. Kept
            BY <3>5, <3>6 DEF Kept, Sounds
        <3> QED BY <3>6, <3>7, <3>8 DEF WavsOK
    <2> QED BY <1>5, <2>1, <2>2 DEF Begin
<1>6. CASE Write
    <2>1. /\ UNCHANGED <<begun, clock>> /\ Busy /\ job'.pc = "writing" /\ wavs' = Put(wavs, File(Clip, "wav", N, FALSE))
        BY <1>6 DEF Write, At, Goto, Busy, JobOK
    <2> QED BY <1>2, <2>1, PutStep
<1>7. ASSUME NEW next \in {"pad", "hand"}, Finish(next) PROVE WavsOK' /\ Made(TRUE)
    <2>1. /\ UNCHANGED <<begun, clock>> /\ Busy
          /\ wavs' = Put(Without(wavs, Clip, "txt"), File(Clip, "wav", N, TRUE))
        BY <1>7 DEF Finish, At, Busy
    <2> QED BY <1>2, <2>1, PutStep
<1>8. CASE RenderFails
    <2>1. UNCHANGED <<begun, clock>> /\ wavs' = Without(wavs, Clip, "txt")
        BY <1>8 DEF RenderFails
    <2>2. WavsOK' /\ ("txt" # "wav" => Kept)
        BY <2>1, TakeStep
    <2> QED BY <2>2
<1>9. CASE Pad
    <2>1. UNCHANGED <<begun, clock>> /\ Busy /\ wavs' = Put(wavs, File(Clip, "pad.wav", N, TRUE))
        BY <1>9 DEF Pad, At, Busy
    <2> QED BY <1>2, <2>1, PutStep
<1>10. CASE Swap
    <2>1. UNCHANGED <<begun, clock>> /\ Busy /\ wavs' = Put(Without(wavs, Clip, "pad.wav"), File(Clip, "wav", N, TRUE))
        BY <1>10 DEF Swap, At, Busy
    <2> QED BY <1>2, <1>10, <2>1, PutStep
<1>11. CASE Record \/ RecordFailure
    <2>1. /\ UNCHANGED <<begun, clock>> /\ Busy /\ job' = Asleep /\ wavs' = Unlink(wavs)
        BY <1>11 DEF Record, RecordFailure, At, Busy
    <2>2. job'.pc = "idle"
        BY <2>1 DEF Asleep
    <2>3. CASE wavs' = wavs
        BY <1>4, <2>3
    <2>4. CASE Unit.kind = "watermark" /\ wavs' = Without(wavs, Clip, "wav")
        BY <2>1, <2>2, <2>4, TakeStep DEF Unlinked
    <2> QED BY <2>1, <2>3, <2>4 DEF Unlink
<1>12. ASSUME NEW f \in wavs, Prune(f) PROVE WavsOK' /\ (Kept \/ Swept)
    <2>1. /\ UNCHANGED <<begun, clock, knobs, job, airings, incoming>> /\ knobs.retention > 0
          /\ f.at < clock - knobs.retention /\ wavs' = wavs \ {f} /\ N' = N
        BY <1>12 DEF Prune, Old, N
    <2>2. WavsOK'
        BY <2>1 DEF WavsOK, OneEach
    <2>3. Kept \/ Swept
        BY <2>1 DEF Kept, Swept, Sounds
    <2> QED BY <2>2, <2>3
<1>13. CASE PadFails \/ LogOnly \/ CopyIn \/ Rename \/ HandOffFails \/ Kill \/ Second \/ UNCHANGED clipVars
    BY <1>4, <1>13 DEF PadFails, LogOnly, CopyIn, Rename, HandOffFails, Kill, Second, clipVars
<1> QED BY <1>5, <1>6, <1>7, <1>8, <1>9, <1>10, <1>11, <1>12, <1>13 DEF ClipsNext, Work, Sweep

\* What has been read of the files stays a copy of files, as units are begun.
LEMMA CopiesGrow ==
    ASSUME ClockOK, BegunOK, [ClipsNext]_clipVars PROVE Copy \subseteq Copy' /\ SUBSET Copy \subseteq (SUBSET Copy')
<1>1. 1 .. N \subseteq 1 .. N'
    BY BegunStep
<1> QED BY <1>1 DEF Copy

LEMMA JobStep ==
    ASSUME ClockOK, BegunOK, WavsOK, JobOK, [ClipsNext]_clipVars PROVE JobOK'
<1>1. /\ N \in Nat /\ N' \in Nat /\ N <= N' /\ clock <= clock' /\ clock \in Nat /\ clock' \in Nat /\ RenderMax \in Nat
      /\ 0 .. clock \subseteq 0 .. clock' /\ SUBSET Copy \subseteq (SUBSET Copy')
    BY BegunStep, CopiesGrow, ClipConstants DEF ClockOK
<1>2. /\ job \in [pc : Stages, since : 0 .. clock, read : SUBSET Copy]
      /\ Busy => clock - job.since <= RenderMax /\ N > 0
    BY DEF JobOK
<1>3. ASSUME NEW pc2 \in Stages, NEW read \in SUBSET Copy', job' = [job EXCEPT !.pc = pc2, !.read = read], Busy,
             clock' = clock
      PROVE  JobOK'
    <2>1. /\ job' \in [pc : Stages, since : 0 .. clock', read : SUBSET Copy'] /\ job'.since = job.since
        BY <1>1, <1>2, <1>3
    <2> QED BY <1>1, <1>2, <1>3, <2>1 DEF JobOK
<1>4. ASSUME NEW pc2 \in Stages, job' = [job EXCEPT !.pc = pc2], Busy, clock' = clock PROVE JobOK'
    <2>1. job.read \in SUBSET Copy'
        BY <1>1, <1>2
    <2>2. job' = [job EXCEPT !.pc = pc2, !.read = job.read]
        BY <1>2, <1>4
    <2> QED BY <1>3, <1>4, <2>1, <2>2
<1>5. CASE job' = Asleep
    <2>1. 0 \in 0 .. clock' /\ "idle" \in Stages /\ {} \in SUBSET Copy'
        BY <1>1 DEF Stages
    <2>2. job' \in [pc : Stages, since : 0 .. clock', read : SUBSET Copy'] /\ job'.pc = "idle"
        BY <1>5, <2>1 DEF Asleep
    <2> QED BY <2>2 DEF JobOK, Busy
<1>6. ASSUME NEW u \in Units, Begin(u) PROVE JobOK'
    <2>1. /\ job' = [pc |-> "render", since |-> clock, read |-> {}] /\ clock' = clock
          /\ begun' = Append(begun, [unit |-> u, name |-> Name(u, clock)])
        BY <1>6 DEF Begin
    <2>2. N' > 0
        <3>1. begun \in Seq([unit : Units, name : Seq(Nat)]) /\ Name(u, clock) \in Seq(Nat)
            BY <1>1, NameType DEF BegunOK
        <3>2. Len(begun') = Len(begun) + 1 /\ Len(begun) \in Nat
            BY <2>1, <3>1, AppendProperties
        <3> QED BY <3>2 DEF N
    <2>3. "render" \in Stages /\ clock \in 0 .. clock' /\ {} \in SUBSET Copy'
        BY <1>1, <2>1 DEF Stages
    <2>4. job' \in [pc : Stages, since : 0 .. clock', read : SUBSET Copy'] /\ job'.since = clock
        BY <2>1, <2>3
    <2> QED BY <1>1, <2>1, <2>2, <2>4 DEF JobOK
<1>7. CASE Write \/ Pad \/ Swap \/ PadFails \/ LogOnly \/ Rename \/ HandOffFails \/ (\E n \in {"pad", "hand"} : Finish(n))
    <2>1. Busy /\ clock' = clock
        BY <1>7 DEF Write, Pad, Swap, PadFails, LogOnly, Rename, HandOffFails, Finish, At, Busy
    <2>2. \E pc2 \in Stages : job' = [job EXCEPT !.pc = pc2]
        BY <1>7 DEF Write, Pad, Swap, PadFails, LogOnly, Rename, HandOffFails, Finish, Goto, Stages
    <2> QED BY <1>4, <2>1, <2>2
<1>8. CASE CopyIn
    <2> DEFINE read == {[n |-> f.n, whole |-> f.whole] : f \in Rendered}
    <2>1. job' = [job EXCEPT !.pc = "rename", !.read = read] /\ Busy /\ clock' = clock
        BY <1>8 DEF CopyIn, At, Busy
    <2>2. \A f \in Rendered : f.n \in 1 .. N /\ f.whole \in BOOLEAN
        BY <1>8 DEF Rendered, WavsOK, OneEach, Wav
    <2>3. read \in SUBSET Copy'
        BY <1>1, <2>2 DEF Copy
    <2>4. "rename" \in Stages
        BY DEF Stages
    <2> HIDE DEF read
    <2> QED BY <1>3, <2>1, <2>3, <2>4
<1>9. CASE Second
    <2>1. job' = job /\ clock' = clock + 1 /\ N' = N /\ (Busy => clock - job.since < RenderMax)
        BY <1>9 DEF Second, N, At, Busy
    <2>2. job \in [pc : Stages, since : 0 .. clock', read : SUBSET Copy'] /\ job.since \in Nat
        BY <1>1, <1>2
    <2> QED BY <1>1, <1>2, <2>1, <2>2 DEF JobOK, Busy
<1>10. CASE UNCHANGED <<job, clock, begun>>
    BY <1>2, <1>10 DEF JobOK, Copy, N, Busy
<1>11. CASE RenderFails \/ Record \/ RecordFailure \/ Kill
    BY <1>5, <1>11 DEF RenderFails, Record, RecordFailure, Kill
<1>12. CASE Sweep \/ UNCHANGED clipVars
    BY <1>10, <1>12 DEF Sweep, Prune, clipVars
<1> QED BY <1>6, <1>7, <1>8, <1>9, <1>11, <1>12 DEF ClipsNext, Work

SpoolFiles == [n : 1 .. N, name : Seq(Nat), ext : {"wav", "part"}, copy : SUBSET Copy]

LEMMA SpoolStep ==
    ASSUME ClockOK, BegunOK, JobOK, SpoolOK, MadeOK, [ClipsNext]_clipVars PROVE SpoolOK'
<1>1. N \in Nat /\ N' \in Nat /\ N <= N' /\ SUBSET Copy \subseteq (SUBSET Copy') /\ 1 .. N \subseteq 1 .. N'
    BY BegunStep, CopiesGrow
<1>2. incoming \subseteq SpoolFiles' /\ incoming \subseteq SpoolFiles
    BY <1>1 DEF SpoolOK, SpoolFiles
<1>3. CASE UNCHANGED <<incoming, begun>> /\ (job'.pc = "rename" => job' = job)
    BY <1>2, <1>3 DEF SpoolOK, SpooledIsWhole, SpoolFiles, N
<1>4. ASSUME NEW u \in Units, Begin(u) PROVE SpoolOK'
    <2>1. incoming' = incoming /\ job'.pc = "render"
        BY <1>4 DEF Begin
    <2> QED BY <1>2, <2>1 DEF SpoolOK, SpooledIsWhole, SpoolFiles
<1>5. CASE CopyIn
    <2> DEFINE read == {[n |-> f.n, whole |-> f.whole] : f \in Rendered}
               partial == SpoolFile("part", {})
    <2>1. /\ Rendered # {} /\ job' = [job EXCEPT !.pc = "rename", !.read = read] /\ incoming' = incoming \cup {partial}
          /\ N' = N /\ N > 0 /\ job.pc = "hand"
        BY <1>5 DEF CopyIn, N, At, JobOK, Busy
    <2>2. \A f \in Rendered : f.n = N /\ f.whole = TRUE
        BY <2>1 DEF MadeOK
    <2>3. read = {[n |-> N, whole |-> TRUE]}
        BY <2>1, <2>2
    <2>4. partial \in SpoolFiles /\ partial.ext = "part"
        <3>1. N \in 1 .. N /\ Clip \in Seq(Nat) /\ {} \in SUBSET Copy
            BY <2>1, ClipType
        <3> QED BY <3>1 DEF SpoolFile, SpoolFiles
    <2>5. job'.read = read
        BY <2>1 DEF JobOK
    <2> HIDE DEF read, partial
    <2>6. incoming' \subseteq SpoolFiles'
        BY <1>2, <2>1, <2>4 DEF SpoolFiles, Copy
    <2> QED BY <2>1, <2>3, <2>4, <2>5, <2>6 DEF SpoolOK, SpooledIsWhole, SpoolFiles
<1>6. CASE Rename
    <2> DEFINE whole == SpoolFile("wav", job.read)
    <2>1. /\ job.pc = "rename" /\ job'.pc = "sent" /\ incoming' = {f \in incoming : f.n # N} \cup {whole} /\ N' = N
          /\ N > 0
        BY <1>6 DEF Rename, At, Goto, N, JobOK, Busy
    <2>2. job.read = {[n |-> N, whole |-> TRUE]} /\ job.read \in SUBSET Copy
        BY <2>1 DEF SpoolOK, JobOK
    <2>3. whole \in SpoolFiles /\ whole.n = N /\ whole.copy = {[n |-> N, whole |-> TRUE]}
        <3>1. N \in 1 .. N /\ Clip \in Seq(Nat)
            BY <2>1, ClipType
        <3> QED BY <2>2, <3>1 DEF SpoolFile, SpoolFiles
    <2> HIDE DEF whole
    <2>4. incoming' \subseteq SpoolFiles'
        BY <1>2, <2>1, <2>3 DEF SpoolFiles, Copy
    <2> QED BY <2>1, <2>3, <2>4 DEF SpoolOK, SpooledIsWhole, SpoolFiles
<1>7. CASE Write \/ Pad \/ Swap \/ PadFails \/ LogOnly \/ HandOffFails \/ (\E n \in {"pad", "hand"} : Finish(n))
    <2>1. UNCHANGED <<incoming, begun>>
        BY <1>7 DEF Write, Pad, Swap, PadFails, LogOnly, HandOffFails, Finish
    <2>2. \E pc2 \in Stages : pc2 # "rename" /\ job' = [job EXCEPT !.pc = pc2]
        BY <1>7 DEF Write, Pad, Swap, PadFails, LogOnly, HandOffFails, Finish, Goto, Stages
    <2> QED BY <1>3, <2>1, <2>2 DEF JobOK
<1>8. CASE RenderFails \/ Record \/ RecordFailure \/ Kill
    BY <1>3, <1>8 DEF RenderFails, Record, RecordFailure, Kill, Asleep
<1>9. CASE Sweep \/ Second \/ UNCHANGED clipVars
    BY <1>3, <1>9 DEF Sweep, Prune, Second, clipVars
<1> QED BY <1>4, <1>5, <1>6, <1>7, <1>8, <1>9 DEF ClipsNext, Work

Row == [n : 1 .. N, unit : Units, clip : Seq(Nat), at : 0 .. clock]

LEMMA RowsStep ==
    ASSUME ClockOK, BegunOK, JobOK, RowsOK, [ClipsNext]_clipVars
    PROVE  /\ RowsOK'
           /\ \/ airings' = airings
              \/ /\ Record /\ N > 0 /\ N' = N /\ clock' = clock /\ begun' = begun
                 /\ ToSet(airings') = ToSet(airings) \cup {[n |-> N, unit |-> Unit, clip |-> Clip, at |-> clock]}
<1>1. /\ N \in Nat /\ N' \in Nat /\ N <= N' /\ clock \in Nat /\ clock' \in Nat /\ clock <= clock'
      /\ \A n \in 1 .. N : begun'[n] = begun[n]
    BY BegunStep, ClipConstants DEF ClockOK
<1>2. airings \in Seq(Row) /\ Row \subseteq Row'
    BY <1>1 DEF RowsOK, Row
<1>3. airings \in Seq(Row')
    BY <1>2, SeqMonotonic
<1>4. \A e \in ToSet(airings) : /\ e \in Row /\ e.n \in 1 .. N /\ e.clip = begun'[e.n].name /\ e.unit = begun'[e.n].unit
    <2> TAKE e \in ToSet(airings)
    <2>1. e \in Row
        BY <1>2, ElementOfSeq DEF ToSet
    <2>2. e.n \in 1 .. N
        BY <2>1 DEF Row
    <2> QED BY <1>1, <2>1, <2>2 DEF RowsOK
<1>5. ASSUME airings' = airings, Busy' => Busy \/ N' > N PROVE RowsOK'
    <2>1. \A e \in ToSet(airings) : Busy' => e.n < N'
        BY <1>1, <1>4, <1>5 DEF RowsOK
    <2> QED BY <1>3, <1>4, <1>5, <2>1 DEF RowsOK, Row
<1>6. ASSUME NEW u \in Units, Begin(u) PROVE RowsOK' /\ airings' = airings
    <2>1. airings' = airings /\ begun' = Append(begun, [unit |-> u, name |-> Name(u, clock)])
        BY <1>6 DEF Begin
    <2>2. begun \in Seq([unit : Units, name : Seq(Nat)]) /\ Name(u, clock) \in Seq(Nat)
        BY <1>1, NameType DEF BegunOK
    <2>3. N' > N
        <3>1. Len(begun') = Len(begun) + 1 /\ Len(begun) \in Nat
            BY <2>1, <2>2, AppendProperties
        <3> QED BY <3>1 DEF N
    <2> QED BY <1>5, <2>1, <2>3
<1>7. CASE Record
    <2> DEFINE e == [n |-> N, unit |-> Unit, clip |-> Clip, at |-> clock]
    <2>1. /\ airings' = Append(airings, e) /\ N' = N /\ clock' = clock /\ begun' = begun /\ N > 0 /\ job'.pc = "idle"
        BY <1>7 DEF Record, N, At, JobOK, Busy, Asleep
    <2>2. e \in Row /\ e.n = N /\ e.clip = begun[N].name /\ e.unit = begun[N].unit
        <3>1. N \in 1 .. N /\ Clip \in Seq(Nat) /\ Unit \in Units /\ clock \in 0 .. clock
            BY <1>1, <2>1, ClipType
        <3> QED BY <3>1 DEF Row, Clip, Unit
    <2> HIDE DEF e
    <2>3. /\ airings' \in Seq(Row) /\ Len(airings') = Len(airings) + 1 /\ airings'[Len(airings) + 1] = e
          /\ \A k \in 1 .. Len(airings) : airings'[k] = airings[k]
        BY <1>2, <2>1, <2>2, AppendProperties
    <2>4. ToSet(airings') = ToSet(airings) \cup {e}
        <3>1. DOMAIN airings = 1 .. Len(airings) /\ DOMAIN airings' = 1 .. Len(airings) + 1 /\ Len(airings) \in Nat
            BY <1>2, <2>3
        <3> QED BY <2>3, <3>1 DEF ToSet
    <2>5. airings' \in Seq(Row')
        BY <1>2, <2>3, SeqMonotonic
    <2>6. \A x \in ToSet(airings') : x.clip = begun'[x.n].name /\ x.unit = begun'[x.n].unit
        BY <1>4, <2>1, <2>2, <2>4
    <2>7. RowsOK'
        BY <2>1, <2>5, <2>6 DEF RowsOK, Row, Busy
    <2> QED BY <1>7, <2>1, <2>4, <2>7 DEF e
<1>8. CASE Write \/ Pad \/ Swap \/ PadFails \/ LogOnly \/ CopyIn \/ Rename \/ HandOffFails
           \/ (\E n \in {"pad", "hand"} : Finish(n)) \/ RenderFails \/ RecordFailure \/ Kill
    <2>1. airings' = airings /\ Busy
        BY <1>8 DEF Write, Pad, Swap, PadFails, LogOnly, CopyIn, Rename, HandOffFails, Finish, RenderFails,
                    RecordFailure, Kill, At, Busy
    <2> QED BY <1>5, <2>1
<1>9. CASE Sweep \/ Second \/ UNCHANGED clipVars
    <2>1. airings' = airings /\ job' = job
        BY <1>9 DEF Sweep, Prune, Second, clipVars
    <2> QED BY <1>5, <2>1 DEF Busy
<1> QED BY <1>6, <1>7, <1>8, <1>9 DEF ClipsNext, Work

HandOff == {"pad", "swap", "hand", "rename", "sent"}

LEMMA MadeStep ==
    ASSUME ClockOK, BegunOK, WavsOK, JobOK, MadeOK, [ClipsNext]_clipVars PROVE MadeOK'
<1>1. /\ clock \in Nat /\ clock' \in Nat /\ clock <= clock' /\ RenderMax \in Nat /\ job.since \in Nat
      /\ knobs.retention \in Nat /\ (knobs.retention = 0 \/ RenderMax < knobs.retention)
      /\ Busy => clock - job.since <= RenderMax /\ job.since <= clock
    BY BegunStep, ClipConstants DEF ClockOK, JobOK
<1>2. Rendered = {f \in Sounds : f.name = Clip} /\ Rendered' = {f \in Sounds' : f.name = Clip'}
    BY DEF Rendered, Sounds
<1>3. \A f \in Sounds : f \in Wav /\ f.at \in Nat
    BY DEF Sounds, WavsOK, OneEach, Wav
<1>4. ASSUME Kept, UNCHANGED begun, job'.since = job.since, job'.pc \in HandOff => job.pc \in HandOff,
             job'.pc = "failed" => job.pc \in HandOff \cup {"failed"}
      PROVE  MadeOK'
    <2>1. Clip' = Clip /\ N' = N /\ Rendered' = Rendered
        BY <1>2, <1>4 DEF Clip, N, Kept
    <2> QED BY <1>4, <2>1 DEF MadeOK, HandOff
<1>5. ASSUME job'.pc \in {"idle", "render", "writing"} PROVE MadeOK'
    BY <1>5 DEF MadeOK
<1>6. ASSUME Made(TRUE), job'.since = job.since PROVE MadeOK'
    <2>1. PICK f \in Wav : /\ f.name = Clip /\ f.n = N /\ f.whole = TRUE /\ f.at = clock
                           /\ Sounds' = {g \in Sounds : g.name # Clip} \cup {f}
        BY <1>6 DEF Made
    <2>2. Clip' = Clip /\ N' = N /\ Busy
        BY <1>6 DEF Made, Clip, N
    <2>3. Rendered' = {f}
        BY <1>2, <2>1, <2>2
    <2>4. f.at >= job'.since
        BY <1>1, <1>6, <2>1, <2>2
    <2> QED BY <2>1, <2>2, <2>3, <2>4 DEF MadeOK
<1>7. CASE Swap \/ \E next \in {"pad", "hand"} : Finish(next)
    <2>1. job' = [job EXCEPT !.pc = job'.pc] /\ job'.pc \in {"pad", "hand"} /\ job.pc \in {"swap", "writing"}
        BY <1>7 DEF Swap, Finish, At, Goto, JobOK
    <2>2. Made(TRUE)
        <3>1. CASE Swap
            <4>1. /\ UNCHANGED <<begun, clock>> /\ Busy /\ N > 0
                  /\ wavs' = Put(Without(wavs, Clip, "pad.wav"), File(Clip, "wav", N, TRUE))
                BY <3>1 DEF Swap, At, Busy, JobOK
            <4> QED BY <4>1, PutStep
        <3>2. CASE \E next \in {"pad", "hand"} : Finish(next)
            <4>1. /\ UNCHANGED <<begun, clock>> /\ Busy /\ N > 0
                  /\ wavs' = Put(Without(wavs, Clip, "txt"), File(Clip, "wav", N, TRUE))
                BY <3>2 DEF Finish, At, Busy, JobOK
            <4> QED BY <4>1, PutStep
        <3> QED BY <1>7, <3>1, <3>2
    <2>3. job'.since = job.since
        BY <2>1 DEF JobOK
    <2> QED BY <1>6, <2>2, <2>3
<1>8. CASE Pad \/ PadFails \/ LogOnly \/ CopyIn \/ Rename \/ HandOffFails
    <2>1. UNCHANGED begun /\ job.pc \in HandOff /\ job'.since = job.since
        BY <1>8 DEF Pad, PadFails, LogOnly, CopyIn, Rename, HandOffFails, At, Goto, HandOff, JobOK
    <2>2. Kept
        <3>1. CASE Pad
            <4>1. UNCHANGED <<begun, clock>> /\ Busy /\ N > 0 /\ wavs' = Put(wavs, File(Clip, "pad.wav", N, TRUE))
                BY <3>1 DEF Pad, At, Busy, JobOK
            <4> QED BY <4>1, PutStep
        <3>2. CASE ~Pad
            BY <1>8, <3>2 DEF PadFails, LogOnly, CopyIn, Rename, HandOffFails, Kept, Sounds
        <3> QED BY <3>1, <3>2
    <2> QED BY <1>4, <2>1, <2>2
<1>9. CASE Sweep
    <2>1. UNCHANGED <<clock, knobs, job, airings, incoming, begun>> /\ (Kept \/ Swept)
        <3>1. PICK f \in wavs : Prune(f)
            BY <1>9 DEF Sweep
        <3>2. UNCHANGED <<clock, knobs, job, airings, incoming, begun>> /\ wavs' = wavs \ {f}
              /\ knobs.retention > 0 /\ f.at < clock - knobs.retention
            BY <3>1 DEF Prune, Old
        <3> QED BY <3>2 DEF Kept, Swept, Sounds
    <2>2. CASE Kept
        BY <1>4, <2>1, <2>2
    <2>3. CASE Swept
        <3>1. PICK g \in Sounds : g.at < clock - knobs.retention /\ Sounds' = Sounds \ {g}
            BY <2>3 DEF Swept
        <3>2. Clip' = Clip /\ N' = N /\ Rendered' = Rendered \ {g} /\ knobs.retention > 0
            BY <1>2, <2>1, <2>3, <3>1 DEF Clip, N, Swept
        <3>3. ASSUME job.pc \in HandOff PROVE \E f \in Rendered' : f.at >= job.since
            <4>1. PICK f \in Rendered : f.at >= job.since
                BY <3>3 DEF MadeOK, HandOff
            <4>2. f \in Sounds /\ f.at \in Nat /\ Busy
                BY <1>2, <1>3, <3>3, <4>1 DEF Busy, HandOff
            <4>3. f # g
                BY <1>1, <3>1, <3>2, <4>1, <4>2
            <4> QED BY <3>2, <4>1, <4>3
        <3> QED BY <2>1, <3>2, <3>3 DEF MadeOK, HandOff
    <2> QED BY <2>1, <2>2, <2>3
<1>10. CASE Second \/ UNCHANGED clipVars
    BY <1>4, <1>10 DEF Second, clipVars, Kept, Sounds
<1>11. CASE Write \/ RenderFails \/ Record \/ RecordFailure \/ Kill \/ (\E u \in Units : Begin(u))
    <2>1. CASE Write
        <3>1. job' = [job EXCEPT !.pc = "writing"]
            BY <2>1 DEF Write, Goto
        <3> QED BY <1>5, <3>1 DEF JobOK
    <2>2. CASE \E u \in Units : Begin(u)
        BY <1>5, <2>2 DEF Begin
    <2>3. CASE RenderFails \/ Record \/ RecordFailure \/ Kill
        BY <1>5, <2>3 DEF RenderFails, Record, RecordFailure, Kill, Asleep
    <2> QED BY <1>11, <2>1, <2>2, <2>3
<1>12. CASE Work
    BY <1>7, <1>8, <1>11, <1>12 DEF Work
<1> QED BY <1>9, <1>10, <1>11, <1>12 DEF ClipsNext

LEMMA PlaysSounds ==
    /\ \A name : Plays(name) = {f \in Sounds : f.name = name}
    /\ \A name : Plays(name)' = {f \in Sounds' : f.name = name}
BY DEF Plays, Sounds

LEMMA RowType ==
    ASSUME RowsOK, NEW e \in ToSet(airings) PROVE e.n \in 1 .. N /\ e.unit \in Units /\ e.at \in 0 .. clock
<1>1. airings \in Seq(Row)
    BY DEF RowsOK, Row
<1>2. e \in Row
    BY <1>1, ElementOfSeq DEF ToSet
<1> QED BY <1>2 DEF Row

\* The row that Record adds is about the sound that was rendered.
LEMMA RecordKeeps ==
    ASSUME Record PROVE Sounds' \subseteq Sounds /\ (Unit.kind # "watermark" => Sounds' = Sounds) /\ job.pc = "sent"
<1>1. wavs' = Unlink(wavs) /\ job.pc = "sent"
    BY DEF Record, At
<1> QED BY <1>1 DEF Unlink, Without, Sounds

LEMMA AiredStep ==
    ASSUME ClockOK, BegunOK, WavsOK, JobOK, RowsOK, MadeOK, AiredOK, [ClipsNext]_clipVars PROVE AiredOK'
<1>1. ASSUME NEW e \in ToSet(airings), NEW f \in Sounds', f.name = e.clip
      PROVE  f.n >= e.n /\ (f.n = e.n => f.whole)
    <2>1. CASE f \in Sounds
        BY <1>1, <2>1, PlaysSounds DEF AiredOK
    <2>2. CASE f \notin Sounds
        <3>1. Made(TRUE) \/ Made(FALSE)
            BY <1>1, <2>2, WavsStep DEF Kept, Swept, Unlinked
        <3>2. f.n = N /\ Busy
            BY <1>1, <2>2, <3>1 DEF Made
        <3>3. e.n < N /\ e.n \in Nat /\ N \in Nat
            <4>1. N \in Nat /\ e.n \in 1 .. N
                BY BegunStep, RowType
            <4> QED BY <3>2, <4>1 DEF RowsOK
        <3> QED BY <3>2, <3>3
    <2> QED BY <2>1, <2>2
<1>2. CASE airings' = airings
    BY <1>1, <1>2, PlaysSounds DEF AiredOK
<1>3. CASE airings' # airings
    <2> DEFINE row == [n |-> N, unit |-> Unit, clip |-> Clip, at |-> clock]
    <2>1. Record /\ ToSet(airings') = ToSet(airings) \cup {row} /\ N \in Nat
        BY <1>3, RowsStep, BegunStep
    <2>2. row.n = N /\ row.clip = Clip
        OBVIOUS
    <2> HIDE DEF row
    <2>3. \A f \in Sounds' : f.name = Clip => f.n = N /\ f.whole
        BY <2>1, RecordKeeps DEF MadeOK, Rendered, Sounds
    <2>4. \A f \in Sounds' : f.name = row.clip => f.n >= row.n /\ (f.n = row.n => f.whole)
        BY <2>1, <2>2, <2>3
    <2> QED BY <1>1, <2>1, <2>4, PlaysSounds DEF AiredOK
<1> QED BY <1>2, <1>3

\* An airing that is to stay playable, and a sound that lets it.
Due(e)      == /\ \A u \in {e.unit} \cup Namesakes(e.unit) : u.kind # "watermark"
               /\ knobs.retention = 0 \/ clock - e.at <= knobs.retention - RenderMax
Lasting(e)  == \E f \in Sounds : f.name = e.clip /\ f.at >= e.at - RenderMax

LEMMA KeptStep ==
    ASSUME ClockOK, BegunOK, WavsOK, JobOK, RowsOK, MadeOK, KeptOK, [ClipsNext]_clipVars PROVE KeptOK'
<1>1. /\ clock \in Nat /\ clock' \in Nat /\ clock <= clock' /\ RenderMax \in Nat /\ knobs' = knobs
      /\ knobs.retention \in Nat /\ N \in Nat /\ N' \in Nat
    BY BegunStep, ClipConstants DEF ClockOK
<1>2. (KeptOK <=> \A e \in ToSet(airings) : Due(e) => Lasting(e)) /\ (KeptOK' <=> \A e \in ToSet(airings') : Due(e)' => Lasting(e)')
    BY PlaysSounds DEF KeptOK, Due, Lasting
<1>3. ASSUME NEW e \in ToSet(airings), Due(e)' PROVE Lasting(e)'
    <2>1. e.n \in 1 .. N /\ e.at \in Nat /\ e.at <= clock /\ e.unit \in Units /\ e.clip = begun[e.n].name
          /\ e.unit = begun[e.n].unit
        <3>1. e.n \in 1 .. N /\ e.unit \in Units /\ e.at \in 0 .. clock
            BY RowType
        <3> QED BY <1>1, <3>1 DEF RowsOK
    <2>2. Due(e)
        BY <1>1, <1>3, <2>1 DEF Due
    <2>3. PICK f \in Sounds : f.name = e.clip /\ f.at >= e.at - RenderMax
        BY <1>2, <2>2 DEF Lasting
    <2>4. f.at \in Nat
        BY DEF Sounds, WavsOK, OneEach, Wav
    <2>5. CASE f \in Sounds'
        BY <2>3, <2>5 DEF Lasting
    <2>6. ASSUME f \notin Sounds', Made(TRUE) \/ Made(FALSE) PROVE Lasting(e)'
        <3>1. PICK g \in Wav : g.name = Clip /\ g.at = clock /\ Sounds' = {h \in Sounds : h.name # Clip} \cup {g}
            BY <2>6 DEF Made
        <3>2. e.clip = Clip
            BY <2>3, <2>6, <3>1
        <3>3. g.at >= e.at - RenderMax
            BY <1>1, <2>1, <3>1
        <3> QED BY <3>1, <3>2, <3>3 DEF Lasting
    <2>7. ASSUME f \notin Sounds', Unlinked PROVE FALSE
        <3>1. f.name = Clip /\ Unit.kind = "watermark" /\ N > 0
            BY <2>7 DEF Unlinked, JobOK
        <3>2. Unit \in Units /\ NamedAfter(e.clip, Unit)
            BY <2>3, <3>1, ClipType
        <3>3. NamedAfter(e.clip, e.unit)
            BY <2>1 DEF BegunOK
        <3>4. Unit \in {e.unit} \cup Namesakes(e.unit)
            BY <2>1, <3>2, <3>3, NamesTell
        <3> QED BY <2>2, <3>1, <3>4 DEF Due
    <2>8. ASSUME f \notin Sounds', Swept PROVE FALSE
        <3>1. f.at < clock - knobs.retention /\ knobs.retention > 0
            BY <2>3, <2>8 DEF Swept
        <3>2. clock - e.at <= knobs.retention - RenderMax
            BY <2>2, <3>1 DEF Due
        <3> QED BY <1>1, <2>1, <2>3, <2>4, <3>1, <3>2
    <2>9. CASE Kept
        BY <2>3, <2>9 DEF Lasting, Kept
    <2> QED BY <2>5, <2>6, <2>7, <2>8, <2>9, WavsStep
<1>4. CASE airings' = airings
    BY <1>2, <1>3, <1>4
<1>5. CASE airings' # airings
    <2> DEFINE row == [n |-> N, unit |-> Unit, clip |-> Clip, at |-> clock]
    <2>1. Record /\ ToSet(airings') = ToSet(airings) \cup {row} /\ N > 0
        BY <1>5, RowsStep
    <2>2. row.unit = Unit /\ row.clip = Clip /\ row.at = clock
        OBVIOUS
    <2> HIDE DEF row
    <2>3. ASSUME NEW e, e = row, Due(e)' PROVE Lasting(e)'
        <3>1. Unit.kind # "watermark"
            BY <2>2, <2>3 DEF Due
        <3>2. Sounds' = Sounds /\ job.pc = "sent"
            BY <2>1, <3>1, RecordKeeps
        <3>3. PICK f \in Rendered : f.at >= job.since
            BY <3>2 DEF MadeOK
        <3>4. f \in Sounds' /\ f.name = Clip /\ f.at \in Nat
            BY <3>2, <3>3 DEF Rendered, Sounds, WavsOK, OneEach, Wav
        <3>5. job.since \in Nat /\ clock - job.since <= RenderMax
            BY <1>1, <3>2 DEF JobOK, Busy
        <3>6. f.at >= e.at - RenderMax
            BY <1>1, <2>2, <2>3, <3>3, <3>4, <3>5
        <3> QED BY <2>2, <2>3, <3>4, <3>6 DEF Lasting
    <2> QED BY <1>2, <1>3, <2>1, <2>3
<1> QED BY <1>4, <1>5

LEMMA ClipStart == ASSUME NEW time \in 0 .. MaxClock, ClipsFrom(time) PROVE ClipInv
<1>1. /\ clock = time /\ knobs \in Knobs /\ wavs = {} /\ incoming = {} /\ airings = <<>> /\ job = Asleep /\ begun = <<>>
      /\ N = 0 /\ ToSet(airings) = {}
    BY DEF ClipsFrom, N, ToSet
<1>2. ClockOK /\ BegunOK /\ WavsOK
    BY <1>1, ClipConstants DEF ClockOK, BegunOK, WavsOK, OneEach
<1>3. job.pc = "idle" /\ JobOK
    BY <1>1 DEF JobOK, Asleep, Busy, Stages
<1>4. SpoolOK /\ RowsOK
    BY <1>1, <1>3 DEF SpoolOK, SpooledIsWhole, RowsOK
<1>5. MadeOK /\ AiredOK /\ KeptOK
    BY <1>1, <1>3 DEF MadeOK, AiredOK, KeptOK
<1> QED BY <1>2, <1>3, <1>4, <1>5 DEF ClipInv

LEMMA ClipStarts == ClipsInit \/ ClipsAtRest => ClipInv
<1>1. 0 \in 0 .. MaxClock /\ MaxClock \in 0 .. MaxClock
    BY ClipConstants
<1> QED BY <1>1, ClipStart DEF ClipsInit, ClipsAtRest

LEMMA ClipStep == ClipInv /\ [ClipsNext]_clipVars => ClipInv'
BY BegunStep, WavsStep, JobStep, SpoolStep, RowsStep, MadeStep, AiredStep, KeptStep DEF ClipInv

LEMMA ClipsTyped == ClipInv => ClipsTypeOK
<1> SUFFICES ASSUME ClipInv PROVE ClipsTypeOK
    OBVIOUS
<1>1. /\ clock \in 0 .. MaxClock /\ knobs \in Knobs /\ begun \in Seq([unit : Units, name : Seq(Nat)])
      /\ N <= MaxAirings
    BY DEF ClipInv, ClockOK, BegunOK
<1>2. wavs \subseteq [name : Seq(Nat), ext : {"wav", "pad.wav", "txt"}, n : 1 .. N, whole : BOOLEAN, at : 0 .. clock]
    <2> SUFFICES ASSUME NEW f \in wavs
                 PROVE  f \in [name : Seq(Nat), ext : {"wav", "pad.wav", "txt"}, n : 1 .. N, whole : BOOLEAN,
                               at : 0 .. clock]
        OBVIOUS
    <2>1. f \in Wav /\ f.n \in 1 .. N /\ f.at <= clock /\ clock \in Nat
        BY <1>1, ClipConstants DEF ClipInv, WavsOK, OneEach
    <2>2. f.at \in 0 .. clock
        BY <2>1 DEF Wav
    <2> QED BY <2>1, <2>2 DEF Wav
<1>3. \A f, g \in wavs : f.name = g.name /\ f.ext = g.ext => f = g
    BY DEF ClipInv, WavsOK, OneEach
<1>4. /\ incoming \subseteq [n : 1 .. N, name : Seq(Nat), ext : {"wav", "part"}, copy : SUBSET Copy]
      /\ airings \in Seq([n : 1 .. N, unit : Units, clip : Seq(Nat), at : 0 .. clock])
    BY DEF ClipInv, SpoolOK, RowsOK
<1>5. /\ job \in [pc : Stages, since : 0 .. clock, read : SUBSET Copy]
      /\ clock - job.since <= RenderMax \/ job.pc = "idle"
    BY DEF ClipInv, JobOK, Busy
<1> QED BY <1>1, <1>2, <1>3, <1>4, <1>5 DEF ClipsTypeOK, Stages

\* The files, the rows and the thread of the beacon have their types at every moment: what is
\* on the disk belongs to a unit that was begun, one file to a name, and a subprocess is
\* never waited for longer than its timeout (beacon/voice.py, frame_audio.py, transmit.py).
THEOREM ClipsTypeCorrect == ClipsSpec => []ClipsTypeOK
BY ClipsTyped, ClipStarts, ClipStep, PTL DEF ClipsSpec

LEMMA TwoLong ==
    ASSUME NEW s, NEW m \in Int, NEW n \in Int, m = n - 1, \A k \in m .. n : s[k] \in Nat
    PROVE  Len(SubSeq(s, m, n)) = 2
<1>1. Len(SubSeq(s, m, n)) = IF m <= n THEN n - m + 1 ELSE 0
    <2>1. m \in Int /\ n \in Int /\ \A k \in m .. n : s[k] \in Nat
        OBVIOUS
    <2> QED BY ONLY <2>1, SubSeqProperties
<1>2. m <= n /\ n - m + 1 = 2
    OBVIOUS
<1> QED BY <1>1, <1>2

\* A frame's name goes on for two parts after its item's.
LEMMA FrameIsNoVoice ==
    ASSUME NEW u \in Units, u.kind = "frame", NEW t \in Nat, NEW i, u.source = i.source, u.item = i.item
    PROVE  ~VoiceOf(i, Name(u, t))
<1> DEFINE p == u.source \o u.item
           q == <<u.ref, t>>
<1>1. p \in Seq(Nat) /\ q \in Seq(Nat) /\ Len(q) = 2
    <2>1. u.source \in Seq(Nat) /\ u.item \in Seq(Nat) /\ u.ref \in Nat
        BY ClipConstants
    <2> QED BY <2>1, ConcatProperties
<1>2. Name(u, t) = p \o q
    BY DEF Name
<1> HIDE DEF p, q
<1>3. Name(u, t) \in Seq(Nat) /\ Len(Name(u, t)) = Len(p) + 2 /\ Len(p) \in Nat
    <2>1. p \o q \in Seq(Nat) /\ Len(p \o q) = Len(p) + Len(q)
        BY <1>1, ConcatProperties, Zenon
    <2>2. Len(p) \in Nat
        BY <1>1
    <2> QED BY <1>1, <1>2, <2>1, <2>2
<1>4. After(i, Name(u, t)) = SubSeq(Name(u, t), Len(p) + 1, Len(p) + 2)
    BY <1>3 DEF After, p
<1>5. Len(SubSeq(Name(u, t), Len(p) + 1, Len(p) + 2)) = 2
    <2> DEFINE m == Len(p) + 1
               n == Len(p) + 2
    <2>1. m \in Int /\ n \in Int /\ m = n - 1 /\ \A k \in m .. n : k \in 1 .. Len(Name(u, t))
        BY <1>3
    <2> HIDE DEF m, n
    <2>2. \A k \in m .. n : Name(u, t)[k] \in Nat
        BY <1>3, <2>1, ElementOfSeq
    <2>3. Len(SubSeq(Name(u, t), m, n)) = 2
        BY <2>1, <2>2, TwoLong
    <2> QED BY <2>3 DEF m, n
<1> QED BY <1>4, <1>5 DEF VoiceOf

LEMMA ClipsTrue == ClipInv => ClipsTellTheTruth
<1> SUFFICES ASSUME ClipInv PROVE ClipsTellTheTruth
    OBVIOUS
<1>1. \A f \in wavs : /\ f.n \in 1 .. N /\ f.name = begun[f.n].name /\ begun[f.n].unit \in Units
                      /\ NamedAfter(f.name, begun[f.n].unit)
    <2>1. \A n \in 1 .. N : begun[n].unit \in Units
        <3>1. begun \in Seq([unit : Units, name : Seq(Nat)]) /\ N = Len(begun)
            BY DEF ClipInv, BegunOK, N
        <3> SUFFICES ASSUME NEW n \in 1 .. N PROVE begun[n].unit \in Units
            OBVIOUS
        <3>2. begun[n] \in [unit : Units, name : Seq(Nat)]
            BY <3>1, ElementOfSeq
        <3> QED BY <3>2
    <2> QED BY <2>1 DEF ClipInv, WavsOK, BegunOK
<1>2. ListedIsWhatAired
    <2>1. ASSUME NEW e \in ToSet(airings), NEW f \in Plays(e.clip)
          PROVE  IF f.n = e.n THEN f.whole
                 ELSE f.n > e.n /\ begun[f.n].unit \in {e.unit} \cup Namesakes(e.unit)
        <3>1. e.n \in 1 .. N /\ e.unit \in Units /\ e.clip = begun[e.n].name /\ e.unit = begun[e.n].unit
            BY RowType DEF ClipInv, RowsOK
        <3>2. f \in wavs /\ f.name = e.clip /\ f.n >= e.n /\ (f.n = e.n => f.whole)
            BY DEF ClipInv, AiredOK, Plays
        <3>3. NamedAfter(e.clip, e.unit)
            BY <3>1 DEF ClipInv, BegunOK
        <3>4. begun[f.n].unit \in {e.unit} \cup Namesakes(e.unit)
            BY <1>1, <3>1, <3>2, <3>3, NamesTell
        <3>5. f.n \in Nat /\ e.n \in Nat
            BY <1>1, <3>1, <3>2
        <3> QED BY <3>2, <3>4, <3>5
    <2>2. ListedMessages \cup UNION {Listed(i) : i \in Items} \subseteq ToSet(airings)
        BY DEF ListedMessages, Listed
    <2> QED BY <2>1, <2>2 DEF ListedIsWhatAired
<1>3. SpooledIsWhole
    BY DEF ClipInv, SpoolOK
<1>4. PlaysItsOwn
    <2> SUFFICES ASSUME NEW i \in Items, Strangers(i) = {}
                 PROVE  /\ \A f \in ItemClips(i) : Owns(i, begun[f.n].unit)
                        /\ \A f \in LatestVoice(i) : begun[f.n].unit.kind = "voice"
        BY DEF PlaysItsOwn
    <2>1. ASSUME NEW f \in wavs, ClipOf(i, f.name) PROVE Owns(i, begun[f.n].unit)
        <3>1. PICK t \in 0 .. LastStart : f.name = Name(begun[f.n].unit, t)
            BY <1>1, <2>1 DEF NamedAfter
        <3>2. t \in Numerals /\ begun[f.n].unit \in Units
            BY <1>1, <2>1, <3>1, UnitsAssumption
        <3> QED BY <2>1, <3>1, <3>2 DEF Strangers
    <2>2. ASSUME NEW f \in wavs, VoiceOf(i, f.name) PROVE begun[f.n].unit.kind = "voice"
        <3>1. ClipOf(i, f.name)
            BY <2>2 DEF VoiceOf, ClipOf
        <3>2. Owns(i, begun[f.n].unit) /\ begun[f.n].unit \in Units
            BY <1>1, <2>1, <3>1
        <3>3. PICK t \in 0 .. LastStart : f.name = Name(begun[f.n].unit, t)
            BY <1>1 DEF NamedAfter
        <3>4. t \in Nat
            BY <3>3, ClipConstants
        <3>5. begun[f.n].unit.kind # "frame"
            BY <2>2, <3>2, <3>3, <3>4, FrameIsNoVoice DEF Owns
        <3> QED BY <3>2, <3>5 DEF Owns
    <2>3. \A f \in ItemClips(i) : f \in wavs /\ ClipOf(i, f.name)
        BY DEF ItemClips
    <2>4. \A f \in LatestVoice(i) : f \in wavs /\ VoiceOf(i, f.name)
        BY DEF LatestVoice, Candidates
    <2> QED BY <2>1, <2>2, <2>3, <2>4
<1>5. KeptForRetention
    BY DEF ClipInv, KeptOK, KeptForRetention
<1> QED BY <1>2, <1>3, <1>4, <1>5 DEF ClipsTellTheTruth

\* The dashboard plays what aired, through failed renderings and hand-offs, crashes and
\* sweeps, for units with any names: a listed airing's file holds that airing or a later one of
\* the same unit or of a namesake, what the watcher can see of the spool is whole, the clips of
\* an item without strangers are its own and its play button is never a frame's tones, and what
\* aired stays for the time it is to be kept unless the watermark has its name
\* (ui/beacon_audio.py over the files of beacon/__main__.py _transmit_*_unit).
THEOREM ClipsAreTrue == ClipsSpec => []ClipsTellTheTruth
BY ClipsTrue, ClipStarts, ClipStep, PTL DEF ClipsSpec

-----------------------------------------------------------------------------
(* The station: the three beside each other, as the run has them.           *)

LEMMA StationStart == StationInit => HubInv /\ MonitorInv /\ ClipInv
BY HubStart, MonitorStarts, ClipStarts DEF StationInit, AudioAtRest

LEMMA StationStep ==
    [StationNext]_<<hubVars, monitorVars, clipVars, part>> =>
        [HubNext]_hubVars /\ [MonitorNext]_monitorVars /\ [ClipsNext]_clipVars
BY DEF StationNext

LEMMA StationHolds == StationSpec => [](HubInv /\ MonitorInv /\ ClipInv)
BY StationStart, StationStep, HubStep, MonitorStep, ClipStep, PTL DEF StationSpec

\* Hub, monitor and clips keep their types, whichever of them runs and however the others rest.
THEOREM StationTypeCorrect == StationSpec => []StationTypeOK
<1>1. HubInv /\ MonitorInv /\ ClipInv => StationTypeOK
    BY HubTyped, MonitorTyped, ClipsTyped DEF StationTypeOK
<1> QED BY <1>1, StationHolds, PTL

\* What the dashboard promises who looks at it and listens: one upstream and nobody waiting for
\* nothing, an indicator that says what the log says, clips that are what aired.
THEOREM DashboardIsTrue ==
    StationSpec => [](HubKeepsFaith /\ IndicatorFollowsLog /\ ClipsTellTheTruth)
<1>1. HubInv /\ MonitorInv /\ ClipInv => HubKeepsFaith /\ IndicatorFollowsLog /\ ClipsTellTheTruth
    BY HubFaithful, MonitorFollows, ClipsTrue
<1> QED BY <1>1, StationHolds, PTL
=============================================================================
