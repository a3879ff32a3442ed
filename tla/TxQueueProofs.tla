--------------------------- MODULE TxQueueProofs ---------------------------
(***************************************************************************)
(* What holds of the transmission queue for every set of clips and however *)
(* often anything is dropped, stopped, killed, rotated or keyed: type      *)
(* correctness, that a clip is handed to SvxLink once, that no clip is     *)
(* lost or cut in the spool, and that an idle channel is idle.             *)
(***************************************************************************)
EXTENDS TxQueue, SequenceTheorems, TLAPS

-----------------------------------------------------------------------------
(* Type correctness, in three parts: the spool with its history, the channel *)
(* with SvxLink, and the clip in hand.                                       *)

SpoolOK ==
    /\ place \in [Clips -> {"out", "incoming", "queue", "sent", "failed", "replaced"}]
    /\ stamp \in [Clips -> Nat] /\ growing \subseteq Clips
    /\ listing \subseteq Clips /\ seen \in [Clips -> {"no", "noted", "changed", "quiet"}]
    /\ clock \in Nat /\ fuel \in [Steps -> Nat]
    /\ plays \in [Clips -> Nat] /\ cut \in [Clips -> Nat] /\ partial \subseteq Clips
AirOK ==
    /\ late \in BOOLEAN /\ stop \in BOOLEAN
    /\ openRx \in BOOLEAN /\ txOn \in BOOLEAN /\ busy \in {"never", "recent", "past"}
    /\ svx \in BOOLEAN /\ rx \in BOOLEAN /\ ident \in BOOLEAN
    /\ pending \in Seq(Clips \X Nat) /\ playing \in (Clips \X Nat) \cup {None}
    /\ rxLine \in BOOLEAN \cup {None} /\ txLine \in BOOLEAN \cup {None}
    /\ blind \in BOOLEAN
InHand == {"stage", "idle", "write", "key", "air", "off", "done", "fail"}

\* What the scan works through is in incoming/: nothing leaves it behind the scan's back.
HandOK ==
    /\ pc \in {"down", "scan", "process"} \cup InHand
    /\ cur \in Clips \cup {None} /\ staged \subseteq Clips \X Nat
    /\ (cur # None) <=> pc \in InHand
    /\ cur # None => place[cur] = "queue"
    /\ \A c \in Clips : seen[c] # "no" => place[c] = "incoming"
    /\ pc = "scan" => \A c \in listing : place[c] = "incoming"

Inv == SpoolOK /\ AirOK /\ HandOK

LEMMA InvTypes == Inv => TypeOK
BY DEF Inv, SpoolOK, AirOK, HandOK, InHand, TypeOK

LEMMA TypeStart == Init => Inv
<1> SUFFICES ASSUME Init PROVE Inv
    OBVIOUS
<1>1. SpoolOK
    BY SpoolAssumption DEF Init, SpoolOK
<1>2. AirOK
    <2>1. pending \in Seq(Clips \X Nat)
        BY DEF Init
    <2> QED BY <2>1 DEF Init, AirOK
<1>3. HandOK
    BY DEF Init, HandOK, InHand
<1> QED BY <1>1, <1>2, <1>3 DEF Inv

LEMMA Spending == ASSUME fuel \in [Steps -> Nat], NEW s \in Steps, Spend(s) PROVE fuel' \in [Steps -> Nat]
BY DEF Spend

\* The spool: the scan, the moves of a clip, and what the producers do.
LEMMA SpoolStep == ASSUME Inv, Next PROVE SpoolOK'
<1>1. SpoolOK /\ HandOK
    BY DEF Inv
<1> USE DEF Steps
<1>2. ASSUME UNCHANGED <<place, stamp, growing, listing, seen, plays, cut, partial>>, clock' \in Nat, fuel' \in [Steps -> Nat]
      PROVE  SpoolOK'
    BY <1>1, <1>2 DEF SpoolOK
<1>3. CASE Start
    <2>1. listing' \subseteq Clips /\ seen' \in [Clips -> {"no", "noted", "changed", "quiet"}]
        BY <1>3 DEF Start, In
    <2> QED BY <1>1, <1>3, <2>1 DEF Start, spool, SpoolOK
<1>4. CASE ScanFile
    <2>1. PICK c \in listing :
            /\ listing' = listing \ {c}
            /\ IF Stable(c)
               THEN /\ seen' = NotesWithout(c)
                    /\ stamp' = [stamp EXCEPT ![c] = IF c \in Unusable THEN @ ELSE clock]
                    /\ place' = [d \in Clips |->
                         CASE d = c /\ c \in Unusable -> "failed"
                           [] d = c /\ c \notin Unusable -> "queue"
                           [] d # c /\ c \notin Unusable /\ d \in In("queue") /\ SameQueueName(c, d)
                                -> "replaced"
                           [] OTHER -> place[d]]
               ELSE /\ seen' = [seen EXCEPT ![c] = IF @ \in {"no", "changed"} THEN "noted" ELSE @]
                    /\ UNCHANGED <<place, stamp>>
        BY <1>4 DEF ScanFile
    <2>2. seen' \in [Clips -> {"no", "noted", "changed", "quiet"}] /\ stamp' \in [Clips -> Nat]
        BY <1>1, <2>1 DEF SpoolOK, NotesWithout
    <2>3. place' \in [Clips -> {"out", "incoming", "queue", "sent", "failed", "replaced"}]
        BY <1>1, <2>1 DEF SpoolOK
    <2> QED BY <1>1, <1>4, <2>1, <2>2, <2>3 DEF ScanFile, history, SpoolOK
<1>5. CASE ProcessEnd
    BY <1>1, <1>5 DEF ProcessEnd, In, spool, history, SpoolOK
<1>6. CASE Stage
    <2>1. fuel' \in [Steps -> Nat]
        <3>1. fuel' = fuel \/ Spend("bad")
            BY <1>6 DEF Stage
        <3> QED BY <1>1, <3>1, Spending DEF SpoolOK
    <2>2. partial' \subseteq Clips
        BY <1>1, <1>6 DEF Stage, SpoolOK
    <2> QED BY <1>1, <1>6, <2>1, <2>2 DEF Stage, spool, SpoolOK
<1>7. CASE StopWaiting
    <2>1. cut' \in [Clips -> Nat]
        <3>1. cur \in Clips
            BY <1>1, <1>7 DEF StopWaiting, HandOK, InHand
        <3> QED BY <1>1, <1>7, <3>1 DEF StopWaiting, SpoolOK
    <2> QED BY <1>1, <1>7, <2>1 DEF StopWaiting, spool, SpoolOK
<1>8. CASE Write
    <2>1. plays' = plays \/ plays' = [plays EXCEPT ![cur] = @ + 1]
        BY <1>8 DEF Write
    <2>2. plays' \in [Clips -> Nat]
        BY <1>1, <2>1 DEF SpoolOK
    <2> QED BY <1>1, <1>8, <2>2 DEF Write, spool, SpoolOK
<1>9. CASE File
    <2>1. place' \in [Clips -> {"out", "incoming", "queue", "sent", "failed", "replaced"}]
        BY <1>1, <1>9 DEF File, SpoolOK
    <2> QED BY <1>1, <1>9, <2>1 DEF File, history, SpoolOK
<1>10. ASSUME NEW c \in Clips, Drop(c) PROVE SpoolOK'
    <2>1. place' \in [Clips -> {"out", "incoming", "queue", "sent", "failed", "replaced"}] /\ growing' \subseteq Clips
        BY <1>1, <1>10 DEF Drop, SpoolOK
    <2>2. fuel' \in [Steps -> Nat]
        BY <1>1, <1>10, Spending DEF Drop, SpoolOK
    <2> QED BY <1>1, <1>10, <2>1, <2>2 DEF Drop, service, history, SpoolOK
<1>11. ASSUME NEW c \in Clips, FinishWriting(c) \/ Settle(c) PROVE SpoolOK'
    <2>1. seen' \in [Clips -> {"no", "noted", "changed", "quiet"}] /\ growing' \subseteq Clips
        BY <1>1, <1>11 DEF FinishWriting, Settle, spool, SpoolOK
    <2> QED BY <1>1, <1>11, <2>1 DEF FinishWriting, Settle, spool, history, SpoolOK
<1>12. CASE Kill
    <2>1. cut' \in [Clips -> Nat]
        <3>1. cur # None => cur \in Clips
            BY <1>1 DEF HandOK
        <3> QED BY <1>1, <1>12, <3>1 DEF Kill, SpoolOK
    <2>2. fuel' \in [Steps -> Nat]
        BY <1>1, <1>12, Spending DEF Kill, SpoolOK
    <2> QED BY <1>1, <1>12, <2>1, <2>2 DEF Kill, spool, SpoolOK
<1>13. CASE ScanEnd \/ TakeNext \/ AwaitIdle
    BY <1>1, <1>2, <1>13 DEF ScanEnd, TakeNext, AwaitIdle, SpoolOK, spool, history
<1>14. CASE AwaitKey \/ AwaitOff \/ GuardPasses \/ DeadlinePasses
    BY <1>1, <1>2, <1>14 DEF AwaitKey, AwaitOff, GuardPasses, DeadlinePasses, SpoolOK, spool, service, history
<1>15. CASE SvxLink
    <2>1. fuel' \in [Steps -> Nat]
        BY <1>1, <1>15, Spending DEF SvxLink, PlayNext, PlayEnds, Ident, SvxUp, SpoolOK
    <2> QED BY <1>1, <1>2, <1>15, <2>1 DEF SvxLink, PlayNext, PlayEnds, Ident, SvxUp, SpoolOK, spool, service, history
<1>16. CASE Second \/ Terminate \/ Squelch \/ Rotate \/ SvxDown
    <2>1. \E s \in Steps : Spend(s)
        BY <1>16 DEF Second, Terminate, Squelch, Rotate, SvxDown
    <2>2. fuel' \in [Steps -> Nat]
        BY <1>1, <2>1, Spending DEF SpoolOK
    <2>3. clock' \in Nat
        BY <1>1, <1>16 DEF Second, Terminate, Squelch, Rotate, SvxDown, SpoolOK
    <2> QED BY <1>1, <1>2, <1>16, <2>2, <2>3 DEF Second, Terminate, Squelch, Rotate, SvxDown, spool, service, history
<1> QED BY <1>3, <1>4, <1>5, <1>6, <1>7, <1>8, <1>9, <1>10, <1>11, <1>12, <1>13, <1>14, <1>15, <1>16
        DEF Next, Service, Time

\* The clip in hand is in queue/ until it is filed, and only the scan takes a clip out of incoming/.
LEMMA HandStep == ASSUME Inv, Next PROVE HandOK'
<1>1. SpoolOK /\ HandOK /\ None \notin Clips
    BY NoClipAssumption DEF Inv
<1>2. ASSUME UNCHANGED <<pc, cur, place, seen, listing>>, staged' \subseteq Clips \X Nat PROVE HandOK'
    BY <1>1, <1>2 DEF HandOK
<1>3. CASE Start
    <2>1. \A c \in listing' : place'[c] = "incoming"
        BY <1>3 DEF Start, In, spool
    <2> QED BY <1>1, <1>3, <2>1 DEF Start, spool, HandOK, InHand
<1>4. CASE ScanFile
    <2>1. PICK c \in listing :
            /\ listing' = listing \ {c}
            /\ IF Stable(c)
               THEN /\ seen' = NotesWithout(c)
                    /\ place' = [d \in Clips |->
                         CASE d = c /\ c \in Unusable -> "failed"
                           [] d = c /\ c \notin Unusable -> "queue"
                           [] d # c /\ c \notin Unusable /\ d \in In("queue") /\ SameQueueName(c, d)
                                -> "replaced"
                           [] OTHER -> place[d]]
               ELSE /\ seen' = [seen EXCEPT ![c] = IF @ \in {"no", "changed"} THEN "noted" ELSE @]
                    /\ UNCHANGED place
        BY <1>4 DEF ScanFile
    <2>2. c \in Clips /\ place[c] = "incoming" /\ pc = "scan" /\ UNCHANGED <<pc, cur, staged>> /\ cur = None
        BY <1>1, <1>4 DEF ScanFile, SpoolOK, HandOK, InHand
    <2>3. \A d \in Clips : d # c => seen'[d] = seen[d]
        BY <1>1, <2>1, <2>2 DEF SpoolOK, NotesWithout
    <2>4. \A d \in Clips : d # c /\ place[d] = "incoming" => place'[d] = "incoming"
        BY <1>1, <2>1 DEF In
    <2>5. seen'[c] = "no" \/ place'[c] = "incoming"
        BY <1>1, <2>1, <2>2 DEF SpoolOK, NotesWithout
    <2> QED BY <1>1, <2>1, <2>2, <2>3, <2>4, <2>5 DEF HandOK, SpoolOK
<1>5. CASE ScanEnd
    BY <1>1, <1>5 DEF ScanEnd, spool, HandOK, InHand
<1>6. CASE TakeNext
    <2>1. cur' \in Clips /\ place[cur'] = "queue"
        BY <1>6 DEF TakeNext, In
    <2> QED BY <1>1, <1>6, <2>1 DEF TakeNext, spool, HandOK, InHand
<1>7. CASE ProcessEnd
    <2>1. pc' = "scan" => \A c \in listing' : place[c] = "incoming"
        BY <1>7 DEF ProcessEnd, In
    <2>2. pc = "process" /\ pc' \in {"scan", "down"} /\ UNCHANGED <<cur, staged, place, seen>>
        BY <1>7 DEF ProcessEnd, spool
    <2> QED BY <1>1, <2>1, <2>2 DEF HandOK, InHand
\* The steps of a transmission.
<1>8. ASSUME pc \in InHand, pc' \in InHand, staged' \subseteq Clips \X Nat, UNCHANGED <<cur, place, seen>> PROVE HandOK'
    BY <1>1, <1>8 DEF HandOK, InHand
<1>9. Unstaged \subseteq staged /\ (cur # None => Copy \in Clips \X Nat)
    BY <1>1 DEF Unstaged, Copy, HandOK, SpoolOK
<1>10. CASE Stage
    <2>1. pc = "stage" /\ pc' \in {"idle", "fail"} /\ UNCHANGED <<cur, place, seen>>
        BY <1>10 DEF Stage, spool
    <2>2. staged' \subseteq Clips \X Nat
        BY <1>1, <1>9, <1>10, <2>1 DEF Stage, HandOK, InHand
    <2> QED BY <1>8, <2>1, <2>2 DEF InHand
<1>11. CASE AwaitIdle
    <2>1. pc = "idle" /\ pc' \in {"idle", "write"} /\ UNCHANGED <<cur, place, seen, staged>>
        BY <1>11 DEF AwaitIdle, spool
    <2> QED BY <1>1, <1>8, <2>1 DEF InHand, HandOK
<1>12. CASE StopWaiting
    <2>1. pc' = "process" /\ cur' = None /\ UNCHANGED <<place, seen>> /\ staged' \subseteq staged
        BY <1>9, <1>12 DEF StopWaiting, spool
    <2> QED BY <1>1, <2>1 DEF HandOK, InHand
<1>13. CASE Write
    <2>1. pc = "write" /\ pc' \in {"air", "key", "fail"} /\ UNCHANGED <<cur, place, seen>> /\ staged' \subseteq staged
        BY <1>9, <1>13 DEF Write, spool
    <2> QED BY <1>1, <1>8, <2>1 DEF InHand, HandOK
<1>14. CASE AwaitKey
    <2>1. pc = "key" /\ pc' \in {"air", "key", "fail"} /\ UNCHANGED <<cur, place, seen>> /\ staged' \subseteq staged
        BY <1>9, <1>14 DEF AwaitKey, spool
    <2> QED BY <1>1, <1>8, <2>1 DEF InHand, HandOK
<1>15. CASE AwaitOff
    <2>1. /\ pc \in {"air", "off"} /\ pc' \in {"air", "off", "done"}
          /\ UNCHANGED <<cur, place, seen>> /\ staged' \subseteq staged
        BY <1>9, <1>15 DEF AwaitOff, spool
    <2> QED BY <1>1, <1>8, <2>1 DEF InHand, HandOK
<1>16. CASE File
    <2>1. /\ cur \in Clips /\ pc' = "process" /\ cur' = None /\ UNCHANGED <<staged, seen>>
          /\ place[cur] = "queue" /\ \A c \in Clips : c # cur => place'[c] = place[c]
        BY <1>1, <1>16 DEF File, HandOK, InHand, SpoolOK
    <2>2. \A c \in Clips : seen[c] # "no" => c # cur
        BY <1>1, <2>1 DEF HandOK
    <2> QED BY <1>1, <2>1, <2>2 DEF HandOK, InHand
\* The producers and the world.
<1>17. ASSUME NEW c \in Clips, Drop(c) PROVE HandOK'
    <2>1. /\ place[c] = "out" /\ UNCHANGED <<pc, cur, staged, seen, listing>>
          /\ \A d \in Clips : place'[d] = IF d = c THEN "incoming" ELSE place[d]
        BY <1>1, <1>17 DEF Drop, service, SpoolOK
    <2> QED BY <1>1, <2>1 DEF HandOK, SpoolOK
<1>18. ASSUME NEW c \in Clips, FinishWriting(c) \/ Settle(c) PROVE HandOK'
    <2>1. /\ UNCHANGED <<pc, cur, staged, place, listing>>
          /\ \A d \in Clips : seen'[d] # "no" => seen[d] # "no"
        BY <1>1, <1>18 DEF FinishWriting, Settle, spool, SpoolOK
    <2> QED BY <1>1, <2>1 DEF HandOK
<1>19. CASE Kill
    BY <1>1, <1>19 DEF Kill, spool, HandOK, InHand
<1>20. CASE GuardPasses \/ DeadlinePasses
    BY <1>1, <1>2, <1>20 DEF GuardPasses, DeadlinePasses, spool, service, HandOK
<1>21. CASE SvxLink
    BY <1>1, <1>2, <1>21 DEF SvxLink, PlayNext, PlayEnds, Ident, SvxUp, spool, service, HandOK
<1>22. CASE Second \/ Terminate \/ Squelch \/ Rotate \/ SvxDown
    BY <1>1, <1>2, <1>22 DEF Second, Terminate, Squelch, Rotate, SvxDown, spool, service, HandOK
<1> QED BY <1>3, <1>4, <1>5, <1>6, <1>7, <1>10, <1>11, <1>12, <1>13, <1>14, <1>15, <1>16, <1>17, <1>18, <1>19,
           <1>20, <1>21, <1>22
        DEF Next, Service, Time

LEMMA PollTypes ==
    ASSUME openRx \in BOOLEAN, txOn \in BOOLEAN, busy \in {"never", "recent", "past"},
           rxLine \in BOOLEAN \cup {None}, txLine \in BOOLEAN \cup {None}, Poll
    PROVE  /\ openRx' \in BOOLEAN /\ txOn' \in BOOLEAN /\ busy' \in {"never", "recent", "past"}
           /\ rxLine' \in BOOLEAN \cup {None} /\ txLine' \in BOOLEAN \cup {None}
<1>1. openRx' \in BOOLEAN
    BY DEF Poll, Heard
<1>2. txOn' \in BOOLEAN
    BY DEF Poll, Heard
<1>3. busy' \in {"never", "recent", "past"}
    BY DEF Poll
<1>4. rxLine' \in BOOLEAN \cup {None} /\ txLine' \in BOOLEAN \cup {None}
    BY DEF Poll
<1> QED BY <1>1, <1>2, <1>3, <1>4

\* What the service has heard, what SvxLink does, and the flags.
HeardOK ==
    /\ openRx \in BOOLEAN /\ txOn \in BOOLEAN /\ busy \in {"never", "recent", "past"}
    /\ rxLine \in BOOLEAN \cup {None} /\ txLine \in BOOLEAN \cup {None}
SvxOK ==
    /\ svx \in BOOLEAN /\ rx \in BOOLEAN /\ ident \in BOOLEAN
    /\ pending \in Seq(Clips \X Nat) /\ playing \in (Clips \X Nat) \cup {None}
FlagsOK == late \in BOOLEAN /\ stop \in BOOLEAN /\ blind \in BOOLEAN

LEMMA HeardStep == ASSUME HeardOK, SvxOK, Next PROVE HeardOK'
<1>1. CASE Poll
    BY <1>1, PollTypes DEF HeardOK
<1>2. CASE UNCHANGED <<channel, lines>>
    BY <1>2 DEF channel, lines, HeardOK
<1>3. CASE Start
    BY <1>3 DEF Start, HeardOK
<1>4. CASE GuardPasses
    BY <1>4 DEF GuardPasses, lines, HeardOK
<1>5. CASE Squelch
    BY <1>5 DEF Squelch, channel, HeardOK, SvxOK
<1>6. CASE Rotate
    BY <1>6 DEF Rotate, channel, HeardOK
<1>7. CASE PlayNext
    <2>1. txLine' \in BOOLEAN \cup {None} /\ rxLine' = rxLine /\ UNCHANGED channel
        BY <1>7 DEF PlayNext, LogTx, HeardOK
    <2> QED BY <2>1 DEF channel, HeardOK
<1>8. CASE PlayEnds
    <2>1. txLine' \in BOOLEAN \cup {None} /\ rxLine' = rxLine /\ UNCHANGED channel
        BY <1>8 DEF PlayEnds, LogTx, HeardOK
    <2> QED BY <2>1 DEF channel, HeardOK
<1>13. CASE Ident
    <2>1. (~ident) \in BOOLEAN
        OBVIOUS
    <2>2. txLine' \in BOOLEAN \cup {None}
        BY <1>13, <2>1 DEF Ident, LogTx, HeardOK
    <2> QED BY <1>13, <2>2 DEF Ident, channel, HeardOK
<1>9. CASE ScanFile \/ ScanEnd \/ TakeNext \/ Stage \/ StopWaiting \/ File
    BY <1>2, <1>9 DEF ScanFile, ScanEnd, TakeNext, Stage, StopWaiting, File
<1>10. CASE ProcessEnd \/ AwaitIdle \/ Write \/ AwaitKey \/ AwaitOff
    BY <1>1, <1>2, <1>10 DEF ProcessEnd, AwaitIdle, Write, AwaitKey, AwaitOff
<1>11. ASSUME NEW c \in Clips, FinishWriting(c) \/ Settle(c) \/ Drop(c) PROVE HeardOK'
    BY <1>2, <1>11 DEF FinishWriting, Settle, Drop
<1>12. CASE DeadlinePasses \/ Second \/ Terminate \/ Kill \/ SvxDown \/ SvxUp
    BY <1>2, <1>12 DEF DeadlinePasses, Second, Terminate, Kill, SvxDown, SvxUp
<1> QED BY <1>3, <1>4, <1>5, <1>6, <1>7, <1>8, <1>9, <1>10, <1>11, <1>12, <1>13 DEF Next, Service, Time, SvxLink

LEMMA SvxStep == ASSUME Inv, Next PROVE SvxOK'
<1>1. SvxOK /\ HandOK /\ SpoolOK
    BY DEF Inv, AirOK, SvxOK
<1>2. CASE UNCHANGED svxlink
    BY <1>1, <1>2 DEF svxlink, SvxOK
<1>3. CASE Write
    <2>1. Copy \in Clips \X Nat
        BY <1>1, <1>3 DEF Write, Copy, HandOK, SpoolOK, InHand
    <2>2. pending \in Seq(Clips \X Nat)
        BY <1>1 DEF SvxOK
    <2>3. Append(pending, Copy) \in Seq(Clips \X Nat)
        BY <2>1, <2>2, AppendProperties
    <2>4. pending' = pending \/ pending' = Append(pending, Copy)
        BY <1>3 DEF Write
    <2>5. pending' \in Seq(Clips \X Nat)
        BY <2>2, <2>3, <2>4
    <2> QED BY <1>1, <1>3, <2>5 DEF Write, SvxOK
<1>4. CASE Squelch
    BY <1>1, <1>4 DEF Squelch, SvxOK
<1>5. CASE PlayNext
    <2>1. Head(pending) \in Clips \X Nat /\ Tail(pending) \in Seq(Clips \X Nat)
        BY <1>1, <1>5, HeadTailProperties DEF PlayNext, SvxOK
    <2>2. pending' \in Seq(Clips \X Nat) /\ playing' \in (Clips \X Nat) \cup {None} /\ UNCHANGED <<svx, rx, ident>>
        BY <1>1, <1>5, <2>1 DEF PlayNext, SvxOK
    <2> QED BY <1>1, <2>2 DEF SvxOK
<1>6. CASE PlayEnds
    BY <1>1, <1>6 DEF PlayEnds, SvxOK
<1>7. CASE Ident
    BY <1>1, <1>7 DEF Ident, SvxOK
<1>8. CASE SvxDown
    <2>1. pending' \in Seq(Clips \X Nat)
        BY <1>8 DEF SvxDown
    <2> QED BY <1>1, <1>8, <2>1 DEF SvxDown, SvxOK
<1>9. CASE SvxUp
    BY <1>1, <1>9 DEF SvxUp, SvxOK
<1>10. CASE Start \/ ScanFile \/ ScanEnd \/ TakeNext \/ ProcessEnd \/ Stage \/ AwaitIdle \/ StopWaiting
    BY <1>2, <1>10 DEF Start, ScanFile, ScanEnd, TakeNext, ProcessEnd, Stage, AwaitIdle, StopWaiting
<1>11. CASE AwaitKey \/ AwaitOff \/ File \/ GuardPasses \/ DeadlinePasses
    BY <1>2, <1>11 DEF AwaitKey, AwaitOff, File, GuardPasses, DeadlinePasses
<1>12. ASSUME NEW c \in Clips, FinishWriting(c) \/ Settle(c) \/ Drop(c) PROVE SvxOK'
    BY <1>2, <1>12 DEF FinishWriting, Settle, Drop
<1>13. CASE Second \/ Terminate \/ Kill \/ Rotate
    BY <1>2, <1>13 DEF Second, Terminate, Kill, Rotate
<1> QED BY <1>3, <1>4, <1>5, <1>6, <1>7, <1>8, <1>9, <1>10, <1>11, <1>12, <1>13 DEF Next, Service, Time, SvxLink

LEMMA FlagsStep == ASSUME FlagsOK, SvxOK, Next PROVE FlagsOK'
<1>1. CASE UNCHANGED <<late, stop, blind>>
    BY <1>1 DEF FlagsOK
<1>2. Keyed \in BOOLEAN
    BY DEF Keyed, SvxOK
<1>3. CASE Start
    BY <1>2, <1>3 DEF Start, FlagsOK, SvxOK
<1>4. CASE Stage
    BY <1>4 DEF Stage, FlagsOK
<1>5. CASE Write
    BY <1>5 DEF Write, FlagsOK
<1>6. CASE DeadlinePasses
    BY <1>6 DEF DeadlinePasses, history, FlagsOK
<1>7. CASE Terminate
    BY <1>7 DEF Terminate, history, FlagsOK
<1>8. CASE Rotate
    BY <1>8 DEF Rotate, service, FlagsOK
<1>9. CASE SvxDown
    BY <1>2, <1>9 DEF SvxDown, FlagsOK
<1>10. CASE ScanFile \/ ScanEnd \/ TakeNext \/ ProcessEnd \/ AwaitIdle \/ StopWaiting
    BY <1>1, <1>10 DEF ScanFile, ScanEnd, TakeNext, ProcessEnd, AwaitIdle, StopWaiting, history
<1>11. CASE AwaitKey \/ AwaitOff \/ File \/ GuardPasses \/ SvxLink
    BY <1>1, <1>11 DEF AwaitKey, AwaitOff, File, GuardPasses, SvxLink, PlayNext, PlayEnds, Ident, SvxUp, service, history
<1>12. ASSUME NEW c \in Clips, FinishWriting(c) \/ Settle(c) \/ Drop(c) PROVE FlagsOK'
    BY <1>1, <1>12 DEF FinishWriting, Settle, Drop, service, history
<1>13. CASE Second \/ Kill \/ Squelch
    BY <1>1, <1>13 DEF Second, Kill, Squelch, service, history
<1> QED BY <1>3, <1>4, <1>5, <1>6, <1>7, <1>8, <1>9, <1>10, <1>11, <1>12, <1>13 DEF Next, Service, Time

LEMMA TypeStep == Inv /\ [Next]_vars => Inv'
<1> SUFFICES ASSUME Inv, [Next]_vars PROVE Inv'
    OBVIOUS
<1>1. CASE UNCHANGED vars
    BY <1>1 DEF vars, spool, service, channel, svxlink, lines, history, Inv, SpoolOK, AirOK, HandOK
<1>2. CASE Next
    <2>1. HeardOK /\ SvxOK /\ FlagsOK
        BY DEF Inv, AirOK, HeardOK, SvxOK, FlagsOK
    <2>2. HeardOK' /\ SvxOK' /\ FlagsOK'
        BY <1>2, <2>1, HeardStep, SvxStep, FlagsStep
    <2>3. AirOK'
        BY <2>2 DEF AirOK, HeardOK, SvxOK, FlagsOK
    <2> QED BY <1>2, <2>3, SpoolStep, HandStep DEF Inv
<1> QED BY <1>1, <1>2

LEMMA Inductive == Spec => []Inv
BY TypeStart, TypeStep, PTL DEF Spec

\* The spool, the service, its picture of the channel and SvxLink's queue keep their types; the clip
\* in hand is in queue/, and what the service has noted is in incoming/.
THEOREM TypeCorrect == Spec => []TypeOK
BY Inductive, InvTypes, PTL

-----------------------------------------------------------------------------
(* A clip is handed to SvxLink once. *)

\* A clip that is still to be played was never played, but for the commands that a stop or a kill
\* left open; the one in hand has been played as soon as SvxLink was told.
Told == {"key", "air", "off", "done", "fail"}
Due(c) == place[c] = "queue" /\ ~(cur = c /\ pc \in Told)
PlayInv ==
    \A c \in Clips : /\ place[c] \in {"out", "incoming"} => plays[c] = 0
                     /\ Due(c) => plays[c] <= cut[c]
                     /\ plays[c] <= 1 + cut[c]

LEMMA PlayStart == Init => PlayInv
BY DEF Init, PlayInv, Due

LEMMA PlayStep == Inv /\ PlayInv /\ [Next]_vars => PlayInv'
<1> SUFFICES ASSUME Inv, PlayInv, [Next]_vars PROVE PlayInv'
    OBVIOUS
<1>1. /\ place \in [Clips -> {"out", "incoming", "queue", "sent", "failed", "replaced"}]
      /\ plays \in [Clips -> Nat] /\ cut \in [Clips -> Nat] /\ listing \subseteq Clips
      /\ cur \in Clips \cup {None} /\ None \notin Clips
      /\ (cur # None) <=> pc \in InHand
      /\ cur # None => place[cur] = "queue"
      /\ \A c \in Clips : seen[c] # "no" => place[c] = "incoming"
    BY NoClipAssumption DEF Inv, SpoolOK, HandOK
\* Nothing handed over, and nobody due who was not.
<1>2. ASSUME UNCHANGED <<place, plays, cut>>, \A c \in Clips : Due(c)' => Due(c) PROVE PlayInv'
    BY <1>2 DEF PlayInv
<1>3. CASE Start
    BY <1>1, <1>2, <1>3 DEF Start, spool, Due, Told, InHand
<1>4. CASE ScanFile
    <2>1. /\ UNCHANGED <<plays, cut, pc, cur>>
          /\ \A c \in Clips : \/ place'[c] = place[c]
                              \/ place[c] \in {"incoming", "queue"} /\ place'[c] \in {"queue", "failed", "replaced"}
        <3>1. PICK c \in listing :
                IF Stable(c)
                THEN place' = [d \in Clips |->
                         CASE d = c /\ c \in Unusable -> "failed"
                           [] d = c /\ c \notin Unusable -> "queue"
                           [] d # c /\ c \notin Unusable /\ d \in In("queue") /\ SameQueueName(c, d)
                                -> "replaced"
                           [] OTHER -> place[d]]
                ELSE UNCHANGED place
            BY <1>4 DEF ScanFile
        <3>2. CASE Stable(c)
            <4>1. place[c] = "incoming"
                BY <1>1, <3>2 DEF Stable
            <4>2. \A d \in Clips : d # c => place'[d] = place[d] \/ (place[d] = "queue" /\ place'[d] = "replaced")
                BY <1>1, <3>1, <3>2 DEF In
            <4>3. place'[c] \in {"failed", "queue"}
                BY <1>1, <3>1, <3>2
            <4>4. UNCHANGED <<plays, cut, pc, cur>>
                BY <1>4 DEF ScanFile, history
            <4> QED BY <4>1, <4>2, <4>3, <4>4
        <3>3. CASE ~Stable(c)
            BY <1>4, <3>1, <3>3 DEF ScanFile, history
        <3> QED BY <3>2, <3>3
    <2>2. \A c \in Clips : Due(c)' => Due(c) \/ plays[c] = 0
        BY <1>1, <2>1 DEF Due, PlayInv
    <2> QED BY <1>1, <2>1, <2>2 DEF PlayInv
<1>5. CASE ScanEnd \/ TakeNext \/ ProcessEnd
    BY <1>1, <1>2, <1>5 DEF ScanEnd, TakeNext, ProcessEnd, spool, history, Due, Told, InHand
<1>6. CASE Stage
    BY <1>2, <1>6 DEF Stage, spool, Due, Told
<1>7. CASE AwaitIdle
    BY <1>2, <1>7 DEF AwaitIdle, spool, history, Due, Told
\* The command: one more play for a clip that was due.
<1>8. CASE Write
    <2>1. cur \in Clips /\ Due(cur) /\ UNCHANGED <<place, cut, cur>>
        BY <1>1, <1>8 DEF Write, spool, InHand, Due, Told
    <2>2. pc' \in Told /\ (plays' = plays \/ plays' = [plays EXCEPT ![cur] = @ + 1])
        BY <1>8 DEF Write, Told
    <2>3. \A c \in Clips : c # cur => plays'[c] = plays[c] /\ (Due(c)' <=> Due(c))
        BY <1>1, <2>1, <2>2 DEF Due
    <2>4. ~Due(cur)' /\ plays'[cur] <= 1 + cut[cur]
        BY <1>1, <2>1, <2>2 DEF Due, PlayInv
    <2> QED BY <1>1, <2>1, <2>3, <2>4 DEF PlayInv
\* A stop before the transmitter keyed.
<1>9. CASE StopWaiting
    <2>1. /\ cur \in Clips /\ cur' = None /\ UNCHANGED <<place, plays>>
          /\ (pc = "idle" /\ cut' = cut) \/ (pc = "key" /\ cut' = [cut EXCEPT ![cur] = @ + 1])
        BY <1>1, <1>9 DEF StopWaiting, spool, InHand
    <2>2. \A c \in Clips : cut'[c] >= cut[c]
        BY <1>1, <2>1
    <2>3. \A c \in Clips : Due(c)' => plays[c] <= cut'[c]
        <3>1. CASE pc = "idle"
            BY <1>1, <2>1, <3>1 DEF Due, Told, PlayInv
        <3>2. CASE pc = "key"
            <4>1. \A c \in Clips : c # cur => (Due(c)' => Due(c))
                BY <2>1 DEF Due
            <4> QED BY <1>1, <2>1, <3>2, <4>1 DEF PlayInv
        <3> QED BY <2>1, <3>1, <3>2
    <2>4. \A c \in Clips : plays[c] <= 1 + cut'[c] /\ cut'[c] \in Nat
        BY <1>1, <2>1, <2>2 DEF PlayInv
    <2> QED BY <2>1, <2>3, <2>4 DEF PlayInv
<1>10. CASE AwaitKey \/ AwaitOff
    BY <1>2, <1>10 DEF AwaitKey, AwaitOff, spool, history, Due, Told
<1>11. CASE File
    <2>1. /\ cur \in Clips /\ UNCHANGED <<plays, cut>> /\ place'[cur] \in {"sent", "failed"}
          /\ \A c \in Clips : c # cur => place'[c] = place[c] /\ (Due(c)' => Due(c))
        BY <1>1, <1>11 DEF File, history, InHand, Due
    <2> QED BY <1>1, <2>1 DEF PlayInv, Due
\* A kill before the clip was filed.
<1>12. CASE Kill
    <2>1. /\ cur' = None /\ UNCHANGED <<place, plays>>
          /\ cut' = IF cur # None /\ plays[cur] > cut[cur] THEN [cut EXCEPT ![cur] = @ + 1] ELSE cut
        BY <1>12 DEF Kill, spool
    <2>2. \A c \in Clips : cut'[c] = IF c = cur /\ plays[c] > cut[c] THEN cut[c] + 1 ELSE cut[c]
        BY <1>1, <2>1
    <2>3. \A c \in Clips : c # cur => (Due(c)' => Due(c))
        BY <2>1 DEF Due
    <2>4. \A c \in Clips : plays[c] <= 1 + cut'[c] /\ (Due(c)' => plays[c] <= cut'[c])
        BY <1>1, <2>2, <2>3 DEF PlayInv
    <2> QED BY <2>1, <2>4 DEF PlayInv
<1>13. ASSUME NEW c \in Clips, Drop(c) PROVE PlayInv'
    <2>1. /\ place[c] = "out" /\ UNCHANGED <<pc, cur, plays, cut>>
          /\ \A d \in Clips : place'[d] = IF d = c THEN "incoming" ELSE place[d]
        BY <1>1, <1>13 DEF Drop, service, history
    <2> QED BY <2>1 DEF PlayInv, Due
<1>14. ASSUME NEW c \in Clips, FinishWriting(c) \/ Settle(c) PROVE PlayInv'
    BY <1>2, <1>14 DEF FinishWriting, Settle, spool, history, Due
<1>15. CASE GuardPasses \/ DeadlinePasses \/ SvxLink
    BY <1>2, <1>15 DEF GuardPasses, DeadlinePasses, SvxLink, PlayNext, PlayEnds, Ident, SvxUp, spool, service, history, Due
<1>16. CASE Second \/ Terminate \/ Squelch \/ Rotate \/ SvxDown
    BY <1>2, <1>16 DEF Second, Terminate, Squelch, Rotate, SvxDown, spool, service, history, Due
<1>17. CASE UNCHANGED vars
    BY <1>2, <1>17 DEF vars, spool, service, history, Due
<1> QED BY <1>3, <1>4, <1>5, <1>6, <1>7, <1>8, <1>9, <1>10, <1>11, <1>12, <1>13, <1>14, <1>15, <1>16, <1>17
        DEF Next, Service, Time

\* However the service is stopped, killed and started again, a clip is handed to SvxLink once, but for
\* the commands whose outcome the stop or the kill left open.
THEOREM HandedOverOnce == Spec => []PlayedOnce
<1>1. PlayInv => PlayedOnce
    BY DEF PlayInv, PlayedOnce
<1> QED BY <1>1, PlayStart, PlayStep, Inductive, PTL DEF Spec

-----------------------------------------------------------------------------
(* No clip is lost or cut in the spool. *)

\* A file that grows is in incoming/ and was not quiet; who replaced a clip has left incoming/ for
\* good, so that its name in queue/ is settled.
Replacer(c, d) == /\ Safe[d] = Safe[c] /\ stamp[d] = stamp[c]
                  /\ place[d] \notin {"out", "incoming"}
SpoolInv ==
    /\ \A c \in growing : place[c] = "incoming" /\ seen[c] # "quiet"
    /\ partial = {}
    /\ \A c \in Clips : place[c] = "replaced" => \E d \in Clips \ {c} : Replacer(c, d)

LEMMA SpoolStart == Init => SpoolInv
BY DEF Init, SpoolInv

LEMMA SurviveStep == Inv /\ SpoolInv /\ [Next]_vars => SpoolInv'
<1> SUFFICES ASSUME Inv, SpoolInv, [Next]_vars PROVE SpoolInv'
    OBVIOUS
<1>1. /\ place \in [Clips -> {"out", "incoming", "queue", "sent", "failed", "replaced"}]
      /\ stamp \in [Clips -> Nat] /\ growing \subseteq Clips /\ listing \subseteq Clips
      /\ seen \in [Clips -> {"no", "noted", "changed", "quiet"}]
      /\ cur \in Clips \cup {None} /\ None \notin Clips
      /\ (cur # None) <=> pc \in InHand
      /\ cur # None => place[cur] = "queue"
      /\ \A c \in Clips : seen[c] # "no" => place[c] = "incoming"
    BY NoClipAssumption DEF Inv, SpoolOK, HandOK
<1>2. ASSUME UNCHANGED <<place, stamp, partial>>, growing' \subseteq growing,
             \A c \in growing' : seen'[c] # "quiet"
      PROVE  SpoolInv'
    BY <1>2 DEF SpoolInv, Replacer
<1>3. CASE Start
    BY <1>1, <1>2, <1>3 DEF Start, spool
<1>4. CASE ScanFile
    <2>1. PICK c \in listing :
            IF Stable(c)
            THEN /\ seen' = NotesWithout(c)
                 /\ stamp' = [stamp EXCEPT ![c] = IF c \in Unusable THEN @ ELSE clock]
                 /\ place' = [d \in Clips |->
                         CASE d = c /\ c \in Unusable -> "failed"
                           [] d = c /\ c \notin Unusable -> "queue"
                           [] d # c /\ c \notin Unusable /\ d \in In("queue") /\ SameQueueName(c, d)
                                -> "replaced"
                           [] OTHER -> place[d]]
            ELSE /\ seen' = [seen EXCEPT ![c] = IF @ \in {"no", "changed"} THEN "noted" ELSE @]
                 /\ UNCHANGED <<place, stamp>>
        BY <1>4 DEF ScanFile
    <2>2. UNCHANGED <<growing, partial>> /\ c \in Clips
        BY <1>1, <1>4 DEF ScanFile, history
    <2>3. CASE Stable(c)
        <3>1. place[c] = "incoming" /\ c \notin growing
            BY <1>1, <2>2, <2>3 DEF Stable, SpoolInv
        <3>2. \A d \in Clips : d # c => stamp'[d] = stamp[d] /\ seen'[d] = seen[d]
            BY <1>1, <2>1, <2>2, <2>3 DEF NotesWithout
        <3>3. \A d \in Clips : d # c =>
                 \/ place'[d] = place[d]
                 \/ place[d] = "queue" /\ place'[d] = "replaced" /\ SameQueueName(c, d) /\ c \notin Unusable
            <4> TAKE d \in Clips
            <4> SUFFICES ASSUME d # c PROVE \/ place'[d] = place[d]
                                            \/ /\ place[d] = "queue" /\ place'[d] = "replaced"
                                               /\ SameQueueName(c, d) /\ c \notin Unusable
                OBVIOUS
            <4> DEFINE moved == c \notin Unusable /\ d \in In("queue") /\ SameQueueName(c, d)
            <4>1. place'[d] = IF moved THEN "replaced" ELSE place[d]
                BY <2>1, <2>3
            <4>2. moved => place[d] = "queue"
                BY DEF In
            <4> QED BY <4>1, <4>2
        <3>4. place'[c] \in {"failed", "queue"}
            BY <2>1, <2>2, <2>3
        <3>5. \A d \in growing' : place'[d] = "incoming" /\ seen'[d] # "quiet"
            BY <1>1, <2>2, <3>1, <3>2, <3>3 DEF SpoolInv
        <3>6. \A d \in Clips : place[d] \notin {"out", "incoming"} => d # c /\ place'[d] \notin {"out", "incoming"}
            BY <3>1, <3>3
        <3>7. ASSUME NEW e \in Clips, place'[e] = "replaced" PROVE \E d \in Clips \ {e} : Replacer(e, d)'
            <4>1. e # c
                BY <3>4, <3>7
            <4>2. CASE place[e] = "replaced"
                <5>1. PICK d \in Clips \ {e} : Replacer(e, d)
                    BY <4>2 DEF SpoolInv
                <5>2. Replacer(e, d)'
                    BY <3>2, <3>6, <4>1, <5>1 DEF Replacer
                <5> QED BY <5>1, <5>2
            <4>3. CASE place[e] # "replaced"
                <5>1. SameQueueName(c, e)
                    BY <3>3, <3>7, <4>1, <4>3
                <5>2. Replacer(e, c)'
                    BY <3>4, <5>1 DEF Replacer, SameQueueName
                <5> QED BY <2>2, <4>1, <5>2
            <4> QED BY <4>2, <4>3
        <3> QED BY <2>2, <3>5, <3>7 DEF SpoolInv
    <2>4. CASE ~Stable(c)
        <3>1. UNCHANGED <<place, stamp>> /\ \A d \in Clips : seen'[d] = "quiet" => seen[d] = "quiet"
            BY <1>1, <2>1, <2>4
        <3> QED BY <1>1, <1>2, <2>2, <3>1 DEF SpoolInv
    <2> QED BY <2>3, <2>4
<1>5. CASE Stage
    <2>1. cur \in Clips /\ cur \notin growing
        BY <1>1, <1>5 DEF Stage, InHand, SpoolInv
    <2> QED BY <1>2, <1>5, <2>1 DEF Stage, spool, SpoolInv
<1>6. CASE File
    <2>1. /\ cur \in Clips /\ cur \notin growing /\ UNCHANGED <<stamp, growing, seen, partial>> /\ place'[cur] \in {"sent", "failed"}
          /\ \A c \in Clips : c # cur => place'[c] = place[c]
        BY <1>1, <1>6 DEF File, history, InHand, SpoolInv
    <2>2. \A c, d \in Clips : Replacer(c, d) => Replacer(c, d)'
        BY <2>1 DEF Replacer
    <2>3. \A c \in Clips : place'[c] = "replaced" => place[c] = "replaced"
        BY <2>1
    <2>4. \A c \in growing : place'[c] = "incoming"
        BY <1>1, <2>1 DEF SpoolInv
    <2> QED BY <2>1, <2>2, <2>3, <2>4 DEF SpoolInv
<1>7. ASSUME NEW c \in Clips, Drop(c) PROVE SpoolInv'
    <2>1. /\ place[c] = "out" /\ seen[c] = "no" /\ UNCHANGED <<stamp, seen, partial>> /\ growing' \subseteq growing \cup {c}
          /\ \A d \in Clips : place'[d] = IF d = c THEN "incoming" ELSE place[d]
        BY <1>1, <1>7 DEF Drop, service, history
    <2>2. \A d, e \in Clips : Replacer(d, e) => Replacer(d, e)'
        BY <2>1 DEF Replacer
    <2>3. \A d \in growing' : place'[d] = "incoming" /\ seen'[d] # "quiet"
        BY <1>1, <2>1 DEF SpoolInv
    <2> QED BY <2>1, <2>2, <2>3 DEF SpoolInv
<1>8. ASSUME NEW c \in Clips, FinishWriting(c) \/ Settle(c) PROVE SpoolInv'
    <2>1. growing' \subseteq growing /\ \A d \in growing' : seen'[d] # "quiet"
        BY <1>1, <1>8 DEF FinishWriting, Settle, spool, SpoolInv
    <2> QED BY <1>2, <1>8, <2>1 DEF FinishWriting, Settle, spool, history
<1>9. ASSUME UNCHANGED <<place, stamp, growing, seen, partial>> PROVE SpoolInv'
    BY <1>2, <1>9 DEF SpoolInv
<1>10. CASE ScanEnd \/ TakeNext \/ ProcessEnd \/ AwaitIdle \/ StopWaiting \/ Write
    BY <1>9, <1>10 DEF ScanEnd, TakeNext, ProcessEnd, AwaitIdle, StopWaiting, Write, spool, history
<1>11. CASE AwaitKey \/ AwaitOff \/ Kill \/ GuardPasses \/ DeadlinePasses
    BY <1>9, <1>11 DEF AwaitKey, AwaitOff, Kill, GuardPasses, DeadlinePasses, spool, service, history
<1>12. CASE SvxLink
    BY <1>9, <1>12 DEF SvxLink, PlayNext, PlayEnds, Ident, SvxUp, spool, service, history
<1>13. CASE Second \/ Terminate \/ Squelch \/ Rotate \/ SvxDown \/ UNCHANGED vars
    BY <1>9, <1>13 DEF Second, Terminate, Squelch, Rotate, SvxDown, vars, spool, service, history
<1> QED BY <1>3, <1>4, <1>5, <1>6, <1>7, <1>8, <1>10, <1>11, <1>12, <1>13 DEF Next, Service, Time

\* What is staged had stopped growing, and a clip is replaced only by one with the same sanitized name
\* moved to queue/ in the same second.
THEOREM NoClipIsLost == Spec => []ClipsSurvive
<1>1. SpoolInv => ClipsSurvive
    BY DEF SpoolInv, Replacer, ClipsSurvive, In
<1> QED BY <1>1, SpoolStart, SurviveStep, Inductive, PTL DEF Spec

-----------------------------------------------------------------------------
(* An idle channel is idle. *)

\* The service knows the channel once it has read what was logged, unless it missed lines; SvxLink
\* idents between clips only.
ChannelInv ==
    /\ ~(ident /\ playing # None)
    /\ ~blind => (Heard(openRx, rxLine) <=> rx) /\ (Heard(txOn, txLine) <=> Keyed)

LEMMA ChannelStart == Init => ChannelInv
BY NoClipAssumption DEF Init, ChannelInv, Heard, Keyed

\* What is logged of the transmitter is what it does.
LEMMA Logged ==
    ASSUME HeardOK, SvxOK, NEW on \in BOOLEAN, on <=> Keyed', Heard(txOn, txLine) <=> Keyed, LogTx(on), txOn' = txOn
    PROVE  Heard(txOn', txLine') <=> Keyed'
<1>1. on # None
    BY NoClipAssumption
<1>2. Keyed \in BOOLEAN
    BY DEF SvxOK, Keyed
<1>3. CASE on # Keyed
    BY <1>1, <1>3 DEF LogTx, Heard
<1>4. CASE on = Keyed
    <2>1. txLine' = txLine
        BY <1>2, <1>4 DEF LogTx
    <2> QED BY <1>4, <2>1 DEF Heard
<1> QED BY <1>3, <1>4

LEMMA ChannelStep == Inv /\ ChannelInv /\ [Next]_vars => ChannelInv'
<1> SUFFICES ASSUME Inv, ChannelInv, [Next]_vars PROVE ChannelInv'
    OBVIOUS
<1>1. HeardOK /\ SvxOK /\ None \notin BOOLEAN /\ None \notin Clips \X Nat
    BY NoClipAssumption DEF Inv, AirOK, HeardOK, SvxOK
\* A poll reads what there is.
<1>2. ASSUME UNCHANGED <<rx, ident, playing, blind>>,
             Poll \/ UNCHANGED <<openRx, txOn, rxLine, txLine>>
      PROVE  ChannelInv'
    <2>1. CASE Poll
        BY <1>2, <2>1 DEF Poll, Heard, Keyed, ChannelInv
    <2>2. CASE UNCHANGED <<openRx, txOn, rxLine, txLine>>
        BY <1>2, <2>2 DEF Heard, Keyed, ChannelInv
    <2> QED BY <1>2, <2>1, <2>2
<1>3. CASE Start
    BY <1>3 DEF Start, svxlink, Heard, Keyed, ChannelInv
<1>4. CASE Squelch
    <2>1. (~rx) # None /\ rx \in BOOLEAN
        BY <1>1 DEF SvxOK
    <2>2. /\ rx' = ~rx /\ rxLine' = ~rx /\ UNCHANGED <<openRx, txOn, txLine, ident, playing, blind>>
        BY <1>4 DEF Squelch, channel, history
    <2>3. Heard(openRx, rxLine)' <=> rx'
        BY <2>1, <2>2 DEF Heard
    <2>4. (Heard(txOn, txLine)' <=> Heard(txOn, txLine)) /\ (Keyed' <=> Keyed)
        BY <2>2 DEF Heard, Keyed
    <2> QED BY <2>2, <2>3, <2>4 DEF ChannelInv
\* SvxLink plays and idents.
<1>5. ASSUME UNCHANGED <<openRx, txOn, rxLine, rx, blind>>, ~(ident' /\ playing' # None),
             NEW on \in BOOLEAN, on <=> Keyed', LogTx(on)
      PROVE  ChannelInv'
    <2>1. CASE blind
        BY <1>5, <2>1 DEF ChannelInv
    <2>2. CASE ~blind
        <3>1. Heard(txOn', txLine') <=> Keyed'
            BY <1>1, <1>5, <2>2, Logged DEF ChannelInv
        <3>2. Heard(openRx, rxLine)' <=> rx'
            BY <1>5, <2>2 DEF Heard, ChannelInv
        <3> QED BY <1>5, <3>1, <3>2 DEF ChannelInv, Heard
    <2> QED BY <2>1, <2>2
<1>6. CASE PlayNext
    <2>1. UNCHANGED <<openRx, txOn, rxLine, rx, blind, ident>> /\ ~ident
        BY <1>6 DEF PlayNext, channel, history
    <2>2. CASE Head(pending) \in staged
        <3>1. Head(pending) # None
            BY <1>1, <1>6, HeadTailProperties DEF PlayNext, SvxOK
        <3>2. playing' # None /\ LogTx(TRUE)
            BY <1>6, <2>2, <3>1 DEF PlayNext
        <3> QED BY <1>5, <2>1, <3>2 DEF Keyed
    <2>3. CASE Head(pending) \notin staged
        BY <1>2, <1>6, <2>1, <2>3 DEF PlayNext
    <2> QED BY <2>2, <2>3
<1>7. CASE PlayEnds
    <2>1. /\ UNCHANGED <<openRx, txOn, rxLine, rx, blind, ident>> /\ playing # None /\ playing' = None /\ LogTx(FALSE)
        BY <1>7 DEF PlayEnds, channel, history
    <2>2. ~Keyed'
        BY <2>1 DEF Keyed, ChannelInv
    <2> QED BY <1>5, <2>1, <2>2
<1>8. CASE Ident
    <2>1. /\ UNCHANGED <<openRx, txOn, rxLine, rx, blind, playing>> /\ playing = None /\ ident' = ~ident /\ LogTx(~ident)
        BY <1>8 DEF Ident, channel, history
    <2>2. (~ident) \in BOOLEAN /\ ((~ident) <=> Keyed')
        BY <2>1 DEF Keyed
    <2> QED BY <1>5, <2>1, <2>2
<1>9. CASE Rotate
    BY <1>9 DEF Rotate, channel, svxlink, Heard, Keyed, ChannelInv
<1>10. CASE SvxDown
    BY <1>10 DEF SvxDown, channel, lines, Heard, Keyed, ChannelInv
<1>11. CASE ScanFile \/ ScanEnd \/ TakeNext \/ Stage \/ StopWaiting \/ File
    BY <1>2, <1>11 DEF ScanFile, ScanEnd, TakeNext, Stage, StopWaiting, File, channel, svxlink, lines, history
<1>12. CASE ProcessEnd \/ AwaitIdle \/ Write
    BY <1>2, <1>12 DEF ProcessEnd, AwaitIdle, Write, channel, svxlink, lines, history
<1>13. CASE AwaitKey \/ AwaitOff
    BY <1>2, <1>13 DEF AwaitKey, AwaitOff, channel, svxlink, lines, history
<1>14. ASSUME NEW c \in Clips, FinishWriting(c) \/ Settle(c) \/ Drop(c) PROVE ChannelInv'
    BY <1>2, <1>14 DEF FinishWriting, Settle, Drop, channel, svxlink, lines, history
<1>15. CASE GuardPasses \/ DeadlinePasses \/ Second \/ Terminate \/ Kill \/ SvxUp
    BY <1>2, <1>15 DEF GuardPasses, DeadlinePasses, Second, Terminate, Kill, SvxUp, channel, svxlink, lines, history
<1>16. CASE UNCHANGED vars
    BY <1>2, <1>16 DEF vars, channel, svxlink, lines, history
<1> QED BY <1>3, <1>4, <1>6, <1>7, <1>8, <1>9, <1>10, <1>11, <1>12, <1>13, <1>14, <1>15, <1>16
        DEF Next, Service, Time, SvxLink

\* A clip is never started over another one, an ident or somebody talking that was on the air when the
\* wait for the channel ended, unless the wait timed out or log lines were missed.
THEOREM StartsOnAFreeChannel == Spec => IdleMeansIdle
<1> DEFINE Started == pc = "idle" /\ pc' = "write" /\ ~late /\ ~blind => ~Keyed /\ ~rx
<1>1. ASSUME ChannelInv, [Next]_vars PROVE [Started]_vars
    <2>1. SUFFICES ASSUME Next, pc = "idle", pc' = "write", ~late, ~blind PROVE ~Keyed /\ ~rx
        BY <1>1
    <2>2. AwaitIdle
        <3>1. ~(Start \/ ScanFile \/ ScanEnd \/ TakeNext \/ ProcessEnd \/ Stage \/ StopWaiting \/ Write \/ File)
            BY <2>1 DEF Start, ScanFile, ScanEnd, TakeNext, ProcessEnd, Stage, StopWaiting, Write, File
        <3>2. ~(AwaitKey \/ AwaitOff \/ Time)
            BY <2>1 DEF AwaitKey, AwaitOff, Time, GuardPasses, DeadlinePasses, FinishWriting, Settle, service
        <3>3. ~(SvxLink \/ \E c \in Clips : Drop(c))
            BY <2>1 DEF SvxLink, PlayNext, PlayEnds, Ident, SvxUp, Drop, service
        <3>4. ~(Second \/ Terminate \/ Kill \/ Squelch \/ Rotate \/ SvxDown)
            BY <2>1 DEF Second, Terminate, Kill, Squelch, Rotate, SvxDown, service
        <3> QED BY <2>1, <3>1, <3>2, <3>3, <3>4 DEF Next, Service
    <2>3. ~openRx' /\ ~txOn' /\ Poll
        BY <2>1, <2>2 DEF AwaitIdle, Idle
    <2> QED BY <1>1, <2>1, <2>3 DEF Poll, ChannelInv
<1> QED BY <1>1, ChannelStart, ChannelStep, Inductive, PTL DEF Spec, IdleMeansIdle
=============================================================================
