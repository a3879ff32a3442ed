------------------------------ MODULE StreamHub ------------------------------
(***************************************************************************)
(* The live transmission audio of the dashboard: the hub that fans one     *)
(* upstream connection out to every listener (ui/tx_stream.py), its route  *)
(* (ui/routers/dashboard.py) and the player that starts, stops and retries *)
(* in each browser tab (ui/static/tx-audio.js, on-air.js).                 *)
(*                                                                         *)
(* The hub runs on one event loop: what it does between two awaits is one  *)
(* step.  The lock is fair: `line` is its holder and then those who wait.  *)
(***************************************************************************)
EXTENDS Integers, Sequences, SequencesExt, FiniteSets

CONSTANTS Tabs,      \* open dashboards
          Conns,     \* requests to /dashboard/tx-stream at a time
          Slots,     \* pump tasks at a time
          Urls,      \* what UI_DASHBOARD_TX_STREAM_URL may be; Nowhere when blank
          Nowhere, Nobody,
          QueueMax,  \* _QUEUE_MAXSIZE
          Scenarios  \* bounds on what the world does: [key, url, trouble, quiet |-> n]

VARIABLES
    url,       \* the setting
    onAir,     \* what /dashboard/tx-state answers
    hub,       \* [url, listeners, pump, reaper]: the StreamHub's attributes
    line,      \* the lock
    awaiting,  \* the pump that the lock's holder has cancelled and awaits
    task,      \* the pump tasks
    conn,      \* the requests
    tab,       \* the players
    world      \* what the world may still do

hubVars == <<url, onAir, hub, line, awaiting, task, conn, tab, world>>
server  == <<hub, line, awaiting, task>>

Reaper == 0    \* in the line, where a request has a number
Idle   == [state |-> "free", tab |-> Nobody, url |-> Nowhere, queue |-> <<>>, cut |-> FALSE]
Request == [state : {"free", "asking", "queued", "open"}, tab : Tabs \cup {Nobody},
            url : Urls \cup {Nowhere}, queue : Seq({"chunk", "end"}), cut : BOOLEAN]
Player == [want : BOOLEAN, playing : BOOLEAN, timer : BOOLEAN]
Silent == [want |-> FALSE, playing |-> FALSE, timer |-> FALSE]
NewHub == [url |-> Nowhere, listeners |-> {}, pump |-> Nobody, reaper |-> "none"]

ASSUME HubAssumption == /\ Conns \subseteq Nat \ {Reaper} /\ Slots # {} /\ QueueMax \in Nat \ {0}
                        /\ Nobody \notin Tabs \cup Slots

HubTypeOK ==
    /\ url \in Urls \cup {Nowhere} /\ onAir \in BOOLEAN
    /\ hub \in [url : Urls \cup {Nowhere}, listeners : SUBSET Conns, pump : Slots \cup {Nobody},
                reaper : {"none", "sleeping", "waiting"}]
    /\ line \in Seq(Conns \cup {Reaper}) /\ awaiting \in Slots \cup {Nobody}
    /\ task \in [Slots -> {"done", "connecting", "streaming", "closing"}]
    /\ conn \in [Conns -> Request] /\ \A c \in Conns : Len(conn[c].queue) <= QueueMax
    /\ tab \in [Tabs -> Player]

HubInit ==
    /\ url \in Urls /\ onAir = FALSE /\ world \in Scenarios
    /\ hub = NewHub /\ line = <<>> /\ awaiting = Nobody /\ task = [s \in Slots |-> "done"]
    /\ conn = [c \in Conns |-> Idle] /\ tab = [t \in Tabs |-> Silent]

Spend(what) == world[what] > 0 /\ world' = [world EXCEPT ![what] = @ - 1]

-----------------------------------------------------------------------------
\* _offer drops the oldest item of a full queue, _broadcast offers to every listener.
Pile(q, item)  == Append(q, item)    \* a mutant: no bound
Offer(q, item) == Append(IF Len(q) = QueueMax THEN Tail(q) ELSE q, item)
Broadcast(cs, ls, item) ==
    [c \in Conns |-> IF c \in ls THEN [cs[c] EXCEPT !.queue = Offer(@, item)] ELSE cs[c]]

Running(p) == p # Nobody /\ task[p] # "done"

\* `self._pump is None or self._pump.done()`, negated: no new pump.  A mutant first.
Known(p)  == p # Nobody
Serves(p) == p # Nobody /\ task[p] # "done"

UnsubscribeOnly(h, c) == [h EXCEPT !.listeners = @ \ {c}]    \* a mutant: no reaper
Unsubscribe(h, c) ==
    [h EXCEPT !.listeners = @ \ {c},
              !.reaper = IF h.listeners \ {c} = {} /\ @ = "none" THEN "sleeping" ELSE @]

-----------------------------------------------------------------------------
(* The player of a tab. *)

Cut(cs, t)  == [c \in Conns |-> IF cs[c].tab = t THEN [cs[c] EXCEPT !.cut = TRUE] ELSE cs[c]]
OnDrop(p)   == IF p.playing THEN [p EXCEPT !.playing = FALSE, !.timer = @ \/ p.want] ELSE p
Dropped(c)  == IF conn[c].cut THEN tab ELSE [tab EXCEPT ![conn[c].tab] = OnDrop(@)]

StartPlaying(t) ==
    \E c \in Conns :
        /\ conn[c].state = "free" /\ \A d \in Conns : conn[d].state = "free" => c <= d
        /\ conn' = [Cut(conn, t) EXCEPT ![c] = [Idle EXCEPT !.state = "asking", !.tab = t]]

\* on-air.js polls /dashboard/tx-state and tells tx-audio.js; a failed poll is an idle one.
Told(t, answer) ==
    /\ tab' = [tab EXCEPT ![t] = [want |-> answer, playing |-> answer, timer |-> FALSE]]
    /\ CASE answer /\ ~tab[t].playing -> StartPlaying(t)
         [] ~answer -> conn' = Cut(conn, t)
         [] OTHER   -> UNCHANGED conn
    /\ UNCHANGED <<url, onAir, server>>

TxState(t)   == Told(t, onAir) /\ UNCHANGED world
PollFails(t) == Spend("quiet") /\ Told(t, FALSE)

Retry(t) ==
    /\ tab[t].timer
    /\ IF tab[t].want
       THEN StartPlaying(t) /\ tab' = [tab EXCEPT ![t].timer = FALSE, ![t].playing = TRUE]
       ELSE tab' = [tab EXCEPT ![t].timer = FALSE] /\ UNCHANGED conn
    /\ UNCHANGED <<url, onAir, server, world>>

\* The tab is hidden, or a clip of the feed is played: stop().
Quiet(t) ==
    /\ tab[t].playing /\ Spend("quiet")
    /\ tab' = [tab EXCEPT ![t].playing = FALSE, ![t].timer = FALSE] /\ conn' = Cut(conn, t)
    /\ UNCHANGED <<url, onAir, server>>

-----------------------------------------------------------------------------
(* The route and subscribe. *)

Ask(c) ==
    /\ conn[c].state = "asking"
    /\ IF url = Nowhere
       THEN conn' = [conn EXCEPT ![c] = Idle] /\ tab' = Dropped(c) /\ UNCHANGED line
       ELSE /\ conn' = [conn EXCEPT ![c].state = "queued", ![c].url = url]
            /\ line' = Append(line, c) /\ UNCHANGED tab
    /\ UNCHANGED <<url, onAir, hub, awaiting, task, world>>

Holds(x) == line # <<>> /\ Head(line) = x

\* The rest of subscribe once what had to be stopped is: cancels the reaper, adds the
\* queue, starts a pump unless one runs.
Enlist(c, pump, cs) ==
    LET s == IF Serves(pump) THEN pump ELSE CHOOSE x \in Slots : task[x] = "done"
    IN  /\ hub' = [url |-> conn[c].url, listeners |-> hub.listeners \cup {c}, pump |-> s, reaper |-> "none"]
        /\ conn' = [cs EXCEPT ![c].state = "open"]
        /\ task' = IF Serves(pump) THEN task ELSE [task EXCEPT ![s] = "connecting"]
        /\ line' = RemoveFirst(Tail(line), Reaper) /\ awaiting' = Nobody

\* _stop_locked up to its await.
Cancel(h) == /\ hub' = [h EXCEPT !.pump = Nobody] /\ awaiting' = h.pump
             /\ task' = [task EXCEPT ![h.pump] = "closing"] /\ UNCHANGED <<conn, line>>

Subscribe(c) ==
    /\ Holds(c) /\ awaiting = Nobody
    /\ CASE conn[c].url = hub.url -> Enlist(c, hub.pump, conn)
         [] conn[c].url # hub.url /\ Running(hub.pump) -> Cancel(hub)
         [] OTHER -> Enlist(c, Nobody, Broadcast(conn, hub.listeners, "end"))
    /\ UNCHANGED <<url, onAir, tab, world>>

Resubscribe(c) ==
    /\ Holds(c) /\ awaiting # Nobody /\ task[awaiting] = "done"
    /\ Enlist(c, Nobody, Broadcast(conn, hub.listeners, "end"))
    /\ UNCHANGED <<url, onAir, tab, world>>

\* body(): the next item goes to the browser, None ends the response.
Deliver(c) ==
    /\ conn[c].state = "open" /\ conn[c].queue # <<>>
    /\ IF Head(conn[c].queue) = "chunk"
       THEN conn' = [conn EXCEPT ![c].queue = Tail(@)] /\ UNCHANGED <<hub, tab>>
       ELSE conn' = [conn EXCEPT ![c] = Idle] /\ hub' = Unsubscribe(hub, c) /\ tab' = Dropped(c)
    /\ UNCHANGED <<url, onAir, line, awaiting, task, world>>

Disconnect(c) ==
    /\ conn[c].state = "open" /\ conn[c].cut
    /\ conn' = [conn EXCEPT ![c] = Idle] /\ hub' = Unsubscribe(hub, c)
    /\ UNCHANGED <<url, onAir, line, awaiting, task, tab, world>>

-----------------------------------------------------------------------------
(* The reaper and the pump. *)

ReaperWakes ==
    /\ hub.reaper = "sleeping" /\ hub' = [hub EXCEPT !.reaper = "waiting"] /\ line' = Append(line, Reaper)
    /\ UNCHANGED <<url, onAir, awaiting, task, conn, tab, world>>

Reap ==
    /\ Holds(Reaper) /\ awaiting = Nobody
    /\ IF hub.listeners = {} /\ Running(hub.pump)
       THEN Cancel([hub EXCEPT !.reaper = "none"])
       ELSE /\ hub' = [hub EXCEPT !.reaper = "none", !.pump = IF hub.listeners = {} THEN Nobody ELSE @]
            /\ line' = Tail(line) /\ UNCHANGED <<awaiting, task, conn>>
    /\ UNCHANGED <<url, onAir, tab, world>>

Reaped ==
    /\ Holds(Reaper) /\ awaiting # Nobody /\ task[awaiting] = "done"
    /\ conn' = Broadcast(conn, hub.listeners, "end") /\ line' = Tail(line) /\ awaiting' = Nobody
    /\ UNCHANGED <<url, onAir, hub, task, tab, world>>

Becomes(s, state) == task' = [task EXCEPT ![s] = state] /\ UNCHANGED <<url, onAir, hub, line, awaiting, tab>>

Connect(s) == task[s] = "connecting" /\ Becomes(s, "streaming") /\ UNCHANGED <<conn, world>>

Chunk(s) ==
    /\ task[s] = "streaming"
    /\ IF hub.listeners = {} THEN Becomes(s, "closing") /\ UNCHANGED conn
       ELSE Becomes(s, "streaming") /\ conn' = Broadcast(conn, hub.listeners, "chunk")
    /\ UNCHANGED world

\* The connection is refused, fails or ends.
UpstreamEnds(s) == task[s] \in {"connecting", "streaming"} /\ Spend("trouble") /\ Becomes(s, "closing")
                   /\ UNCHANGED conn

\* The client and its connection are closed; `finally` tells whoever listens by then.
Close(s) == /\ task[s] = "closing" /\ Becomes(s, "done")
            /\ conn' = Broadcast(conn, hub.listeners, "end") /\ UNCHANGED world

-----------------------------------------------------------------------------
(* The world. *)

Key == Spend("key") /\ onAir' = ~onAir /\ UNCHANGED <<url, server, conn, tab>>

Configure(u) == u # url /\ Spend("url") /\ url' = u /\ UNCHANGED <<onAir, server, conn, tab>>

\* aclose, and a new process.
RestartUi ==
    /\ Spend("trouble") /\ hub' = NewHub /\ line' = <<>> /\ awaiting' = Nobody
    /\ task' = [s \in Slots |-> "done"] /\ conn' = [c \in Conns |-> Idle]
    /\ tab' = [t \in Tabs |-> IF \E c \in Conns : conn[c].tab = t /\ ~conn[c].cut THEN OnDrop(tab[t])
                              ELSE tab[t]]
    /\ UNCHANGED <<url, onAir>>

HubNext ==
    \/ \E t \in Tabs : TxState(t) \/ PollFails(t) \/ Retry(t) \/ Quiet(t)
    \/ \E c \in Conns : Ask(c) \/ Subscribe(c) \/ Resubscribe(c) \/ Deliver(c) \/ Disconnect(c)
    \/ ReaperWakes \/ Reap \/ Reaped
    \/ \E s \in Slots : Connect(s) \/ Chunk(s) \/ UpstreamEnds(s) \/ Close(s)
    \/ Key \/ RestartUi
    \/ \E u \in Urls \cup {Nowhere} : Configure(u)

\* The event loop runs every task that is ready, timers fire, tabs poll; upstream may be
\* silent for ever (read=None), so Chunk is not fair.
HubFairness ==
    /\ \A t \in Tabs : WF_hubVars(TxState(t)) /\ WF_hubVars(Retry(t))
    /\ \A c \in Conns : /\ WF_hubVars(Ask(c)) /\ WF_hubVars(Subscribe(c)) /\ WF_hubVars(Resubscribe(c))
                        /\ WF_hubVars(Deliver(c)) /\ WF_hubVars(Disconnect(c))
    /\ WF_hubVars(ReaperWakes) /\ WF_hubVars(Reap) /\ WF_hubVars(Reaped)
    /\ \A s \in Slots : WF_hubVars(Connect(s)) /\ WF_hubVars(Close(s))

HubSpec == HubInit /\ [][HubNext]_hubVars /\ HubFairness

-----------------------------------------------------------------------------
\* "This module opens ONE upstream connection" (tx_stream.py:6), across a change of the
\* url, a reap and a pump that is still closing.
OneUpstream == \A s, r \in Slots : task[s] # "done" /\ task[r] # "done" => s = r

\* No listener is left on a queue nobody will write to: a pump that runs, or one that is
\* being stopped, or the end-of-stream mark is ahead of it, though a full queue drops its
\* oldest item and the pump may have ended before the listener came.
NobodyWaitsInVain ==
    \A c \in hub.listeners : \/ "end" \in ToSet(conn[c].queue)
                             \/ Running(hub.pump) \/ awaiting # Nobody

HubKeepsFaith == OneUpstream /\ NobodyWaitsInVain

\* "Keep the upstream connection this long after the last listener leaves": it is let go,
\* even when nothing arrives on it.
IdleIsReleased == hub.listeners = {} ~> (hub.listeners # {} \/ \A s \in Slots : task[s] = "done")

\* A tab that keeps wanting sound is heard again after every fault: a listener that joined
\* a pump which was closing is dropped, and retries.
Hears(t) == \E c \in hub.listeners : conn[c].tab = t /\ ~conn[c].cut /\ Running(hub.pump)
                                     /\ task[hub.pump] = "streaming"
SoundReturns == \A t \in Tabs : <>[](tab[t].want /\ url # Nowhere) => []<>Hears(t)
=============================================================================
