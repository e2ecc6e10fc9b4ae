----------------------------- MODULE LiveScreens -----------------------------
(***************************************************************************)
(* Changes announced to browsers (src/backend/src/lib/live_events.py,      *)
(* api/live.py; src/frontend/src/utils/live.ts, api/client.ts).            *)
(*                                                                         *)
(* After a request that changed something the server puts an event in the  *)
(* queue of every open stream; a full queue drops it.  A browser that      *)
(* receives one clears its cache and, a moment later, loads its screen     *)
(* anew, or when the screen is looked at.  A stream ends with the network, *)
(* with its age, or with the server; the browser opens another, and        *)
(* refreshes everything if it was away for long; not for the first one.    *)
(*                                                                         *)
(* One browser, one screen and one cached list, all of which follow every  *)
(* change; the streams the browser left are still the server's.            *)
(***************************************************************************)
EXTENDS Naturals, Sequences, FiniteSets, NullValue

CONSTANTS
    Stream, QueueMax,
    MaxChange, MaxLoss, MaxStops    \* bounds on changes, lost streams, restarts

Event == {"event", "close"}

ASSUME LiveNull == Null \notin Stream /\ Null \notin Seq(Event)

VARIABLES
    changes, untold,    \* changes committed, those not yet announced
    queue,              \* of each open stream, what waits in it
    closing, waking,    \* the server stops; its streams are still to be woken
    link, source,       \* the browser's connection: its stage and its stream
    downSince,          \* whether one was lost, or not to be had, since
    away,               \* Null, or whether something was announced meanwhile
    shown, due, pending, visible, load,     \* the screen
    entry, gets, joinable, saving,          \* the cached list
    lossesLeft, stopsLeft,
    missed, dropped     \* history: of announcements that never came

serverVars == <<changes, untold, queue, closing, waking, stopsLeft>>
linkVars == <<link, source, downSince, away, lossesLeft>>
screenVars == <<shown, due, pending, visible, load>>
listVars == <<entry, gets, joinable, saving>>
historyVars == <<missed, dropped>>
liveVars == <<serverVars, linkVars, screenVars, listVars, historyVars>>

Open == {s \in Stream : queue[s] # Null}
Full(s) == Len(queue[s]) >= QueueMax

-----------------------------------------------------------------------------
(* The server. *)

Commit ==
    /\ changes < MaxChange
    /\ changes' = changes + 1 /\ untold' = untold \cup {changes + 1}
    /\ UNCHANGED <<queue, closing, waking, stopsLeft, linkVars, screenVars, listVars, historyVars>>

Announce(c) ==
    /\ c \in untold
    /\ untold' = untold \ {c}
    /\ queue' = [s \in Stream |-> IF s \in Open /\ ~ Full(s) THEN Append(queue[s], "event")
                                                            ELSE queue[s]]
    /\ away' = IF away = Null THEN Null ELSE TRUE
    /\ IF source \in Open /\ Full(source)
       THEN missed' = TRUE /\ dropped' = TRUE ELSE UNCHANGED historyVars
    /\ UNCHANGED <<changes, closing, waking, stopsLeft, link, source, downSince, lossesLeft,
                   screenVars, listVars>>

Signal ==
    /\ ~ closing /\ stopsLeft > 0
    /\ closing' = TRUE /\ waking' = TRUE
    /\ stopsLeft' = stopsLeft - 1
    /\ UNCHANGED <<changes, untold, queue, linkVars, screenVars, listVars, historyVars>>

WakeAll ==
    /\ waking
    /\ waking' = FALSE
    /\ queue' = [s \in Stream |-> IF s \in Open /\ ~ Full(s) THEN Append(queue[s], "close")
                                                            ELSE queue[s]]
    /\ UNCHANGED <<changes, untold, closing, stopsLeft, linkVars, screenVars, listVars, historyVars>>

(* A ticket that is refused, or of no use any more: another is asked for.   *)
RetryLater == link' = "down" /\ downSince' = TRUE /\ UNCHANGED <<source, away>>

(* The requests under way end before the process does, which forgets the    *)
(* tickets that it gave.                                                    *)
Restart ==
    /\ closing /\ Open = {} /\ untold = {}
    /\ closing' = FALSE /\ waking' = FALSE
    /\ IF link = "ticket" THEN RetryLater ELSE UNCHANGED <<link, source, downSince, away>>
    /\ UNCHANGED <<changes, untold, queue, stopsLeft, lossesLeft, screenVars, listVars, historyVars>>

(* Wrong on purpose: a stream only ends when it is told to.                 *)
MayEndWhenTold(s) == queue[s] # <<>> /\ Head(queue[s]) = "close"

(* The loop of a stream looks for the end before it takes, or waits for,    *)
(* the next event.                                                          *)
MayEnd(s) == closing \/ (queue[s] # <<>> /\ Head(queue[s]) = "close")

Lost == \E i \in DOMAIN queue[source] : queue[source][i] = "event"

(* Without a stream nothing is served from the cache for long.              *)
Capped(e) == IF e = Null THEN Null ELSE [e EXCEPT !.long = FALSE]

(* The browser finds its stream gone.                                       *)
GoneFromBrowser ==
    /\ link' = "down" /\ source' = Null /\ downSince' = TRUE
    /\ away' = (away = TRUE \/ Lost)
    /\ entry' = Capped(entry)
    /\ gets' = [g \in DOMAIN gets |-> IF gets[g] = Null THEN Null ELSE [gets[g] EXCEPT !.spanned = TRUE]]
    /\ UNCHANGED <<joinable, saving>>

End(s) ==
    /\ s \in Open /\ MayEnd(s)
    /\ queue' = [queue EXCEPT ![s] = Null]
    /\ IF s = source THEN GoneFromBrowser ELSE UNCHANGED <<link, source, downSince, away, listVars>>
    /\ UNCHANGED <<changes, untold, closing, waking, stopsLeft, lossesLeft, screenVars, historyVars>>

(* The stream is ten minutes old.                                           *)
Aged(s) ==
    /\ s = source /\ lossesLeft > 0 /\ lossesLeft' = lossesLeft - 1
    /\ queue' = [queue EXCEPT ![s] = Null]
    /\ GoneFromBrowser
    /\ UNCHANGED <<changes, untold, closing, waking, stopsLeft, screenVars, historyVars>>

(* The network fails: the server finds out at its next heartbeat.           *)
NetworkLost ==
    /\ source # Null /\ lossesLeft > 0 /\ lossesLeft' = lossesLeft - 1
    /\ GoneFromBrowser
    /\ UNCHANGED <<serverVars, screenVars, historyVars>>

Heartbeat(s) ==
    /\ s \in Open \ {source} /\ queue[s] = <<>>
    /\ queue' = [queue EXCEPT ![s] = Null]
    /\ UNCHANGED <<changes, untold, closing, waking, stopsLeft, linkVars, screenVars, listVars, historyVars>>

-----------------------------------------------------------------------------
(* The browser. *)

ClearedList ==
    /\ entry' = Null /\ joinable' = FALSE
    /\ gets' = [g \in DOMAIN gets |-> IF gets[g] = Null THEN Null ELSE [gets[g] EXCEPT !.current = FALSE]]
    /\ UNCHANGED saving

(* Everything cached is forgotten, and the screen is to be loaded soon.     *)
Emit == ClearedList /\ due' = TRUE /\ missed' = FALSE /\ dropped' = FALSE

(* A lost stream is followed by another one, by way of a ticket.            *)
Ticket ==
    /\ link = "down" /\ ~ closing
    /\ link' = "ticket"
    /\ UNCHANGED <<serverVars, source, downSince, away, lossesLeft, screenVars, listVars, historyVars>>

(* A server that stops gives no tickets.                                    *)
TicketRefused ==
    /\ link = "down" /\ closing
    /\ RetryLater
    /\ UNCHANGED <<serverVars, lossesLeft, screenVars, listVars, historyVars>>

TicketExpires ==
    /\ link = "ticket"
    /\ RetryLater
    /\ lossesLeft > 0 /\ lossesLeft' = lossesLeft - 1
    /\ UNCHANGED <<serverVars, screenVars, listVars, historyVars>>

(* Wrong on purpose: nothing is refreshed after a long time away.           *)
ReturnedQuietly(long) == missed' = (missed \/ (~ long /\ away = TRUE)) /\ UNCHANGED <<due, dropped, listVars>>

(* After more than five seconds away everything is refreshed; after less,   *)
(* or by the first stream, what was announced meanwhile is missed.          *)
Returned(long) ==
    IF long THEN Emit
    ELSE missed' = (missed \/ away = TRUE) /\ UNCHANGED <<due, dropped, listVars>>

Connect(s, long) ==
    /\ link = "ticket" /\ s \notin Open /\ ~ closing /\ (long => downSince)
    /\ queue' = [queue EXCEPT ![s] = <<>>]
    /\ link' = "open" /\ source' = s /\ downSince' = FALSE /\ away' = Null
    /\ Returned(long)
    /\ UNCHANGED <<changes, untold, closing, waking, stopsLeft, lossesLeft, shown, pending, visible, load>>

(* A stream that was waiting when the server was told to stop sends on.     *)
ReceiveEvent ==
    /\ source \in Open
    /\ queue[source] # <<>> /\ Head(queue[source]) = "event"
    /\ queue' = [queue EXCEPT ![source] = Tail(@)]
    /\ Emit
    /\ UNCHANGED <<changes, untold, closing, waking, stopsLeft, linkVars, shown, pending, visible, load>>

(* An abandoned stream's events go nowhere.                                 *)
SendToNobody(s) ==
    /\ s \in Open \ {source}
    /\ queue[s] # <<>> /\ Head(queue[s]) = "event"
    /\ queue' = [queue EXCEPT ![s] = Tail(@)]
    /\ UNCHANGED <<changes, untold, closing, waking, stopsLeft, linkVars, screenVars, listVars, historyVars>>

(* A newer load replaces an older one, whose answer is thrown away.         *)
Load(fire) ==
    IF fire THEN load' = [got |-> Null] /\ pending' = FALSE ELSE UNCHANGED <<load, pending>>

(* A hidden screen waits until it is looked at.                             *)
Fire ==
    /\ due /\ due' = FALSE
    /\ IF visible THEN Load(TRUE) ELSE pending' = TRUE /\ UNCHANGED load
    /\ UNCHANGED <<serverVars, linkVars, shown, visible, listVars, historyVars>>

Look(on) ==
    /\ visible' = on
    /\ Load(on /\ pending)
    /\ UNCHANGED <<serverVars, linkVars, shown, due, listVars, historyVars>>

Answer ==
    /\ load # Null /\ load.got = Null
    /\ load' = [got |-> changes]
    /\ UNCHANGED <<serverVars, linkVars, shown, due, pending, visible, listVars, historyVars>>

Render ==
    /\ load # Null /\ load.got # Null
    /\ shown' = load.got /\ load' = Null
    /\ UNCHANGED <<serverVars, linkVars, due, pending, visible, listVars, historyVars>>

-----------------------------------------------------------------------------
(* The cached list.  A request for it that is under way is joined; its      *)
(* answer is kept if nothing was cleared since it was asked.                *)

AskList(g) ==
    /\ entry = Null /\ ~ joinable /\ gets[g] = Null
    /\ gets' = [gets EXCEPT ![g] = [seen |-> Null, current |-> TRUE, spanned |-> link # "open"]]
    /\ joinable' = TRUE
    /\ UNCHANGED <<serverVars, linkVars, screenVars, entry, saving, historyVars>>

ServeList(g) ==
    /\ gets[g] # Null /\ gets[g].seen = Null
    /\ gets' = [gets EXCEPT ![g].seen = changes]
    /\ UNCHANGED <<serverVars, linkVars, screenVars, entry, joinable, saving, historyVars>>

(* Wrong on purpose: an answer older than the last clearing is kept.        *)
KeptAnyway(a) == [seen |-> a.seen, long |-> link = "open", spanned |-> a.spanned]

Kept(a) ==
    IF a.current THEN [seen |-> a.seen, long |-> link = "open", spanned |-> a.spanned] ELSE entry

ReceiveList(g) ==
    /\ gets[g] # Null /\ gets[g].seen # Null
    /\ entry' = Kept(gets[g])
    /\ gets' = [gets EXCEPT ![g] = Null]
    /\ joinable' = FALSE
    /\ UNCHANGED <<serverVars, linkVars, screenVars, saving, historyVars>>

Expire ==
    /\ entry # Null
    /\ entry' = Null
    /\ UNCHANGED <<serverVars, linkVars, screenVars, gets, joinable, saving, historyVars>>

(* A change made here: its answer clears the cache, before or after it is   *)
(* announced.                                                               *)
Save ==
    /\ ~ saving /\ changes < MaxChange
    /\ changes' = changes + 1 /\ untold' = untold \cup {changes + 1}
    /\ saving' = TRUE
    /\ UNCHANGED <<queue, closing, waking, stopsLeft, linkVars, screenVars, entry, gets, joinable, historyVars>>

Saved ==
    /\ saving /\ saving' = FALSE
    /\ entry' = Null /\ joinable' = FALSE
    /\ gets' = [g \in DOMAIN gets |-> IF gets[g] = Null THEN Null ELSE [gets[g] EXCEPT !.current = FALSE]]
    /\ UNCHANGED <<serverVars, linkVars, screenVars, historyVars>>

-----------------------------------------------------------------------------
LiveInit ==
    /\ changes = 0 /\ untold = {}
    /\ queue = [s \in Stream |-> Null]
    /\ closing = FALSE /\ waking = FALSE
    /\ link = "down" /\ source = Null /\ downSince = FALSE /\ away = FALSE
    /\ shown = 0 /\ due = FALSE /\ pending = FALSE /\ visible = TRUE /\ load = Null
    /\ entry = Null /\ gets = [g \in 1 .. 2 |-> Null] /\ joinable = FALSE /\ saving = FALSE
    /\ lossesLeft = MaxLoss /\ stopsLeft = MaxStops
    /\ missed = FALSE /\ dropped = FALSE

ServerNext ==
    \/ Commit \/ Signal \/ WakeAll \/ Restart
    \/ \E c \in untold : Announce(c)
    \/ \E s \in Stream : End(s) \/ Aged(s) \/ Heartbeat(s) \/ SendToNobody(s)

LinkNext ==
    \/ NetworkLost \/ Ticket \/ TicketRefused \/ TicketExpires \/ ReceiveEvent
    \/ \E s \in Stream, long \in BOOLEAN : Connect(s, long)

ScreenNext == Fire \/ Answer \/ Render \/ \E on \in BOOLEAN : Look(on)

ListNext ==
    \/ \E g \in DOMAIN gets : AskList(g) \/ ServeList(g) \/ ReceiveList(g)
    \/ Expire \/ Save \/ Saved

LiveNext == ServerNext \/ LinkNext \/ ScreenNext \/ ListNext

(* The server answers and announces, timers fire, a lost stream is opened   *)
(* again.  Nobody need change anything, or look at the screen.              *)
LiveFairness ==
    /\ \A c \in 1 .. MaxChange : WF_liveVars(Announce(c))
    /\ \A s \in Stream : WF_liveVars(End(s)) /\ WF_liveVars(Heartbeat(s)) /\ WF_liveVars(SendToNobody(s))
    /\ WF_liveVars(WakeAll) /\ WF_liveVars(Restart)
    /\ WF_liveVars(Ticket) /\ WF_liveVars(ReceiveEvent)
    /\ WF_liveVars(\E s \in Stream, long \in BOOLEAN : Connect(s, long))
    /\ WF_liveVars(Fire) /\ WF_liveVars(Answer) /\ WF_liveVars(Render)

-----------------------------------------------------------------------------
(* A list that may be served from the cache for minutes is behind only as   *)
(* long as the announcement, or the answer to the change made here, is on   *)
(* its way.  Two things break this: a queue that was full, and an answer    *)
(* asked for before the stream was opened and received after that.          *)
BehindOnlyForAMoment ==
    entry # Null /\ entry.long /\ entry.seen < changes =>
        \/ untold # {} \/ saving
        \/ source \in Open /\ queue[source] # <<>>
        \/ dropped \/ entry.spanned

(* In the end the screen shows the last change, unless nobody looks, or the *)
(* change was announced to a full queue, in a few seconds away or before    *)
(* the first stream was opened.                                             *)
ShowsTheLast == <>[](shown = changes \/ missed \/ ~ visible)

(* A server that is told to stop does: no stream outlives it, even one      *)
(* whose queue had no room for the word.                                    *)
StopsWhenTold == closing ~> ~ closing
=============================================================================
