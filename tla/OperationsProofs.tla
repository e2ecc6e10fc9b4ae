--------------------------- MODULE OperationsProofs ---------------------------
(***************************************************************************)
(* Proofs about LiveScreens, LoginGuard, Inspections, Production and       *)
(* Payroll.                                                                *)
(***************************************************************************)
EXTENDS MCOperations, FiniteTheorems, SequenceTheorems, TLAPS

-----------------------------------------------------------------------------
(* The cached list of a browser. *)

ListRow == [seen : Nat, long : BOOLEAN, spanned : BOOLEAN]
GetRow == [seen : Nat \cup {Null}, current : BOOLEAN, spanned : BOOLEAN]

LiveTyped ==
    /\ changes \in Nat /\ untold \subseteq Nat
    /\ queue \in [Stream -> Seq(Event) \cup {Null}]
    /\ entry \in ListRow \cup {Null}
    /\ gets \in [1 .. 2 -> GetRow \cup {Null}]

(* The browser takes its stream for open only while it has one, and the     *)
(* server has it too; a list is kept for long only while there is one.      *)
OneStream ==
    /\ source # Null => source \in Open
    /\ link = "open" <=> source # Null
    /\ entry # Null /\ entry.long => link = "open"
    /\ \A g \in DOMAIN gets : gets[g] # Null /\ ~ gets[g].spanned => link = "open"

(* Word of the last change is still to come, or was lost to a full queue.   *)
WordComes ==
    \/ untold # {} \/ saving
    \/ source \in Open /\ queue[source] # <<>>
    \/ dropped

(* What is behind, kept or about to be, is so only while word is to come.   *)
BehindAWhile ==
    /\ entry # Null /\ entry.long /\ ~ entry.spanned /\ entry.seen < changes => WordComes
    /\ \A g \in DOMAIN gets :
          gets[g] # Null /\ gets[g].seen # Null /\ gets[g].current /\ ~ gets[g].spanned
             /\ gets[g].seen < changes => WordComes

LiveInv == LiveTyped /\ OneStream /\ BehindAWhile
LEMMA CappedRow ==
  ASSUME NEW e \in ListRow \cup {Null}
  PROVE  Capped(e) \in ListRow \cup {Null} /\ (Capped(e) # Null => ~ Capped(e).long)
BY DEF Capped, ListRow

Across(row) == [row EXCEPT !.spanned = TRUE]
Stale(row) == [row EXCEPT !.current = FALSE]

LEMMA GetRows ==
  ASSUME NEW row \in GetRow
  PROVE  /\ Across(row) \in GetRow /\ Across(row).spanned
         /\ Stale(row) \in GetRow /\ ~ Stale(row).current /\ Stale(row).spanned = row.spanned
BY DEF GetRow, Across, Stale

(* The browser without its stream keeps nothing for long.                   *)
LEMMA GoneHeld ==
  ASSUME LiveInv, GoneFromBrowser, changes' \in Nat, untold' \subseteq Nat,
         queue' \in [Stream -> Seq(Event) \cup {Null}]
  PROVE  LiveInv'
<1>1. /\ link' = "down" /\ source' = Null /\ entry' = Capped(entry)
      /\ gets' = [g \in 1 .. 2 |-> IF gets[g] = Null THEN Null ELSE Across(gets[g])]
      /\ gets \in [1 .. 2 -> GetRow \cup {Null}]
  BY DEF GoneFromBrowser, LiveInv, LiveTyped, Across
<1>2. entry' \in ListRow \cup {Null} /\ (entry' # Null => ~ entry'.long)
  BY <1>1, CappedRow DEF LiveInv, LiveTyped
<1>3. \A g \in 1 .. 2 : gets'[g] \in GetRow \cup {Null} /\ (gets'[g] # Null => gets'[g].spanned)
  BY <1>1, GetRows
<1>4. LiveTyped'
  BY <1>1, <1>2, <1>3 DEF LiveTyped
<1> QED
  BY <1>1, <1>2, <1>3, <1>4 DEF LiveInv, LiveTyped, OneStream, BehindAWhile

(* A browser that forgets what it keeps.                                    *)
LEMMA ForgetHeld ==
  ASSUME LiveInv, entry' = Null,
         gets' = [g \in DOMAIN gets |-> IF gets[g] = Null THEN Null ELSE Stale(gets[g])],
         changes' \in Nat, untold' \subseteq Nat, queue' \in [Stream -> Seq(Event) \cup {Null}],
         source' # Null => queue'[source'] # Null /\ source' \in Stream,
         link' = "open" <=> source' # Null, link = "open" => link' = "open"
  PROVE  LiveInv'
<1>1. /\ gets' = [g \in 1 .. 2 |-> IF gets[g] = Null THEN Null ELSE Stale(gets[g])]
      /\ gets \in [1 .. 2 -> GetRow \cup {Null}]
  BY DEF LiveInv, LiveTyped
<1>2. \A g \in 1 .. 2 : /\ gets'[g] \in GetRow \cup {Null}
                        /\ gets'[g] # Null => /\ gets[g] # Null /\ ~ gets'[g].current
                                              /\ gets'[g].spanned = gets[g].spanned
  BY <1>1, GetRows
<1>3. LiveTyped'
  BY <1>1, <1>2 DEF LiveTyped
<1>4. OneStream'
  BY <1>1, <1>2 DEF OneStream, Open, LiveInv
<1> QED
  BY <1>1, <1>2, <1>3, <1>4 DEF LiveInv, BehindAWhile

(* The list and the browser's stream stay, and so does word of a change.    *)
LEMMA SameHeld ==
  ASSUME LiveInv, UNCHANGED <<entry, gets, link, source>>, changes' \in Nat, untold' \subseteq Nat,
         queue' \in [Stream -> Seq(Event) \cup {Null}],
         source \in Open => source \in Open',
         \/ changes' = changes /\ (WordComes /\ link = "open" => WordComes')
         \/ WordComes'
  PROVE  LiveInv'
<1>1. LiveTyped'
  BY DEF LiveInv, LiveTyped
<1>2. OneStream'
  BY DEF LiveInv, OneStream
<1>3. BehindAWhile'
  BY DEF LiveInv, OneStream, BehindAWhile
<1> QED
  BY <1>1, <1>2, <1>3 DEF LiveInv

LEMMA QueueFacts ==
  ASSUME NEW q \in Seq(Event)
  PROVE  /\ q # Null
         /\ \A e \in Event : Append(q, e) \in Seq(Event) /\ Append(q, e) # <<>>
         /\ q # <<>> => Tail(q) \in Seq(Event)
<1>1. ASSUME NEW e \in Event PROVE Append(q, e) # <<>>
  <2>1. Len(Append(q, e)) = Len(q) + 1 /\ Len(q) \in Nat /\ Len(<<>>) = 0
    OBVIOUS
  <2> QED
    BY <2>1
<1> QED
  BY <1>1, LiveNull

LEMMA LiveStep == LiveInv /\ [LiveNext]_liveVars => LiveInv'
<1> SUFFICES ASSUME LiveInv, [LiveNext]_liveVars PROVE LiveInv'
  OBVIOUS
<1>0. /\ changes \in Nat /\ untold \subseteq Nat /\ queue \in [Stream -> Seq(Event) \cup {Null}]
      /\ entry \in ListRow \cup {Null} /\ gets \in [1 .. 2 -> GetRow \cup {Null}]
      /\ source # Null => source \in Open
      /\ link = "open" <=> source # Null
  BY DEF LiveInv, LiveTyped, OneStream
<1>00. "event" \in Event /\ "close" \in Event /\ <<>> \in Seq(Event)
  BY DEF Event
<1>1. ASSUME UNCHANGED liveVars PROVE LiveInv'
  <2>1. UNCHANGED <<entry, gets, link, source, changes, untold, queue, saving, dropped>>
    BY <1>1 DEF liveVars, serverVars, linkVars, screenVars, listVars, historyVars
  <2> QED
    BY <1>0, <2>1, SameHeld DEF WordComes, Open
<1>2. ASSUME Commit \/ Save PROVE LiveInv'
  <2>1. /\ UNCHANGED <<entry, gets, link, source, queue>>
        /\ changes' = changes + 1 /\ untold' = untold \cup {changes + 1}
    BY <1>2 DEF Commit, Save, linkVars, listVars
  <2>2. changes' \in Nat /\ untold' \subseteq Nat /\ WordComes'
    BY <1>0, <2>1 DEF WordComes
  <2> QED
    BY <1>0, <2>1, <2>2, SameHeld DEF Open
<1>3. ASSUME NEW c \in untold, Announce(c) PROVE LiveInv'
  <2>1. /\ UNCHANGED <<entry, gets, link, source, changes, saving>> /\ untold' = untold \ {c}
        /\ \A s \in Stream : queue'[s] = IF s \in Open /\ ~ Full(s) THEN Append(queue[s], "event")
                                                                    ELSE queue[s]
        /\ DOMAIN queue' = Stream
        /\ queue' = [s \in Stream |-> IF s \in Open /\ ~ Full(s) THEN Append(queue[s], "event")
                                                            ELSE queue[s]]
        /\ source \in Open /\ Full(source) => dropped'
    BY <1>3 DEF Announce, listVars
  <2>2. ASSUME NEW s \in Stream
        PROVE  /\ queue'[s] \in Seq(Event) \cup {Null}
               /\ s \in Open => queue'[s] # Null
               /\ s \in Open /\ ~ Full(s) => queue'[s] # <<>>
    <3>1. CASE s \in Open /\ ~ Full(s)
      <4>1. queue'[s] = Append(queue[s], "event") /\ queue[s] \in Seq(Event)
        BY <1>0, <2>1, <3>1 DEF Open
      <4>2. Append(queue[s], "event") \in Seq(Event) /\ Append(queue[s], "event") # <<>>
        BY <1>00, <4>1, QueueFacts
      <4> QED
        BY <4>1, <4>2, QueueFacts
    <3>2. CASE ~ (s \in Open /\ ~ Full(s))
      BY <1>0, <2>1, <3>2 DEF Open
    <3> QED
      BY <3>1, <3>2
  <2>3. queue' \in [Stream -> Seq(Event) \cup {Null}]
    BY <2>1, <2>2
  <2>4. source \in Open => source \in Open'
    BY <2>1, <2>2 DEF Open
  <2>5. link = "open" => WordComes'
    BY <1>0, <2>1, <2>2, <2>4 DEF WordComes, Open
  <2> QED
    BY <1>0, <2>1, <2>3, <2>4, <2>5, SameHeld
<1>4. ASSUME Signal PROVE LiveInv'
  <2>1. UNCHANGED <<entry, gets, link, source, changes, untold, queue, saving, dropped>>
    BY <1>4 DEF Signal, linkVars, listVars, historyVars
  <2> QED
    BY <1>0, <2>1, SameHeld DEF WordComes, Open
<1>5. ASSUME WakeAll PROVE LiveInv'
  <2>1. /\ UNCHANGED <<entry, gets, link, source, changes, untold, saving, dropped>>
        /\ queue' = [s \in Stream |-> IF s \in Open /\ ~ Full(s) THEN Append(queue[s], "close")
                                                            ELSE queue[s]]
    BY <1>5 DEF WakeAll, linkVars, listVars, historyVars
  <2>2. ASSUME NEW s \in Stream
        PROVE  /\ queue'[s] \in Seq(Event) \cup {Null}
               /\ s \in Open => queue'[s] # Null /\ (queue[s] # <<>> => queue'[s] # <<>>)
    BY <1>0, <1>00, <2>1, QueueFacts DEF Open
  <2>3. queue' \in [Stream -> Seq(Event) \cup {Null}]
    BY <2>1, <2>2
  <2>4. source \in Open => source \in Open' /\ (queue[source] # <<>> => queue'[source] # <<>>)
    BY <2>1, <2>2 DEF Open
  <2>5. WordComes => WordComes'
    BY <2>1, <2>4 DEF WordComes
  <2> QED
    BY <1>0, <2>1, <2>3, <2>4, <2>5, SameHeld
<1>6. ASSUME NEW s \in Stream, End(s) PROVE LiveInv'
  <2>1. /\ UNCHANGED <<changes, untold, dropped>> /\ queue' = [queue EXCEPT ![s] = Null]
        /\ IF s = source THEN GoneFromBrowser ELSE UNCHANGED <<link, source, entry, gets, saving>>
    BY <1>6 DEF End, listVars, historyVars
  <2>2. queue' \in [Stream -> Seq(Event) \cup {Null}]
    BY <1>0, <2>1
  <2>3. CASE s = source
    BY <1>0, <2>1, <2>2, <2>3, GoneHeld
  <2>4. CASE s # source
    <3>1. source \in Open => source \in Open' /\ queue'[source] = queue[source]
      BY <1>0, <2>1, <2>4 DEF Open
    <3> QED
      BY <1>0, <2>1, <2>2, <2>4, <3>1, SameHeld DEF WordComes
  <2> QED
    BY <2>3, <2>4
<1>7. ASSUME NEW s \in Stream, Aged(s) PROVE LiveInv'
  <2>1. queue' = [queue EXCEPT ![s] = Null] /\ GoneFromBrowser /\ UNCHANGED <<changes, untold>>
    BY <1>7 DEF Aged
  <2>2. queue' \in [Stream -> Seq(Event) \cup {Null}]
    BY <1>0, <2>1
  <2> QED
    BY <1>0, <2>1, <2>2, GoneHeld
<1>8. ASSUME NetworkLost PROVE LiveInv'
  <2>1. GoneFromBrowser /\ UNCHANGED <<changes, untold, queue>>
    BY <1>8 DEF NetworkLost, serverVars
  <2> QED
    BY <1>0, <2>1, GoneHeld
<1>9. ASSUME NEW s \in Stream, Heartbeat(s) \/ SendToNobody(s) PROVE LiveInv'
  <2>1. /\ UNCHANGED <<entry, gets, link, source, changes, untold, saving, dropped>>
        /\ s # source /\ queue[s] \in Seq(Event)
        /\ \/ queue' = [queue EXCEPT ![s] = Null]
           \/ queue[s] # <<>> /\ queue' = [queue EXCEPT ![s] = Tail(queue[s])]
    BY <1>0, <1>9 DEF Heartbeat, SendToNobody, linkVars, listVars, historyVars, Open
  <2>2. Tail(queue[s]) \in Seq(Event) \/ queue[s] = <<>>
    BY <2>1, QueueFacts
  <2>3. queue' \in [Stream -> Seq(Event) \cup {Null}]
    BY <1>0, <2>1, <2>2
  <2>4. source \in Open => source \in Open' /\ queue'[source] = queue[source]
    BY <1>0, <2>1 DEF Open
  <2> QED
    BY <1>0, <2>1, <2>3, <2>4, SameHeld DEF WordComes
<1>10. ASSUME Ticket \/ TicketRefused \/ TicketExpires \/ Restart PROVE LiveInv'
  <2>1. /\ UNCHANGED <<entry, gets, source, changes, untold, queue, saving, dropped>>
        /\ link # "open" /\ link' # "open"
    <3>1. CASE Ticket \/ TicketRefused \/ TicketExpires
      BY <3>1 DEF Ticket, TicketRefused, TicketExpires, RetryLater, serverVars, listVars, historyVars
    <3>2. CASE Restart
      BY <1>0, <3>2 DEF Restart, RetryLater, listVars, historyVars
    <3> QED
      BY <1>10, <3>1, <3>2
  <2> QED
    BY <1>0, <2>1 DEF LiveInv, LiveTyped, OneStream, BehindAWhile, WordComes, Open
<1>11. ASSUME ReceiveEvent PROVE LiveInv'
  <2>1. /\ UNCHANGED <<changes, untold, link, source>> /\ source \in Open /\ queue[source] # <<>>
        /\ queue' = [queue EXCEPT ![source] = Tail(queue[source])] /\ entry' = Null
        /\ gets' = [g \in DOMAIN gets |-> IF gets[g] = Null THEN Null ELSE Stale(gets[g])]
    BY <1>11 DEF Stale, ReceiveEvent, Emit, ClearedList, linkVars
  <2>2. source \in Stream /\ queue[source] \in Seq(Event)
    BY <1>0, <2>1 DEF Open
  <2>3. Tail(queue[source]) \in Seq(Event) /\ Tail(queue[source]) # Null
    BY <2>1, <2>2, QueueFacts
  <2>4. queue' \in [Stream -> Seq(Event) \cup {Null}] /\ queue'[source] # Null
    BY <1>0, <2>1, <2>2, <2>3
  <2> QED
    BY <1>0, <2>1, <2>2, <2>4, ForgetHeld
<1>12. ASSUME NEW s \in Stream, NEW long \in BOOLEAN, Connect(s, long) PROVE LiveInv'
  <2>1. /\ UNCHANGED <<changes, untold>> /\ link # "open" /\ link' = "open" /\ source' = s
        /\ queue' = [queue EXCEPT ![s] = <<>>] /\ Returned(long) /\ s # Null
    BY <1>12, LiveNull DEF Connect
  <2>2. queue' \in [Stream -> Seq(Event) \cup {Null}] /\ queue'[s] # Null
    BY <1>0, <1>00, <2>1, QueueFacts
  <2>3. CASE long
    BY <1>0, <2>1, <2>2, <2>3, ForgetHeld DEF Returned, Emit, ClearedList, Stale
  <2>4. CASE ~ long
    <3>1. UNCHANGED <<entry, gets>>
      BY <2>1, <2>4 DEF Returned, listVars
    <3>2. /\ entry # Null => ~ entry.long
          /\ \A g \in DOMAIN gets : gets[g] # Null => gets[g].spanned
      BY <2>1 DEF LiveInv, OneStream
    <3> QED
      BY <1>0, <2>1, <2>2, <3>1, <3>2 DEF LiveInv, LiveTyped, OneStream, BehindAWhile, Open
  <2> QED
    BY <2>3, <2>4
<1>13. ASSUME ScreenNext PROVE LiveInv'
  <2>1. UNCHANGED <<entry, gets, link, source, changes, untold, queue, saving, dropped>>
    BY <1>13 DEF ScreenNext, Fire, Look, Answer, Render, serverVars, linkVars, listVars, historyVars
  <2> QED
    BY <1>0, <2>1, SameHeld DEF WordComes, Open
<1>14. ASSUME NEW g \in DOMAIN gets, AskList(g) \/ ServeList(g) \/ ReceiveList(g) PROVE LiveInv'
  <2>1. /\ UNCHANGED <<link, source, changes, untold, queue, saving, dropped>> /\ g \in 1 .. 2
        /\ WordComes' = WordComes /\ Open' = Open
    BY <1>0, <1>14 DEF AskList, ServeList, ReceiveList, serverVars, linkVars, historyVars, WordComes, Open
  <2>2. CASE AskList(g)
    <3> DEFINE row == [seen |-> Null, current |-> TRUE, spanned |-> link # "open"]
    <3>1. row \in GetRow /\ row.seen = Null /\ (~ row.spanned => link = "open")
      BY DEF GetRow
    <3>2. gets' = [gets EXCEPT ![g] = row] /\ entry' = entry
      BY <2>2 DEF AskList
    <3> HIDE DEF row
    <3> QED
      BY <1>0, <2>1, <3>1, <3>2 DEF LiveInv, LiveTyped, OneStream, BehindAWhile
  <2>3. CASE ServeList(g)
    <3> DEFINE row == [gets[g] EXCEPT !.seen = changes]
    <3>1. gets[g] \in GetRow /\ gets[g] # Null
      BY <1>0, <2>1, <2>3 DEF ServeList
    <3>2. row \in GetRow /\ row.seen = changes /\ row.spanned = gets[g].spanned
      BY <1>0, <3>1 DEF GetRow
    <3>3. gets' = [gets EXCEPT ![g] = row] /\ entry' = entry
      BY <2>3 DEF ServeList
    <3> HIDE DEF row
    <3> QED
      BY <1>0, <2>1, <3>1, <3>2, <3>3 DEF LiveInv, LiveTyped, OneStream, BehindAWhile
  <2>4. CASE ReceiveList(g)
    <3>1. /\ gets[g] \in GetRow /\ gets[g] # Null /\ gets[g].seen # Null
          /\ gets' = [gets EXCEPT ![g] = Null] /\ entry' = Kept(gets[g])
      BY <1>0, <2>1, <2>4 DEF ReceiveList
    <3> DEFINE row == [seen |-> gets[g].seen, long |-> link = "open", spanned |-> gets[g].spanned]
    <3>2. row \in ListRow /\ row.seen = gets[g].seen /\ row.spanned = gets[g].spanned
          /\ (row.long => link = "open")
      BY <3>1 DEF GetRow, ListRow
    <3>3. entry' = IF gets[g].current THEN row ELSE entry
      BY <3>1 DEF Kept
    <3> HIDE DEF row
    <3>4. LiveTyped'
      BY <1>0, <2>1, <3>1, <3>2, <3>3 DEF LiveTyped
    <3>5. OneStream'
      BY <1>0, <2>1, <3>1, <3>2, <3>3 DEF LiveInv, OneStream
    <3>6. BehindAWhile'
      BY <1>0, <2>1, <3>1, <3>2, <3>3 DEF LiveInv, BehindAWhile
    <3> QED
      BY <3>4, <3>5, <3>6 DEF LiveInv
  <2> QED
    BY <1>14, <2>2, <2>3, <2>4
<1>15. ASSUME Expire PROVE LiveInv'
  <2>1. UNCHANGED <<gets, link, source, changes, untold, queue, saving, dropped>> /\ entry' = Null
    BY <1>15 DEF Expire, serverVars, linkVars, historyVars
  <2> QED
    BY <1>0, <2>1 DEF LiveInv, LiveTyped, OneStream, BehindAWhile, WordComes, Open
<1>16. ASSUME Saved PROVE LiveInv'
  <2>1. /\ UNCHANGED <<link, source, changes, untold, queue>> /\ entry' = Null
        /\ gets' = [g \in DOMAIN gets |-> IF gets[g] = Null THEN Null ELSE Stale(gets[g])]
    BY <1>16 DEF Stale, Saved, serverVars, linkVars
  <2> QED
    BY <1>0, <2>1, ForgetHeld DEF Open
<1> QED
  BY <1>1, <1>2, <1>3, <1>4, <1>5, <1>6, <1>7, <1>8, <1>9, <1>10, <1>11, <1>12, <1>13, <1>14, <1>15,
     <1>16 DEF LiveNext, ServerNext, LinkNext, ListNext

(* A list kept for long is behind only while word of the change is on its   *)
(* way, whatever streams are lost, aged, stopped and opened again           *)
(* (utils/live.ts, api/client.ts).                                          *)
THEOREM ListBehindForAMoment == LiveInit /\ [][LiveNext]_liveVars => []BehindOnlyForAMoment
<1>1. LiveInit => LiveInv
  <2>1. ASSUME LiveInit PROVE DOMAIN gets = 1 .. 2 /\ \A g \in 1 .. 2 : gets[g] = Null
    BY <2>1 DEF LiveInit
  <2> QED
    BY <2>1 DEF LiveInit, LiveInv, LiveTyped, OneStream, BehindAWhile
<1>2. LiveInv => BehindOnlyForAMoment
  BY DEF LiveInv, LiveTyped, BehindAWhile, BehindOnlyForAMoment, WordComes, ListRow
<1> QED
  BY <1>1, <1>2, LiveStep, PTL
-----------------------------------------------------------------------------
(* The counter of failed logins. *)

Between(first, last) == {t \in Instants : first =< t /\ t =< last}

GuardTyped ==
    /\ now \in Instants /\ failures \in FailureRow \cup {Null}
    /\ verifying \subseteq Login /\ failed \in [Instants -> Nat]

(* The counter knows of every failure: there is none after the last it      *)
(* recorded, and it never counts more than there were.                      *)
Recorded ==
    /\ \A t \in Instants : failed[t] > 0 => failures # Null /\ t =< failures.last
    /\ failures # Null => /\ failures.last =< now
                          /\ failures.count =< SumFunctionOnSet(failed, Instants)

(* Of the failures within the time of a lock up to now none was forgotten,  *)
(* and the logins under way would not make them too many.                   *)
NowFew ==
    \A first, last \in Instants : last - first < LockTime /\ last >= now =>
        /\ failures # Null => FailedIn(first, last) =< failures.count
        /\ FailedIn(first, last) + Cardinality(verifying) =< MaxFailures - 1 + Cardinality(Login)

GuardInv == GuardTyped /\ Recorded /\ NowFew /\ FailuresAreFew

LEMMA LoginNumbers ==
  /\ MaxFailures \in Nat \ {0} /\ Cardinality(Login) \in Nat
  /\ LockTime \in Nat /\ ForgetTime \in Nat /\ EndOfTime \in Nat /\ LockTime =< ForgetTime
  /\ IsFiniteSet(Instants) /\ Instants \subseteq Nat
  /\ \A first, last : IsFiniteSet(Between(first, last)) /\ Between(first, last) \subseteq Instants
<1>1. IsFiniteSet(Instants)
  BY FS_Interval, TimesAssumption DEF Instants
<1>2. \A first, last : IsFiniteSet(Between(first, last)) /\ Between(first, last) \subseteq Instants
  BY <1>1, FS_Subset DEF Between
<1> QED
  BY <1>1, <1>2, LoginAssumption, TimesAssumption, FS_CardinalityType DEF Instants

LEMMA FailedNat ==
  ASSUME GuardTyped, NEW first, NEW last
  PROVE  /\ FailedIn(first, last) \in Nat /\ SumFunctionOnSet(failed, Instants) \in Nat
         /\ FailedIn(first, last) = SumFunctionOnSet(failed, Between(first, last))
<1>1. \A t \in Instants : failed[t] \in Nat
  BY DEF GuardTyped
<1> QED
  BY <1>1, LoginNumbers, SumBounds DEF FailedIn, Between

LEMMA FailureNumbers ==
  ASSUME GuardTyped, failures # Null
  PROVE  failures.count \in Nat /\ failures.last \in Nat /\ failures.last \in Instants
<1>1. failures \in FailureRow
  BY DEF GuardTyped
<1> QED
  BY <1>1, LoginNumbers DEF FailureRow

(* Where nothing failed the sum is nothing.                                 *)
LEMMA NoneFailed ==
  ASSUME GuardTyped, NEW first, NEW last, \A t \in Between(first, last) : failed[t] = 0
  PROVE  FailedIn(first, last) = 0
<1>1. \A t \in Between(first, last) : failed[t] \in Int /\ failed[t] =< 0
  OBVIOUS
<1>2. SumFunctionOnSet(failed, Between(first, last)) =< 0
  BY <1>1, LoginNumbers, SumNotPositive
<1> QED
  BY <1>2, FailedNat

(* One failure more, now.                                                   *)
LEMMA OneMore ==
  ASSUME GuardTyped, failed' \in [Instants -> Nat], failed'[now] = failed[now] + 1,
         \A t \in Instants : t # now => failed'[t] = failed[t], NEW first, NEW last
  PROVE  /\ FailedIn(first, last)' = FailedIn(first, last) + (IF now \in Between(first, last) THEN 1 ELSE 0)
         /\ SumFunctionOnSet(failed', Instants) = SumFunctionOnSet(failed, Instants) + 1
<1> DEFINE W == Between(first, last)
<1>1. /\ \A t \in Instants : failed[t] \in Int /\ failed'[t] \in Int
      /\ now \in Instants /\ failed'[now] = failed[now] + 1
  BY DEF GuardTyped
<1>2. FailedIn(first, last)' = SumFunctionOnSet(failed', W)
  BY DEF FailedIn, Between
<1>3. IsFiniteSet(W) /\ W \subseteq Instants /\ IsFiniteSet(Instants)
  BY LoginNumbers
<1> DEFINE after == failed'
<1>0. /\ \A t \in Instants : after[t] \in Int /\ (t # now => after[t] = failed[t])
      /\ after[now] = failed[now] + 1
  BY <1>1
<1> HIDE DEF W, after
<1>4. SumFunctionOnSet(after, Instants) = SumFunctionOnSet(failed, Instants) + after[now] - failed[now]
  BY <1>0, <1>1, <1>3, SumChange
<1>5. CASE now \in W
  <2>1. SumFunctionOnSet(after, W) = SumFunctionOnSet(failed, W) + after[now] - failed[now]
    BY <1>0, <1>1, <1>3, <1>5, SumChange
  <2> QED
    BY <1>1, <1>2, <1>4, <1>5, <2>1, FailedNat DEF W, after
<1>6. CASE now \notin W
  <2>1. SumFunctionOnSet(after, W) = SumFunctionOnSet(failed, W)
    BY <1>0, <1>3, <1>6, SumSame
  <2> QED
    BY <1>1, <1>2, <1>4, <1>6, <2>1, FailedNat DEF W, after
<1> QED
  BY <1>5, <1>6

(* Where the last failure lies the time of a lock back there is none since. *)
LEMMA LongAgo ==
  ASSUME GuardTyped, Recorded, failures = Null \/ now - failures.last >= LockTime,
         NEW first \in Instants, NEW last \in Instants, last - first < LockTime, last >= now
  PROVE  FailedIn(first, last) = 0
<1>1. ASSUME NEW t \in Between(first, last) PROVE failed[t] = 0
  <2>1. t \in Instants /\ t >= first /\ failed[t] \in Nat /\ now \in Int /\ first \in Int /\ last \in Int
        /\ LockTime \in Nat /\ t \in Int
    BY LoginNumbers DEF Between, GuardTyped
  <2>2. ASSUME failures # Null PROVE failures.last \in Int
    BY <2>2, FailureNumbers
  <2>3. ASSUME failed[t] > 0 PROVE FALSE
    <3>1. failures # Null /\ t =< failures.last
      BY <2>1, <2>3 DEF Recorded
    <3> QED
      BY <2>1, <2>2, <3>1
  <2> QED
    BY <2>1, <2>3
<1> QED
  BY <1>1, NoneFailed

LEMMA VerifyingCount ==
  ASSUME GuardTyped
  PROVE  /\ Cardinality(verifying) \in Nat /\ Cardinality(verifying) =< Cardinality(Login)
         /\ \A r \in verifying : /\ Cardinality(verifying \ {r}) = Cardinality(verifying) - 1
                                 /\ Cardinality(verifying \ {r}) \in Nat
<1>1. IsFiniteSet(verifying) /\ Cardinality(verifying) =< Cardinality(Login)
  BY LoginAssumption, FS_Subset DEF GuardTyped
<1> QED
  BY <1>1, RestIsSmaller, FS_CardinalityType

LEMMA FailureStep ==
  ASSUME GuardInv, NEW r \in Login, RecordFailure(r)
  PROVE  GuardInv'
<1> DEFINE kept == IF failures # Null /\ now - failures.last > ForgetTime THEN Null ELSE failures
           row == [count |-> IF kept = Null THEN 1 ELSE kept.count + 1, last |-> now]
<1>2. GuardTyped /\ Recorded /\ now \in Instants /\ now \in Int /\ failed \in [Instants -> Nat]
  BY LoginNumbers DEF GuardInv, GuardTyped
<1>1. /\ r \in verifying /\ failures' = row /\ verifying' = verifying \ {r} /\ now' = now
      /\ failed' \in [Instants -> Nat] /\ failed'[now] = failed[now] + 1
      /\ \A t \in Instants : t # now => failed'[t] = failed[t]
  BY <1>2 DEF RecordFailure
<1>3. failures # Null => failures.count \in Nat /\ failures.last \in Nat /\ failures.last =< now
  BY <1>2, FailureNumbers DEF Recorded
<1>4. /\ row \in FailureRow /\ row # Null /\ row.last = now /\ row.count >= 1
      /\ kept # Null => kept = failures
      /\ row.count = IF kept = Null THEN 1 ELSE failures.count + 1
  <2>1. /\ row.last = now /\ (kept # Null => kept = failures)
        /\ row.count = IF kept = Null THEN 1 ELSE failures.count + 1
    OBVIOUS
  <2>2. row \in FailureRow
    BY <1>2, <1>3, <2>1 DEF FailureRow
  <2> HIDE DEF row, kept
  <2> QED
    BY <1>3, <2>1, <2>2, LoginNull DEF FailureRow
<1>5. kept = Null => failures = Null \/ now - failures.last >= LockTime
  BY <1>2, <1>3, LoginNumbers
<1> HIDE DEF row, kept
<1>6. GuardTyped'
  BY <1>1, <1>2, <1>4 DEF GuardTyped
<1>7. Recorded'
  <2>1. SumFunctionOnSet(failed', Instants) = SumFunctionOnSet(failed, Instants) + 1
        /\ SumFunctionOnSet(failed, Instants) \in Nat
    BY <1>1, <1>2, OneMore, FailedNat
  <2>2. ASSUME NEW t \in Instants, failed'[t] > 0 PROVE t =< now
    <3>1. t \in Int /\ (t = now \/ failed'[t] = failed[t])
      BY <1>1, <1>2, LoginNumbers
    <3> QED
      BY <1>2, <1>3, <2>2, <3>1 DEF Recorded
  <2>3. row.count =< SumFunctionOnSet(failed, Instants) + 1
    BY <1>2, <1>3, <1>4, <2>1 DEF Recorded
  <2> QED
    BY <1>1, <1>2, <1>4, <2>1, <2>2, <2>3 DEF Recorded
<1>8. NowFew'
  <2> SUFFICES ASSUME NEW first \in Instants, NEW last \in Instants, last - first < LockTime, last >= now
               PROVE  /\ FailedIn(first, last)' =< row.count
                      /\ FailedIn(first, last)' + Cardinality(verifying')
                           =< MaxFailures - 1 + Cardinality(Login)
    BY <1>1 DEF NowFew
  <2>1. FailedIn(first, last) \in Nat /\ FailedIn(first, last)' \in Int
        /\ FailedIn(first, last)' =< FailedIn(first, last) + 1
    BY <1>1, <1>2, OneMore, FailedNat
  <2>2. kept = Null => FailedIn(first, last) = 0
    BY <1>2, <1>5, LongAgo
  <2>3. failures # Null => FailedIn(first, last) =< failures.count
    BY DEF GuardInv, NowFew
  <2>4. FailedIn(first, last) + Cardinality(verifying) =< MaxFailures - 1 + Cardinality(Login)
    BY DEF GuardInv, NowFew
  <2>5. FailedIn(first, last)' =< row.count
    BY <1>3, <1>4, <2>1, <2>2, <2>3
  <2> QED
    BY <1>1, <1>2, <2>1, <2>4, <2>5, VerifyingCount, LoginNumbers
<1>9. FailuresAreFew'
  <2> SUFFICES ASSUME NEW first \in Instants, NEW last \in Instants, last - first < LockTime
               PROVE  FailedIn(first, last)' =< MaxFailures - 1 + Cardinality(Login)
    BY DEF FailuresAreFew
  <2>1. CASE last >= now
    <3>1. FailedIn(first, last)' + Cardinality(verifying') =< MaxFailures - 1 + Cardinality(Login)
      BY <1>1, <1>8, <2>1 DEF NowFew
    <3>2. FailedIn(first, last)' \in Int /\ Cardinality(verifying') \in Nat
      BY <1>1, <1>2, <1>6, FailedNat, OneMore, VerifyingCount
    <3> QED
      BY <3>1, <3>2, LoginNumbers
  <2>2. CASE ~ (last >= now)
    <3>1. now \notin Between(first, last)
      BY <1>2, <2>2, LoginNumbers DEF Between
    <3>2. FailedIn(first, last)' = FailedIn(first, last)
      BY <1>1, <1>2, <3>1, OneMore, FailedNat
    <3> QED
      BY <3>2 DEF GuardInv, FailuresAreFew
  <2> QED
    BY <2>1, <2>2
<1> QED
  BY <1>6, <1>7, <1>8, <1>9 DEF GuardInv

LEMMA ThroughStep ==
  ASSUME GuardInv, NEW r \in Login, LetThrough(r)
  PROVE  GuardInv'
<1> DEFINE row == [count |-> MaxFailures - 1, last |-> now]
<1>1. /\ failures' = IF Locked THEN row ELSE failures
      /\ verifying' = verifying \cup {r} /\ now' = now /\ failed' = failed
      /\ Locked => now - failures.last >= LockTime
  BY DEF LetThrough
<1>2. GuardTyped /\ Recorded /\ now \in Instants /\ now \in Int
  BY LoginNumbers DEF GuardInv, GuardTyped
<1>3. /\ failures # Null => failures.count \in Nat /\ failures.last \in Nat /\ failures.last =< now
      /\ Locked => failures # Null /\ failures.count >= MaxFailures
      /\ ~ Locked /\ failures # Null => failures.count =< MaxFailures - 1
  <2>1. failures # Null => failures.count \in Nat /\ failures.last \in Nat /\ failures.last =< now
    BY <1>2, FailureNumbers DEF Recorded
  <2> QED
    BY <2>1, LoginNumbers DEF Locked
<1>4. row \in FailureRow /\ row # Null /\ row.count = MaxFailures - 1 /\ row.last = now
  <2>1. row \in FailureRow
    BY <1>2, LoginNumbers DEF FailureRow
  <2> QED
    BY <2>1, LoginNull
<1> HIDE DEF row
<1>5. GuardTyped'
  BY <1>1, <1>2, <1>4 DEF GuardTyped
<1>6. Recorded'
  <2>1. SumFunctionOnSet(failed, Instants) \in Nat
    BY <1>2, FailedNat
  <2>2. CASE ~ Locked
    BY <1>1, <1>2, <2>2 DEF Recorded
  <2>3. CASE Locked
    <3>1. \A t \in Instants : failed[t] > 0 => t =< now
      BY <1>2, <1>3, LoginNumbers DEF Recorded
    <3>2. row.count =< SumFunctionOnSet(failed, Instants)
      BY <1>2, <1>3, <1>4, <2>1, <2>3, LoginNumbers DEF Recorded
    <3> QED
      BY <1>1, <1>2, <1>4, <2>3, <3>1, <3>2 DEF Recorded
  <2> QED
    BY <2>2, <2>3
<1>7. \A first, last : FailedIn(first, last)' = FailedIn(first, last)
  BY <1>1 DEF FailedIn
<1>8. NowFew'
  <2> SUFFICES ASSUME NEW first \in Instants, NEW last \in Instants, last - first < LockTime, last >= now
               PROVE  /\ failures' # Null => FailedIn(first, last) =< failures'.count
                      /\ FailedIn(first, last) + Cardinality(verifying')
                           =< MaxFailures - 1 + Cardinality(Login)
    BY <1>1, <1>7 DEF NowFew
  <2>1. FailedIn(first, last) \in Nat /\ Cardinality(verifying') \in Nat
        /\ Cardinality(verifying') =< Cardinality(Login)
    BY <1>2, <1>5, FailedNat, LoginAssumption, FS_Subset, FS_CardinalityType DEF GuardTyped
  <2>2. Locked \/ failures = Null => FailedIn(first, last) = 0
    BY <1>1, <1>2, LongAgo
  <2>3. failures # Null => FailedIn(first, last) =< failures.count
    BY DEF GuardInv, NowFew
  <2>4. FailedIn(first, last) =< MaxFailures - 1
    BY <1>3, <2>1, <2>2, <2>3, LoginNumbers
  <2>5. failures' # Null => FailedIn(first, last) =< failures'.count
    BY <1>1, <1>4, <2>2, <2>3, LoginNumbers
  <2> QED
    BY <2>1, <2>4, <2>5, LoginNumbers
<1>9. FailuresAreFew'
  BY <1>7 DEF GuardInv, FailuresAreFew
<1> QED
  BY <1>5, <1>6, <1>8, <1>9 DEF GuardInv

(* Where nothing is remembered nothing is recorded.                         *)
LEMMA ForgottenHeld ==
  ASSUME now' \in Instants, failures' = Null, verifying' \subseteq Login,
         failed' = [t \in Instants |-> 0]
  PROVE  GuardInv'
<1>1. GuardTyped' /\ Recorded'
  BY DEF GuardTyped, Recorded
<1>2. \A first, last \in Instants : FailedIn(first, last)' = 0
  <2> SUFFICES ASSUME NEW first \in Instants, NEW last \in Instants PROVE FailedIn(first, last)' = 0
    OBVIOUS
  <2> DEFINE W == Between(first, last)
             zero == [t \in Instants |-> 0]
  <2>1. FailedIn(first, last)' = SumFunctionOnSet(zero, W)
    BY DEF FailedIn, Between
  <2>2. /\ \A t \in W : zero[t] \in Nat /\ zero[t] \in Int /\ zero[t] =< 0
        /\ IsFiniteSet(W)
    BY LoginNumbers
  <2> HIDE DEF W, zero
  <2>3. SumFunctionOnSet(zero, W) \in Nat /\ SumFunctionOnSet(zero, W) =< 0
    BY <2>2, SumBounds, SumNotPositive
  <2> QED
    BY <2>1, <2>3
<1>3. Cardinality(verifying') \in Nat /\ Cardinality(verifying') =< Cardinality(Login)
  BY LoginAssumption, FS_Subset, FS_CardinalityType
<1>4. NowFew' /\ FailuresAreFew'
  BY <1>2, <1>3, LoginNumbers DEF NowFew, FailuresAreFew
<1> QED
  BY <1>1, <1>4 DEF GuardInv

LEMMA TickStep ==
  ASSUME GuardInv, Tick \/ UNCHANGED loginVars
  PROVE  GuardInv'
<1>1. /\ UNCHANGED <<failures, verifying, failed>> /\ now' \in Instants /\ now \in Instants
      /\ now' >= now
  BY LoginNumbers DEF Tick, loginVars, GuardInv, GuardTyped, Instants
<1>2. GuardTyped'
  BY <1>1 DEF GuardInv, GuardTyped
<1>3. failures # Null => failures.last \in Nat
  BY LoginNumbers DEF GuardInv, GuardTyped, FailureRow
<1>4. Recorded'
  BY <1>1, <1>3, LoginNumbers DEF GuardInv, Recorded
<1>5. \A first, last : FailedIn(first, last)' = FailedIn(first, last)
  BY <1>1 DEF FailedIn
<1>6. \A last \in Instants : last >= now' => last >= now
  BY <1>1, LoginNumbers
<1>7. NowFew' /\ FailuresAreFew'
  BY <1>1, <1>5, <1>6 DEF GuardInv, NowFew, FailuresAreFew
<1> QED
  BY <1>2, <1>4, <1>7 DEF GuardInv

(* However logins interleave and the server restarts, failed logins are few *)
(* and none is refused without them (login_guard.py: seconds_locked,        *)
(* record_failure).                                                         *)
THEOREM GuardAlwaysHolds == LoginInit /\ [][LoginNext]_loginVars => []GuardHolds
<1>1. LoginInit => GuardInv
  <2> SUFFICES ASSUME LoginInit PROVE GuardInv
    OBVIOUS
  <2>1. GuardTyped /\ Recorded
    BY TimesAssumption DEF LoginInit, GuardTyped, Recorded, Instants
  <2>2. \A first, last \in Instants : FailedIn(first, last) = 0
    BY <2>1, NoneFailed DEF LoginInit, Between
  <2>3. NowFew /\ FailuresAreFew
    BY <2>1, <2>2, VerifyingCount, LoginNumbers DEF LoginInit, NowFew, FailuresAreFew
  <2> QED
    BY <2>1, <2>3 DEF GuardInv
<1>2. GuardInv /\ [LoginNext]_loginVars => GuardInv'
  <2> SUFFICES ASSUME GuardInv, [LoginNext]_loginVars PROVE GuardInv'
    OBVIOUS
  <2>1. ASSUME failures' = Null, verifying' \subseteq Login, failed' = [t \in Instants |-> 0],
               now' = now
        PROVE  GuardInv'
    <3>1. now' \in Instants
      BY <2>1 DEF GuardInv, GuardTyped
    <3> QED
      BY <2>1, <3>1, ForgottenHeld
  <2>2. ASSUME NEW r \in Login, RecordSuccess(r) PROVE GuardInv'
    BY <2>1, <2>2 DEF RecordSuccess, GuardInv, GuardTyped
  <2>3. ASSUME ServerRestart PROVE GuardInv'
    BY <2>1, <2>3 DEF ServerRestart
  <2> QED
    BY <2>2, <2>3, ThroughStep, FailureStep, TickStep DEF LoginNext
<1>3. GuardInv => GuardHolds
  <2> SUFFICES ASSUME GuardInv PROVE GuardHolds
    OBVIOUS
  <2> DEFINE W == Between(0, now)
  <2>1. ASSUME NEW t \in Instants \ W PROVE failed[t] = 0
    <3>1. t \in Nat /\ now \in Nat /\ t > now /\ failed[t] \in Nat
      BY LoginNumbers DEF GuardInv, GuardTyped, Between
    <3>2. failures # Null => failures.last \in Nat /\ failures.last =< now
      BY LoginNumbers DEF GuardInv, GuardTyped, FailureRow, Recorded
    <3> QED
      BY <3>1, <3>2 DEF GuardInv, Recorded
  <2>2. IsFiniteSet(Instants) /\ W \in SUBSET Instants /\ \A t \in Instants : failed[t] \in Int
    BY LoginNumbers DEF GuardInv, GuardTyped
  <2> HIDE DEF W
  <2>3. SumFunctionOnSet(failed, Instants) = SumFunctionOnSet(failed, W)
    BY <2>1, <2>2, SumSupport
  <2>4. LockedForCause
    BY <2>3 DEF GuardInv, Recorded, LockedForCause, FailedIn, W, Between
  <2> QED
    BY <2>4 DEF GuardInv, GuardHolds
<1> QED
  BY <1>1, <1>2, <1>3, PTL

-----------------------------------------------------------------------------
(* What merchants pay for visits. *)

Owes(r) ==
    r # Null /\ r.status = "accepted" /\ r.merchant # Null /\ PointsFor(r.lines) # 0

CountIn(P, v, kind) == Cardinality({p \in P : p.visit = v /\ p.kind = kind})

(* What rows P of points changed for a merchant, by one visit and by all.   *)
PaidIn(P, v, m) ==
    SumFunctionOnSet([p \in P |-> p.delta], {p \in P : p.visit = v /\ p.customer = m})
TotalIn(P, m) == SumFunctionOnSet([p \in P |-> p.delta], {p \in P : p.customer = m})

IsNewest(P, v, p) ==
    /\ p \in P /\ p.visit = v /\ p.kind = "inspection"
    /\ \A q \in P : q.visit = v /\ q.kind = "inspection" => q.nth =< p.nth

(* The points P of visit v, whose row is r: deductions and what was given   *)
(* back alternate, and while r owes points the last deduction is of them.   *)
Held(P, v, r) ==
    /\ r = Null => \A p \in P : p.visit # v
    /\ \A p \in P : p.visit = v => p.nth < CountIn(P, v, p.kind)
    /\ CountIn(P, v, "inspection")
          = CountIn(P, v, "inspection_reverse") + (IF Owes(r) THEN 1 ELSE 0)
    /\ Owes(r) => \A p \in P : IsNewest(P, v, p) =>
          p.customer = r.merchant /\ p.delta = - PointsFor(r.lines)
    /\ \A m \in Merchant : PaidIn(P, v, m) = - Due(r, m)

LEMMA PointRowParts ==
  ASSUME NEW p \in PointRow
  PROVE  /\ p.visit \in Visit /\ p.kind \in {"inspection", "inspection_reverse"} /\ p.nth \in Nat
         /\ p.customer \in Merchant /\ p.delta \in Int
BY DEF PointRow

(* What rows of points come to.                                             *)
LEMMA PointSums ==
  ASSUME NEW P, P \subseteq PointRow, IsFiniteSet(P), NEW v, NEW m, NEW kind
  PROVE  CountIn(P, v, kind) \in Nat /\ PaidIn(P, v, m) \in Int /\ TotalIn(P, m) \in Int
<1> DEFINE f == [p \in P |-> p.delta]
           K == {p \in P : p.visit = v /\ p.kind = kind}
           S == {p \in P : p.visit = v /\ p.customer = m}
           T == {p \in P : p.customer = m}
<1>1. IsFiniteSet(K) /\ IsFiniteSet(S) /\ IsFiniteSet(T)
  BY FS_Subset
<1>2. (\A x \in S : f[x] \in Int) /\ (\A x \in T : f[x] \in Int)
  BY PointRowParts
<1>3. CountIn(P, v, kind) = Cardinality(K) /\ PaidIn(P, v, m) = SumFunctionOnSet(f, S)
      /\ TotalIn(P, m) = SumFunctionOnSet(f, T)
  BY DEF CountIn, PaidIn, TotalIn
<1> HIDE DEF f, K, S, T
<1> QED
  BY <1>1, <1>2, <1>3, SumInt, FS_CardinalityType

(* A row comes to others.                                                   *)
LEMMA PointAdded ==
  ASSUME NEW P, P \subseteq PointRow, IsFiniteSet(P), NEW p \in PointRow, p \notin P,
         NEW v
  PROVE  /\ \A kind : CountIn(P \cup {p}, v, kind)
               = CountIn(P, v, kind) + (IF p.visit = v /\ p.kind = kind THEN 1 ELSE 0)
         /\ \A m : PaidIn(P \cup {p}, v, m)
               = PaidIn(P, v, m) + (IF p.visit = v /\ p.customer = m THEN p.delta ELSE 0)
         /\ \A m : TotalIn(P \cup {p}, m)
               = TotalIn(P, m) + (IF p.customer = m THEN p.delta ELSE 0)
<1> SUFFICES ASSUME NEW m, NEW kind
    PROVE  /\ CountIn(P \cup {p}, v, kind)
                 = CountIn(P, v, kind) + (IF p.visit = v /\ p.kind = kind THEN 1 ELSE 0)
           /\ PaidIn(P \cup {p}, v, m)
                 = PaidIn(P, v, m) + (IF p.visit = v /\ p.customer = m THEN p.delta ELSE 0)
           /\ TotalIn(P \cup {p}, m)
                 = TotalIn(P, m) + (IF p.customer = m THEN p.delta ELSE 0)
  OBVIOUS
<1> DEFINE Q == P \cup {p}
           f == [x \in P |-> x.delta]
           g == [x \in Q |-> x.delta]
           K == {x \in P : x.visit = v /\ x.kind = kind}
           L == {x \in Q : x.visit = v /\ x.kind = kind}
           S == {x \in P : x.visit = v /\ x.customer = m}
           R == {x \in Q : x.visit = v /\ x.customer = m}
           T == {x \in P : x.customer = m}
           U == {x \in Q : x.customer = m}
<1>1. IsFiniteSet(K) /\ IsFiniteSet(S) /\ IsFiniteSet(T) /\ p \notin K /\ p \notin S /\ p \notin T
  BY FS_Subset
<1>2. /\ L = IF p.visit = v /\ p.kind = kind THEN K \cup {p} ELSE K
      /\ R = IF p.visit = v /\ p.customer = m THEN S \cup {p} ELSE S
      /\ U = IF p.customer = m THEN T \cup {p} ELSE T
  OBVIOUS
<1>3. /\ \A x \in S : f[x] \in Int /\ g[x] = f[x]
      /\ \A x \in T : f[x] \in Int /\ g[x] = f[x]
      /\ g[p] = p.delta /\ p.delta \in Int
  BY PointRowParts
<1>4. /\ CountIn(P, v, kind) = Cardinality(K) /\ PaidIn(P, v, m) = SumFunctionOnSet(f, S)
      /\ TotalIn(P, m) = SumFunctionOnSet(f, T)
  BY DEF CountIn, PaidIn, TotalIn
<1>5. /\ CountIn(Q, v, kind) = Cardinality(L) /\ PaidIn(Q, v, m) = SumFunctionOnSet(g, R)
      /\ TotalIn(Q, m) = SumFunctionOnSet(g, U)
  BY DEF CountIn, PaidIn, TotalIn
<1>6. Cardinality(K \cup {p}) = Cardinality(K) + 1 /\ Cardinality(K) \in Nat
  BY <1>1, FS_AddElement, FS_CardinalityType
<1> HIDE DEF f, g, K, L, S, R, T, U
<1>7. /\ SumFunctionOnSet(g, S) = SumFunctionOnSet(f, S) /\ SumFunctionOnSet(f, S) \in Int
      /\ SumFunctionOnSet(g, S \cup {p}) = SumFunctionOnSet(f, S) + g[p]
  BY <1>1, <1>3, SumSame, SumInt, SumAdd
<1>8. /\ SumFunctionOnSet(g, T) = SumFunctionOnSet(f, T) /\ SumFunctionOnSet(f, T) \in Int
      /\ SumFunctionOnSet(g, T \cup {p}) = SumFunctionOnSet(f, T) + g[p]
  BY <1>1, <1>3, SumSame, SumInt, SumAdd
<1>9. CountIn(Q, v, kind) = CountIn(P, v, kind) + (IF p.visit = v /\ p.kind = kind THEN 1 ELSE 0)
  BY <1>2, <1>4, <1>5, <1>6
<1>10. PaidIn(Q, v, m) = PaidIn(P, v, m) + (IF p.visit = v /\ p.customer = m THEN p.delta ELSE 0)
  BY <1>2, <1>3, <1>4, <1>5, <1>7
<1>11. TotalIn(Q, m) = TotalIn(P, m) + (IF p.customer = m THEN p.delta ELSE 0)
  BY <1>2, <1>3, <1>4, <1>5, <1>8
<1> QED
  BY <1>9, <1>10, <1>11

(* It changes as much for its visit as for all.                             *)
LEMMA AddedToBoth ==
  ASSUME NEW P, P \subseteq PointRow, IsFiniteSet(P), NEW p \in PointRow, p \notin P,
         NEW v, p.visit = v, NEW Q, Q = P \cup {p}, NEW m
  PROVE  TotalIn(Q, m) - PaidIn(Q, v, m) = TotalIn(P, m) - PaidIn(P, v, m)
<1>1. PICK d \in Int : d = IF p.customer = m THEN p.delta ELSE 0
  BY PointRowParts
<1>2. PaidIn(P, v, m) \in Int /\ TotalIn(P, m) \in Int
  BY PointSums
<1>3. PaidIn(Q, v, m) = PaidIn(P, v, m) + d
  <2>1. PaidIn(P \cup {p}, v, m)
           = PaidIn(P, v, m) + (IF p.visit = v /\ p.customer = m THEN p.delta ELSE 0)
    BY ONLY PointAdded, P \subseteq PointRow, IsFiniteSet(P), p \in PointRow, p \notin P
  <2> QED
    BY <1>1, <2>1
<1>4. TotalIn(Q, m) = TotalIn(P, m) + d
  BY <1>1, PointAdded
<1> QED
  BY ONLY <1>2, <1>3, <1>4, d \in Int

(* The rows of a visit go.                                                  *)
LEMMA PointsDropped ==
  ASSUME NEW P, P \subseteq PointRow, IsFiniteSet(P), NEW v, NEW Q, Q = {p \in P : p.visit # v}
  PROVE  /\ \A u, kind : u # v => CountIn(Q, u, kind) = CountIn(P, u, kind)
         /\ \A u, m : u # v => PaidIn(Q, u, m) = PaidIn(P, u, m)
         /\ \A kind : CountIn(Q, v, kind) = 0
         /\ \A m : /\ PaidIn(Q, v, m) = 0
                   /\ TotalIn(Q, m) = TotalIn(P, m) - PaidIn(P, v, m)
<1>1. ASSUME NEW u, u # v, NEW kind PROVE CountIn(Q, u, kind) = CountIn(P, u, kind)
  <2>1. {p \in Q : p.visit = u /\ p.kind = kind} = {p \in P : p.visit = u /\ p.kind = kind}
    BY <1>1
  <2> QED
    BY <2>1 DEF CountIn
<1>2. ASSUME NEW u, u # v, NEW m PROVE PaidIn(Q, u, m) = PaidIn(P, u, m)
  <2> DEFINE f == [p \in P |-> p.delta]
             g == [p \in Q |-> p.delta]
             R == {p \in P : p.visit = u /\ p.customer = m}
  <2>1. {p \in Q : p.visit = u /\ p.customer = m} = R
    BY <1>2
  <2>2. IsFiniteSet(R) /\ \A x \in R : g[x] = f[x]
    BY <1>2, FS_Subset
  <2>3. PaidIn(Q, u, m) = SumFunctionOnSet(g, R) /\ PaidIn(P, u, m) = SumFunctionOnSet(f, R)
    BY <2>1 DEF PaidIn
  <2> HIDE DEF f, g, R
  <2> QED
    BY <2>2, <2>3, SumSame
<1>3. ASSUME NEW kind PROVE CountIn(Q, v, kind) = 0
  <2>1. {p \in Q : p.visit = v /\ p.kind = kind} = {}
    OBVIOUS
  <2> QED
    BY <2>1, FS_EmptySet DEF CountIn
<1>4. ASSUME NEW m PROVE PaidIn(Q, v, m) = 0
  <2>1. {p \in Q : p.visit = v /\ p.customer = m} = {}
    OBVIOUS
  <2> QED
    BY <2>1, SumEmpty DEF PaidIn
<1>5. ASSUME NEW m PROVE TotalIn(Q, m) = TotalIn(P, m) - PaidIn(P, v, m)
  <2> DEFINE f == [p \in P |-> p.delta]
             g == [p \in Q |-> p.delta]
             T == {p \in P : p.customer = m}
             U == {p \in Q : p.customer = m}
             S == {p \in P : p.visit = v /\ p.customer = m}
  <2>1. IsFiniteSet(T) /\ S \in SUBSET T
    BY FS_Subset
  <2>8. U = T \ S
    OBVIOUS
  <2>2. \A x \in U : g[x] = f[x]
    OBVIOUS
  <2>7. \A x \in T : f[x] \in Int
    BY PointRowParts
  <2>3. /\ TotalIn(Q, m) = SumFunctionOnSet(g, U) /\ TotalIn(P, m) = SumFunctionOnSet(f, T)
        /\ PaidIn(P, v, m) = SumFunctionOnSet(f, S)
    BY DEF TotalIn, PaidIn
  <2>4. IsFiniteSet(U)
    BY <2>1, <2>8, FS_Subset
  <2> HIDE DEF f, g, T, U, S
  <2>5. /\ SumFunctionOnSet(f, T) = SumFunctionOnSet(f, S) + SumFunctionOnSet(f, T \ S)
        /\ SumFunctionOnSet(f, S) \in Int /\ SumFunctionOnSet(f, T \ S) \in Int
    BY ONLY <2>1, <2>7, SumSplit
  <2>6. SumFunctionOnSet(g, U) = SumFunctionOnSet(f, U)
    BY <2>2, <2>4, SumSame
  <2> QED
    BY <2>8, <2>3, <2>5, <2>6
<1> QED
  BY <1>1, <1>2, <1>3, <1>4, <1>5

(* Rows of one visit leave what holds of another alone.                     *)
LEMMA OthersHeld ==
  ASSUME NEW P, P \subseteq PointRow, IsFiniteSet(P), NEW Q, Q \subseteq PointRow, IsFiniteSet(Q),
         NEW v, NEW u, u # v, NEW r, Held(P, u, r),
         \A p \in PointRow : p.visit = u => (p \in Q <=> p \in P)
  PROVE  Held(Q, u, r)
<1>1. ASSUME NEW kind PROVE CountIn(Q, u, kind) = CountIn(P, u, kind)
  <2>1. {p \in Q : p.visit = u /\ p.kind = kind} = {p \in P : p.visit = u /\ p.kind = kind}
    OBVIOUS
  <2> QED
    BY <2>1 DEF CountIn
<1>2. ASSUME NEW m PROVE PaidIn(Q, u, m) = PaidIn(P, u, m)
  <2> DEFINE R == {p \in P : p.visit = u /\ p.customer = m}
             f == [p \in P |-> p.delta]
             g == [p \in Q |-> p.delta]
  <2>1. {p \in Q : p.visit = u /\ p.customer = m} = R
    OBVIOUS
  <2>2. IsFiniteSet(R)
    BY FS_Subset
  <2>3. \A x \in R : g[x] = f[x]
    OBVIOUS
  <2>4. PaidIn(Q, u, m) = SumFunctionOnSet(g, R) /\ PaidIn(P, u, m) = SumFunctionOnSet(f, R)
    BY <2>1 DEF PaidIn
  <2> HIDE DEF f, g, R
  <2> QED
    BY <2>2, <2>3, <2>4, SumSame
<1>3. \A p \in P : IsNewest(Q, u, p) => IsNewest(P, u, p)
  BY DEF IsNewest
<1>4. \A p \in Q : IsNewest(Q, u, p) => p \in P
  BY DEF IsNewest
<1>5. \A p \in Q : p.visit = u => p \in P
  OBVIOUS
<1> QED
  BY <1>1, <1>2, <1>3, <1>4, <1>5 DEF Held

LEMMA DueParts ==
  ASSUME NEW r \in VisitRow \cup {Null}, NEW m \in Merchant
  PROVE  /\ Due(r, m) \in Nat
         /\ r # Null => PointsFor(r.lines) \in Nat
         /\ ~ Owes(r) => Due(r, m) = 0
         /\ Owes(r) => /\ r.merchant \in Merchant /\ PointsFor(r.lines) \in Nat
                       /\ Due(r, m) = IF r.merchant = m THEN PointsFor(r.lines) ELSE 0
<1>1. ASSUME r # Null PROVE PointsFor(r.lines) \in Nat /\ r.merchant \in Merchant \cup {Null}
  <2>1. r \in VisitRow
    BY <1>1
  <2>2. r.lines \in Basket /\ r.merchant \in Merchant \cup {Null}
    BY <2>1 DEF VisitRow
  <2>3. PICK lines : lines = r.lines
    OBVIOUS
  <2>4. IsFiniteSet(DOMAIN lines) /\ \A i \in DOMAIN lines : lines[i] \in Nat
    BY <2>2, <2>3, InspectionAssumption
  <2>5. SumFunctionOnSet(lines, DOMAIN lines) \in Nat
    BY <2>4, SumBounds
  <2> QED
    BY <2>2, <2>3, <2>5 DEF PointsFor
<1>2. m # Null
  BY InspectionNull
<1> QED
  BY <1>1, <1>2 DEF Due, Owes

(* A visit that owes points pays them.                                      *)
LEMMA PointDeducted ==
  ASSUME NEW P, P \subseteq PointRow, IsFiniteSet(P), NEW v \in Visit, NEW r, Held(P, v, r), ~ Owes(r),
         r \in VisitRow \cup {Null}, NEW s \in VisitRow, Owes(s),
         NEW p, p = Point(v, "inspection", CountIn(P, v, "inspection"), s.merchant, - PointsFor(s.lines))
  PROVE  p \in PointRow /\ p \notin P /\ Held(P \cup {p}, v, s)
<1>1. CountIn(P, v, "inspection") \in Nat /\ CountIn(P, v, "inspection_reverse") \in Nat
  BY PointSums
<1>2. s.merchant \in Merchant /\ PointsFor(s.lines) \in Nat /\ s # Null
  <2>1. s.merchant \in Merchant \cup {Null} /\ s.merchant # Null
    BY DEF Owes, VisitRow
  <2> QED
    BY <2>1, DueParts, InspectionNull
<1>3. /\ p.visit = v /\ p.kind = "inspection" /\ p.nth = CountIn(P, v, "inspection")
      /\ p.customer = s.merchant /\ p.delta = - PointsFor(s.lines)
  BY DEF Point
<1>4. p \in PointRow
  BY <1>1, <1>2 DEF Point, PointRow
<1>5. \A q \in P : q.visit = v => q.nth < CountIn(P, v, q.kind) /\ q.nth \in Nat
  BY PointRowParts DEF Held
<1>6. p \notin P
  BY <1>1, <1>3, <1>5
<1>0. /\ \A kind : CountIn(P \cup {p}, v, kind)
            = CountIn(P, v, kind) + (IF p.visit = v /\ p.kind = kind THEN 1 ELSE 0)
      /\ \A m : PaidIn(P \cup {p}, v, m)
            = PaidIn(P, v, m) + (IF p.visit = v /\ p.customer = m THEN p.delta ELSE 0)
  BY ONLY <1>4, <1>6, PointAdded, P \subseteq PointRow, IsFiniteSet(P)
<1>7. /\ CountIn(P \cup {p}, v, "inspection") = CountIn(P, v, "inspection") + 1
      /\ CountIn(P \cup {p}, v, "inspection_reverse") = CountIn(P, v, "inspection_reverse")
  <2>1. p.visit = v /\ p.kind = "inspection"
    BY <1>3
  <2> QED
    <3>1. CountIn(P \cup {p}, v, "inspection")
             = CountIn(P, v, "inspection") + (IF p.visit = v /\ p.kind = "inspection" THEN 1 ELSE 0)
      BY ONLY <1>0
    <3>2. CountIn(P \cup {p}, v, "inspection_reverse")
             = CountIn(P, v, "inspection_reverse")
                  + (IF p.visit = v /\ p.kind = "inspection_reverse" THEN 1 ELSE 0)
      BY ONLY <1>0
    <3> QED
      BY ONLY <1>1, <2>1, <3>1, <3>2
<1>8. CountIn(P, v, "inspection") = CountIn(P, v, "inspection_reverse")
  BY <1>1 DEF Held
<1>9. ASSUME NEW m \in Merchant PROVE PaidIn(P \cup {p}, v, m) = - Due(s, m)
  <2>1. PaidIn(P, v, m) = 0
    BY DueParts DEF Held
  <2>2. PaidIn(P \cup {p}, v, m) = PaidIn(P, v, m) + (IF p.visit = v /\ p.customer = m THEN p.delta ELSE 0)
    BY <1>0
  <2>3. Due(s, m) = IF s.merchant = m THEN PointsFor(s.lines) ELSE 0
    BY DueParts
  <2> QED
    BY <1>2, <1>3, <2>1, <2>2, <2>3
<1>10. ASSUME NEW q \in P \cup {p}, q.visit = v PROVE q.nth < CountIn(P \cup {p}, v, q.kind)
  <2>1. CASE q = p
    BY <1>1, <1>3, <1>7, <2>1
  <2>2. CASE q \in P
    <3>1. q.kind \in {"inspection", "inspection_reverse"}
      BY <2>2, PointRowParts
    <3> QED
      BY <1>1, <1>5, <1>7, <1>10, <2>2, <3>1
  <2> QED
    BY <2>1, <2>2
<1>11. ASSUME NEW q \in P \cup {p}, IsNewest(P \cup {p}, v, q) PROVE q = p
  <2>1. p.nth =< q.nth /\ q.visit = v /\ q.kind = "inspection"
    BY <1>3, <1>11 DEF IsNewest
  <2>2. q \in P => q.nth < p.nth /\ q.nth \in Nat
    BY <1>3, <1>5, <2>1
  <2> QED
    BY <1>1, <1>3, <2>1, <2>2
<1> QED
  BY <1>1, <1>2, <1>3, <1>4, <1>6, <1>7, <1>8, <1>9, <1>10, <1>11 DEF Held

(* There is a last deduction to give back.                                  *)
LEMMA NewestExists ==
  ASSUME NEW P, P \subseteq PointRow, IsFiniteSet(P), NEW v, NEW r, Held(P, v, r), Owes(r)
  PROVE  \E p \in P : IsNewest(P, v, p)
<1> DEFINE K == {p \in P : p.visit = v /\ p.kind = "inspection"}
           rank == [p \in K |-> p.nth]
<1>1. IsFiniteSet(K)
  BY FS_Subset
<1>2. K # {}
  <2>1. CountIn(P, v, "inspection") = CountIn(P, v, "inspection_reverse") + 1
        /\ CountIn(P, v, "inspection_reverse") \in Nat
    BY PointSums DEF Held
  <2>2. CountIn(P, v, "inspection") = Cardinality(K)
    BY DEF CountIn
  <2> QED
    BY <2>1, <2>2, FS_EmptySet
<1>3. \A p \in K : rank[p] \in Int /\ rank[p] = p.nth
  BY PointRowParts
<1> HIDE DEF rank, K
<1>4. PICK p \in K : \A q \in K : rank[q] =< rank[p]
  BY <1>1, <1>2, <1>3, HighestExists
<1>5. \A q \in K : q.nth =< p.nth
  BY <1>3, <1>4
<1>6. IsNewest(P, v, p)
  BY <1>4, <1>5 DEF IsNewest, K
<1> QED
  BY <1>6 DEF IsNewest

(* A visit that owes no points any more has them given back.                *)
LEMMA PointReturned ==
  ASSUME NEW P, P \subseteq PointRow, IsFiniteSet(P), NEW v \in Visit, NEW r \in VisitRow, Held(P, v, r),
         Owes(r), NEW s \in VisitRow, ~ Owes(s), NEW n \in P, IsNewest(P, v, n),
         NEW p, p = Point(v, "inspection_reverse", CountIn(P, v, "inspection_reverse"), n.customer, - n.delta)
  PROVE  p \in PointRow /\ p \notin P /\ Held(P \cup {p}, v, s)
<1>1. CountIn(P, v, "inspection") \in Nat /\ CountIn(P, v, "inspection_reverse") \in Nat
  BY PointSums
<1>2. n.customer = r.merchant /\ n.delta = - PointsFor(r.lines)
  BY DEF Held
<1>3. /\ n.customer \in Merchant /\ n.delta \in Int /\ PointsFor(r.lines) \in Nat /\ r # Null /\ s # Null
  BY PointRowParts, DueParts, InspectionNull
<1>4. /\ p.visit = v /\ p.kind = "inspection_reverse" /\ p.nth = CountIn(P, v, "inspection_reverse")
      /\ p.customer = r.merchant /\ p.delta = PointsFor(r.lines)
  BY <1>2, <1>3 DEF Point
<1>5. p \in PointRow
  BY <1>1, <1>3 DEF Point, PointRow
<1>6. \A q \in P : q.visit = v => q.nth < CountIn(P, v, q.kind) /\ q.nth \in Nat
  BY PointRowParts DEF Held
<1>7. p \notin P
  BY <1>1, <1>4, <1>6
<1>0. /\ \A kind : CountIn(P \cup {p}, v, kind)
            = CountIn(P, v, kind) + (IF p.visit = v /\ p.kind = kind THEN 1 ELSE 0)
      /\ \A m : PaidIn(P \cup {p}, v, m)
            = PaidIn(P, v, m) + (IF p.visit = v /\ p.customer = m THEN p.delta ELSE 0)
  BY ONLY <1>5, <1>7, PointAdded, P \subseteq PointRow, IsFiniteSet(P)
<1>8. /\ CountIn(P \cup {p}, v, "inspection") = CountIn(P, v, "inspection")
      /\ CountIn(P \cup {p}, v, "inspection_reverse") = CountIn(P, v, "inspection_reverse") + 1
  BY ONLY <1>0, <1>1, <1>4
<1>9. CountIn(P, v, "inspection") = CountIn(P, v, "inspection_reverse") + 1
  BY <1>1 DEF Held
<1>10. ASSUME NEW m \in Merchant PROVE PaidIn(P \cup {p}, v, m) = - Due(s, m)
  <2>1. PaidIn(P, v, m) = - Due(r, m)
    BY DEF Held
  <2>2. PaidIn(P \cup {p}, v, m) = PaidIn(P, v, m) + (IF p.visit = v /\ p.customer = m THEN p.delta ELSE 0)
    BY <1>0
  <2>3. Due(r, m) = IF r.merchant = m THEN PointsFor(r.lines) ELSE 0
    BY DueParts
  <2>4. Due(s, m) = 0
    BY DueParts
  <2> QED
    BY <1>3, <1>4, <2>1, <2>2, <2>3, <2>4
<1>11. ASSUME NEW q \in P \cup {p}, q.visit = v PROVE q.nth < CountIn(P \cup {p}, v, q.kind)
  <2>1. CASE q = p
    BY <1>1, <1>4, <1>8, <2>1
  <2>2. CASE q \in P
    <3>1. q.kind \in {"inspection", "inspection_reverse"}
      BY <2>2, PointRowParts
    <3> QED
      BY <1>1, <1>6, <1>8, <1>11, <2>2, <3>1
  <2> QED
    BY <2>1, <2>2
<1>12. Held(P \cup {p}, v, s)
  <2>1. CountIn(P \cup {p}, v, "inspection")
           = CountIn(P \cup {p}, v, "inspection_reverse") + (IF Owes(s) THEN 1 ELSE 0)
    BY ONLY <1>1, <1>8, <1>9, ~ Owes(s)
  <2> QED
    BY ONLY <1>3, <1>10, <1>11, <2>1, ~ Owes(s) DEF Held
<1> QED
  BY <1>5, <1>7, <1>12

(* A visit is changed and owes nothing, before as after.                    *)
LEMMA PointsKept ==
  ASSUME NEW P, NEW v, NEW r \in VisitRow \cup {Null}, Held(P, v, r), ~ Owes(r),
         NEW s \in VisitRow, ~ Owes(s)
  PROVE  Held(P, v, s)
<1>1. \A m \in Merchant : Due(r, m) = 0 /\ Due(s, m) = 0
  BY DueParts
<1> QED
  BY <1>1, InspectionNull DEF Held

(* A visit is deleted with its points.                                      *)
LEMMA PointsGone ==
  ASSUME NEW P, P \subseteq PointRow, IsFiniteSet(P), NEW v, NEW Q, Q = {p \in P : p.visit # v}
  PROVE  Held(Q, v, Null)
<1>1. \A m \in Merchant : PaidIn(Q, v, m) = 0 /\ Due(Null, m) = 0
  BY PointsDropped DEF Due
<1>2. \A kind : CountIn(Q, v, kind) = 0
  BY PointsDropped
<1> QED
  BY <1>1, <1>2 DEF Held, Owes

TotalsHeld(P) ==
    \A m \in Merchant :
        TotalIn(P, m) = - SumFunctionOnSet([v \in Visit |-> Due(visit[v], m)], Visit)

PointsInv ==
    /\ \A v \in Visit : Held(points, v, visit[v])
    /\ TotalsHeld(points)

LEMMA PointsOfOthers ==
  ASSUME InspectionTypeOK, InspectionTypeOK', PointsInv, NEW v \in Visit, NEW s,
         visit' = [visit EXCEPT ![v] = s], Held(points', v, s),
         \A p \in PointRow : p.visit # v => (p \in points' <=> p \in points),
         \A m \in Merchant : TotalIn(points', m) - PaidIn(points', v, m)
                                = TotalIn(points, m) - PaidIn(points, v, m)
  PROVE  PointsInv'
<1>1. PICK old, new, P, Q : old = visit /\ new = visit' /\ P = points /\ Q = points'
  OBVIOUS
<1>2. /\ P \subseteq PointRow /\ IsFiniteSet(P) /\ Q \subseteq PointRow /\ IsFiniteSet(Q)
      /\ old \in [Visit -> VisitRow \cup {Null}] /\ new \in [Visit -> VisitRow \cup {Null}]
      /\ new[v] = s /\ \A u \in Visit \ {v} : new[u] = old[u]
  BY <1>1 DEF InspectionTypeOK
<1>3. ASSUME NEW u \in Visit PROVE Held(Q, u, new[u])
  <2>1. CASE u = v
    BY <1>1, <1>2, <2>1
  <2>2. CASE u # v
    <3>1. Held(P, u, old[u]) /\ new[u] = old[u]
      BY <1>1, <1>2, <2>2 DEF PointsInv
    <3>2. \A p \in PointRow : p.visit = u => (p \in Q <=> p \in P)
      BY <1>1, <2>2
    <3> QED
      BY <1>2, <2>2, <3>1, <3>2, OthersHeld
  <2> QED
    BY <2>1, <2>2
<1>4. ASSUME NEW m \in Merchant
      PROVE  TotalIn(Q, m) = - SumFunctionOnSet([u \in Visit |-> Due(new[u], m)], Visit)
  <2> DEFINE f == [u \in Visit |-> Due(old[u], m)]
             g == [u \in Visit |-> Due(new[u], m)]
  <2>1. \A u \in Visit : f[u] \in Nat /\ g[u] \in Nat
    BY <1>2, DueParts
  <2>2. \A u \in Visit \ {v} : g[u] = f[u]
    BY <1>2
  <2>3. f[v] = Due(old[v], m) /\ g[v] = Due(s, m)
    BY <1>2
  <2>4. TotalIn(P, m) = - SumFunctionOnSet(f, Visit)
    BY <1>1 DEF PointsInv, TotalsHeld
  <2>5. PaidIn(P, v, m) = - Due(old[v], m) /\ PaidIn(Q, v, m) = - Due(s, m)
    BY <1>1 DEF PointsInv, Held
  <2>6. /\ TotalIn(Q, m) \in Int /\ TotalIn(P, m) \in Int
        /\ TotalIn(Q, m) - PaidIn(Q, v, m) = TotalIn(P, m) - PaidIn(P, v, m)
    BY <1>1, <1>2, PointSums
  <2> HIDE DEF f, g
  <2>7. SumFunctionOnSet(g, Visit) = SumFunctionOnSet(f, Visit) + g[v] - f[v]
    <3>1. (\A u \in Visit : f[u] \in Int) /\ g[v] \in Int
      BY <2>1
    <3> QED
      BY ONLY <3>1, <2>2, SumChange, InspectionAssumption, v \in Visit
  <2>8. SumFunctionOnSet(f, Visit) \in Int
    BY ONLY <2>1, SumBounds, InspectionAssumption
  <2>9. TotalIn(Q, m) = - SumFunctionOnSet(g, Visit)
    BY ONLY <2>1, <2>3, <2>4, <2>5, <2>6, <2>7, <2>8, v \in Visit
  <2> QED
    BY <2>9 DEF g
<1>5. (\A u \in Visit : Held(points, u, visit[u]))'
  BY <1>1, <1>3
<1>6. TotalsHeld(points)'
  BY <1>1, <1>4 DEF TotalsHeld
<1> QED
  BY <1>5, <1>6 DEF PointsInv

LEMMA CountOfIn ==
  ASSUME NEW v, NEW kind
  PROVE  CountOf(v, kind) = CountIn(points, v, kind)
BY DEF CountOf, CountIn

(* Who stands for a visit that owed nothing.                                *)
LEMMA SyncedHeld ==
  ASSUME InspectionTypeOK, InspectionTypeOK', PointsInv, NEW v \in Visit, ~ Owes(visit[v]),
         NEW s \in VisitRow, s.status = "accepted",
         visit' = [visit EXCEPT ![v] = s], points' = Synced(v, s)
  PROVE  PointsInv'
<1>1. /\ points \subseteq PointRow /\ IsFiniteSet(points) /\ visit[v] \in VisitRow \cup {Null}
      /\ Held(points, v, visit[v]) /\ s # Null
  BY InspectionNull DEF InspectionTypeOK, PointsInv
<1>2. ~ HasLiveDeduction(v)
  BY <1>1, PointSums, CountOfIn DEF HasLiveDeduction, Held
<1>3. Owes(s) <=> PointsFor(s.lines) # 0 /\ s.merchant # Null
  BY <1>1 DEF Owes
<1>4. CASE ~ Owes(s)
  <2>1. points' = points
    BY <1>2, <1>3, <1>4 DEF Synced
  <2>2. Held(points', v, s)
    BY <1>1, <1>4, <2>1, PointsKept
  <2> QED
    <3>1. \A m \in Merchant : PaidIn(points, v, m) \in Int /\ TotalIn(points, m) \in Int
      BY <1>1, PointSums
    <3>2. \A m \in Merchant : TotalIn(points', m) - PaidIn(points', v, m)
                                = TotalIn(points, m) - PaidIn(points, v, m)
      BY <2>1
    <3> QED
      BY <2>1, <2>2, <3>2, PointsOfOthers
<1>5. CASE Owes(s)
  <2>1. PICK p : p = Point(v, "inspection", CountIn(points, v, "inspection"), s.merchant, - PointsFor(s.lines))
    OBVIOUS
  <2>2. points' = points \cup {p}
    BY <1>2, <1>3, <1>5, <2>1, CountOfIn DEF Synced
  <2>3. p \in PointRow /\ p \notin points /\ Held(points \cup {p}, v, s)
    BY <1>1, <1>5, <2>1, PointDeducted
  <2>4. p.visit = v
    BY <2>1 DEF Point
  <2>5. \A m \in Merchant : TotalIn(points \cup {p}, m) - PaidIn(points \cup {p}, v, m)
                               = TotalIn(points, m) - PaidIn(points, v, m)
    BY <1>1, <2>3, <2>4, AddedToBoth
  <2> QED
    BY <2>2, <2>3, <2>4, <2>5, PointsOfOthers
<1> QED
  BY <1>4, <1>5

LEMMA GivenBackHeld ==
  ASSUME InspectionTypeOK, InspectionTypeOK', PointsInv, NEW v \in Visit,
         visit[v] # Null, NEW s \in VisitRow, s.status = "rejected",
         visit' = [visit EXCEPT ![v] = s], points' = GivenBack(v)
  PROVE  PointsInv'
<1>1. /\ points \subseteq PointRow /\ IsFiniteSet(points) /\ visit[v] \in VisitRow
      /\ Held(points, v, visit[v]) /\ ~ Owes(s)
  BY DEF InspectionTypeOK, PointsInv, Owes
<1>2. HasLiveDeduction(v) <=> Owes(visit[v])
  BY <1>1, PointSums, CountOfIn DEF HasLiveDeduction, Held
<1>3. CASE ~ Owes(visit[v])
  <2>1. points' = points
    BY <1>2, <1>3 DEF GivenBack
  <2>2. Held(points', v, s)
    BY <1>1, <1>3, <2>1, PointsKept
  <2>3. \A m \in Merchant : TotalIn(points', m) - PaidIn(points', v, m)
                               = TotalIn(points, m) - PaidIn(points, v, m)
    BY <2>1
  <2> QED
    BY <2>1, <2>2, <2>3, PointsOfOthers
<1>4. CASE Owes(visit[v])
  <2>1. \E n \in points : IsNewest(points, v, n)
    BY <1>1, <1>4, NewestExists
  <2>2. PICK n : n = CHOOSE p \in points :
                        /\ p.visit = v /\ p.kind = "inspection"
                        /\ \A q \in points : q.visit = v /\ q.kind = "inspection" => q.nth =< p.nth
    OBVIOUS
  <2>3. n \in points /\ IsNewest(points, v, n)
    BY <2>1, <2>2 DEF IsNewest
  <2>4. PICK p : p = Point(v, "inspection_reverse", CountIn(points, v, "inspection_reverse"),
                           n.customer, - n.delta)
    OBVIOUS
  <2>5. points' = points \cup {p}
    BY <1>2, <1>4, <2>2, <2>4, CountOfIn DEF GivenBack
  <2>6. p \in PointRow /\ p \notin points /\ Held(points \cup {p}, v, s)
    BY <1>1, <1>4, <2>3, <2>4, PointReturned
  <2>7. p.visit = v
    BY <2>4 DEF Point
  <2>8. \A m \in Merchant : TotalIn(points \cup {p}, m) - PaidIn(points \cup {p}, v, m)
                               = TotalIn(points, m) - PaidIn(points, v, m)
    BY <1>1, <2>6, <2>7, AddedToBoth
  <2> QED
    BY <2>5, <2>6, <2>7, <2>8, PointsOfOthers
<1> QED
  BY <1>3, <1>4

LEMMA DeletedHeld ==
  ASSUME InspectionTypeOK, InspectionTypeOK', PointsInv, NEW v \in Visit,
         visit' = [visit EXCEPT ![v] = Null], points' = {p \in points : p.visit # v}
  PROVE  PointsInv'
<1>1. points \subseteq PointRow /\ IsFiniteSet(points)
  BY DEF InspectionTypeOK
<1>2. PICK Q : Q = points'
  OBVIOUS
<1>3. Q = {p \in points : p.visit # v}
  BY <1>2
<1>4. Held(Q, v, Null)
  BY <1>1, <1>3, PointsGone
<1>5. \A m \in Merchant : TotalIn(Q, m) - PaidIn(Q, v, m) = TotalIn(points, m) - PaidIn(points, v, m)
  <2>1. \A m : PaidIn(points, v, m) \in Int /\ TotalIn(points, m) \in Int
    BY <1>1, PointSums
  <2>2. \A m : PaidIn(Q, v, m) = 0 /\ TotalIn(Q, m) = TotalIn(points, m) - PaidIn(points, v, m)
    BY <1>1, <1>3, PointsDropped
  <2> QED
    BY ONLY <2>1, <2>2
<1> QED
  BY <1>2, <1>3, <1>4, <1>5, PointsOfOthers
-----------------------------------------------------------------------------
(* The movements of visits. *)

(* The parts of visit v that are out, whose row is r, are those it refers   *)
(* to, out of one custody at one turn.                                      *)
OutHeld(v, r) ==
    /\ r = Null \/ r.status = "rejected" => LiveOf(v) = {}
    /\ r # Null =>
          /\ r.moved \subseteq outs
          /\ LiveOf(v) \in {{}, r.moved}
          /\ r.moved = {} \/ \E c \in Custody, t \in 1 .. MaxTurns : r.moved = OutOf(v, r.lines, c, t)

OutsInv == NothingOwed /\ \A v \in Visit : OutHeld(v, visit[v])

LEMMA OutRowParts ==
  ASSUME NEW w \in OutRow
  PROVE  /\ w.visit \in Visit /\ w.item \in Part /\ w.turn \in 1 .. MaxTurns /\ w.place \in Custody
         /\ w.n \in Nat
BY DEF OutRow

(* What a visit may take.                                                   *)
AreParts(lines) == IsFiniteSet(PartsOf(lines)) /\ \A i \in PartsOf(lines) : lines[i] \in Nat

LEMMA BasketParts ==
  ASSUME NEW lines \in Basket
  PROVE  AreParts(lines)
<1>1. IsFiniteSet(DOMAIN lines) /\ \A i \in DOMAIN lines : lines[i] \in Nat
  BY InspectionAssumption
<1>2. IsFiniteSet(PartsOf(lines)) /\ PartsOf(lines) \subseteq DOMAIN lines
  BY <1>1, FS_Subset DEF PartsOf
<1> QED
  BY <1>1, <1>2 DEF AreParts

LEMMA OutOfParts ==
  ASSUME NEW v \in Visit, NEW lines, AreParts(lines), NEW c \in Custody, NEW t \in 1 .. MaxTurns
  PROVE  /\ OutOf(v, lines, c, t) \subseteq OutRow /\ IsFiniteSet(OutOf(v, lines, c, t))
         /\ \A w \in OutOf(v, lines, c, t) :
               /\ w.visit = v /\ w.turn = t /\ w.place = c /\ w.item \in PartsOf(lines)
               /\ w.n = lines[w.item]
         /\ \A i \in PartsOf(lines) : \E w \in OutOf(v, lines, c, t) : w.item = i /\ w.n = lines[i]
<1>1. PartsOf(lines) \subseteq Part
  BY DEF PartsOf
<1> DEFINE row == [i \in PartsOf(lines) |->
                     [visit |-> v, item |-> i, turn |-> t, place |-> c, n |-> lines[i]]]
<1>2. OutOf(v, lines, c, t) = {row[i] : i \in PartsOf(lines)}
  BY DEF OutOf
<1>3. \A i \in PartsOf(lines) : /\ row[i] \in OutRow /\ row[i].item = i /\ row[i].visit = v
                                /\ row[i].turn = t /\ row[i].place = c /\ row[i].n = lines[i]
  BY <1>1 DEF AreParts, OutRow
<1>4. IsFiniteSet({row[i] : i \in PartsOf(lines)})
  <2> HIDE DEF row
  <2> DEFINE S == PartsOf(lines)
             T == {row[i] : i \in S}
             g == [i \in S |-> row[i]]
  <2>1. g \in Surjection(S, T)
    BY DEF Surjection
  <2>2. IsFiniteSet(S)
    BY DEF AreParts
  <2> HIDE DEF S, T, g
  <2>3. IsFiniteSet(T)
    BY <2>1, <2>2, FS_Surjection
  <2> QED
    BY <2>3 DEF T, S
<1> HIDE DEF row
<1> QED
  BY <1>2, <1>3, <1>4

(* A visit turns to what no movement of it has had.                         *)
LEMMA TurnIsNew ==
  ASSUME outs \subseteq OutRow, IsFiniteSet(outs), NEW v
  PROVE  Turn(v) \in Nat \ {0} /\ \A w \in outs : w.visit = v => w.turn < Turn(v)
<1> DEFINE W == {u \in outs : u.visit = v}
           T == {w.turn : w \in W}
           rank == [w \in W |-> w.turn]
<1>1. IsFiniteSet(W)
  BY FS_Subset
<1>2. \A w \in W : rank[w] \in Int /\ rank[w] = w.turn /\ w.turn \in Nat \ {0}
  <2>1. \A w \in W : w.turn \in 1 .. MaxTurns
    BY OutRowParts
  <2> QED
    BY <2>1, InspectionAssumption
<1>3. Turn(v) = IF T = {} THEN 1 ELSE Max(T) + 1
  BY DEF Turn
<1>4. CASE W = {}
  <2>1. T = {} /\ \A w \in outs : w.visit # v
    BY <1>4
  <2> QED
    BY <1>3, <2>1
<1>5. CASE W # {}
  <2>1. \E m \in W : \A u \in W : rank[u] =< rank[m]
    <3> HIDE DEF W, rank
    <3> QED
      BY <1>1, <1>2, <1>5, HighestExists
  <2>2. \E x \in T : \A y \in T : x >= y
    BY <1>2, <2>1
  <2>3. Max(T) \in T /\ \A y \in T : Max(T) >= y
    BY <2>2 DEF Max
  <2>4. \A y \in T : y \in Nat \ {0}
    BY <1>2
  <2>5. Max(T) \in Nat \ {0}
    BY <2>3, <2>4
  <2>6. \A w \in outs : w.visit = v => w.turn \in T
    OBVIOUS
  <2>7. PICK m \in Nat \ {0} : m = Max(T)
    BY <2>5
  <2>8. Turn(v) = m + 1
    BY <1>3, <2>3, <2>7
  <2>9. \A w \in outs : w.visit = v => w.turn < m + 1
    <3> HIDE DEF T
    <3>1. \A y \in T : m >= y /\ y \in Nat
      BY <2>3, <2>4, <2>7
    <3> QED
      BY <2>6, <3>1
  <2> QED
    BY <2>7, <2>8, <2>9
<1> QED
  BY <1>4, <1>5

LEMMA TakenByNat ==
  ASSUME NEW W, W \subseteq OutRow, IsFiniteSet(W), NEW i, NEW c
  PROVE  TakenBy(W, i, c) \in Nat
<1> DEFINE f == [w \in W |-> w.n]
           S == {w \in W : w.item = i /\ w.place = c}
<1>1. IsFiniteSet(S)
  BY FS_Subset
<1>2. \A w \in S : f[w] \in Nat
  BY OutRowParts
<1>3. TakenBy(W, i, c) = SumFunctionOnSet(f, S)
  BY DEF TakenBy
<1> HIDE DEF f, S
<1> QED
  BY <1>1, <1>2, <1>3, SumBounds

(* Less is taken by fewer movements.                                        *)
LEMMA TakenByFewer ==
  ASSUME NEW W, W \subseteq OutRow, IsFiniteSet(W), NEW X \in SUBSET W, NEW i, NEW c
  PROVE  TakenBy(X, i, c) =< TakenBy(W, i, c)
<1> DEFINE f == [w \in W |-> w.n]
           g == [w \in X |-> w.n]
           S == {w \in W : w.item = i /\ w.place = c}
           R == {w \in X : w.item = i /\ w.place = c}
<1>1. IsFiniteSet(S) /\ R \in SUBSET S /\ IsFiniteSet(R) /\ IsFiniteSet(S \ R)
  BY FS_Subset
<1>2. \A w \in S : f[w] \in Nat
  BY OutRowParts
<1>3. \A w \in R : g[w] = f[w]
  OBVIOUS
<1>4. TakenBy(W, i, c) = SumFunctionOnSet(f, S) /\ TakenBy(X, i, c) = SumFunctionOnSet(g, R)
  BY DEF TakenBy
<1> HIDE DEF f, g, S, R
<1>5. \A w \in S : f[w] \in Int
  BY <1>2
<1>6. /\ SumFunctionOnSet(f, S) = SumFunctionOnSet(f, R) + SumFunctionOnSet(f, S \ R)
      /\ SumFunctionOnSet(f, R) \in Int /\ SumFunctionOnSet(f, S \ R) \in Int
  BY ONLY <1>1, <1>5, SumSplit
<1>7. SumFunctionOnSet(g, R) = SumFunctionOnSet(f, R)
  BY <1>1, <1>3, SumSame
<1>8. SumFunctionOnSet(f, S \ R) \in Nat
  BY <1>1, <1>2, SumBounds
<1> QED
  BY ONLY <1>4, <1>6, <1>7, <1>8

(* What a visit takes is taken from its custody.                            *)
LEMMA TakenByMore ==
  ASSUME NEW W, W \subseteq OutRow, IsFiniteSet(W), NEW v \in Visit, NEW lines, AreParts(lines),
         NEW c \in Custody, NEW t \in 1 .. MaxTurns,
         \A w \in W : w.visit = v => w.turn < t, NEW i \in Part, NEW d \in Custody
  PROVE  TakenBy(W \cup OutOf(v, lines, c, t), i, d)
            = TakenBy(W, i, d) + (IF i \in PartsOf(lines) /\ d = c THEN lines[i] ELSE 0)
<1> DEFINE N == OutOf(v, lines, c, t)
           X == W \cup N
           f == [w \in W |-> w.n]
           g == [w \in X |-> w.n]
           S == {w \in W : w.item = i /\ w.place = d}
           R == {w \in X : w.item = i /\ w.place = d}
<1>1. IsFiniteSet(S) /\ \A w \in S : f[w] \in Int /\ g[w] = f[w]
  <2>1. IsFiniteSet(S)
    BY FS_Subset
  <2>2. \A w \in S : w.n \in Nat
    BY OutRowParts
  <2> QED
    BY <2>1, <2>2
<1>2. TakenBy(X, i, d) = SumFunctionOnSet(g, R) /\ TakenBy(W, i, d) = SumFunctionOnSet(f, S)
  BY DEF TakenBy
<1>3. SumFunctionOnSet(g, S) = SumFunctionOnSet(f, S) /\ SumFunctionOnSet(f, S) \in Int
  <2> HIDE DEF f, g, S
  <2> QED
    BY <1>1, SumSame, SumInt
<1>4. CASE i \in PartsOf(lines) /\ d = c
  <2> DEFINE p == [visit |-> v, item |-> i, turn |-> t, place |-> c, n |-> lines[i]]
  <2>1. p \in N /\ p.item = i /\ p.place = d /\ p.n = lines[i] /\ p.turn = t /\ p.visit = v
    BY <1>4 DEF OutOf
  <2>2. \A w \in N : w.item = i => w = p
    BY DEF OutOf
  <2>3. p \notin W
    BY <2>1, OutRowParts, InspectionAssumption
  <2>4. g[p] = lines[i] /\ lines[i] \in Int
    BY <1>4, <2>1 DEF AreParts
  <2> HIDE DEF p, N
  <2>5. R = S \cup {p} /\ p \notin S
    BY <2>1, <2>2, <2>3
  <2> HIDE DEF f, g, S, R, X
  <2>6. (\A w \in S : f[w] \in Int) /\ (\A w \in S : g[w] = f[w])
    BY <1>1
  <2>7. SumFunctionOnSet(g, S \cup {p}) = SumFunctionOnSet(f, S) + g[p]
    BY <1>1, <2>4, <2>5, <2>6, SumAdd
  <2> QED
    BY <1>2, <1>4, <2>4, <2>5, <2>7 DEF X, N
<1>5. CASE ~ (i \in PartsOf(lines) /\ d = c)
  <2>1. \A w \in N : ~ (w.item = i /\ w.place = d)
    BY <1>5 DEF OutOf
  <2> HIDE DEF N
  <2>2. R = S
    BY <2>1
  <2> HIDE DEF f, g, S, R, X
  <2> QED
    BY <1>2, <1>3, <1>5, <2>2 DEF X, N
<1> QED
  BY <1>4, <1>5

(* A visit takes its parts from a custody that has them.                    *)
LEMMA Deducted ==
  ASSUME InspectionTypeOK, OutsInv, NEW v \in Visit, MayTurn(v), LiveOf(v) = {},
         NEW lines, AreParts(lines), NEW c \in Custody, Enough(lines, c),
         NEW r, r # Null, r.status = "accepted", r.moved = OutOf(v, lines, c, Turn(v)),
         OutOf(v, lines, c, Turn(v)) \in {{}, OutOf(v, r.lines, c, Turn(v))},
         visit' = [visit EXCEPT ![v] = r], undone' = undone,
         outs' = outs \cup OutOf(v, lines, c, Turn(v))
  PROVE  /\ outs' \subseteq OutRow /\ IsFiniteSet(outs') /\ undone' \subseteq outs'
         /\ r.moved \subseteq OutRow
         /\ OutsInv'
<1>1. PICK t : t = Turn(v)
  OBVIOUS
<1>2. /\ outs \subseteq OutRow /\ IsFiniteSet(outs) /\ undone \subseteq outs
      /\ \A w \in outs : w.visit = v => w.turn < t
      /\ t \in 1 .. MaxTurns
  <2>1. outs \subseteq OutRow /\ IsFiniteSet(outs) /\ undone \subseteq outs
    BY DEF InspectionTypeOK
  <2>2. t \in Nat \ {0} /\ \A w \in outs : w.visit = v => w.turn < t
    BY <1>1, <2>1, TurnIsNew
  <2>3. t =< MaxTurns
    BY <1>1 DEF MayTurn
  <2> QED
    BY <2>1, <2>2, <2>3, InspectionAssumption
<1>3. PICK N : N = OutOf(v, lines, c, t)
  OBVIOUS
<1>4. /\ N \subseteq OutRow /\ IsFiniteSet(N)
      /\ \A w \in N : w.visit = v /\ w.turn = t
  BY <1>2, <1>3, OutOfParts
<1>5. N \cap outs = {}
  BY <1>2, <1>4, InspectionAssumption
<1>6. outs' = outs \cup N /\ r.moved = N /\ N \in {{}, OutOf(v, r.lines, c, t)}
  BY <1>1, <1>3
<1>7. outs' \subseteq OutRow /\ IsFiniteSet(outs') /\ undone' \subseteq outs'
  <2>1. IsFiniteSet(outs \cup N)
    BY ONLY <1>2, <1>4, FS_Union
  <2>2. outs' \subseteq OutRow /\ undone' \subseteq outs'
    BY <1>2, <1>4, <1>6
  <2> QED
    BY <1>6, <2>1, <2>2
<1>8. ASSUME NEW d \in Custody, NEW i \in Part PROVE StockOf(i, d)' >= 0
  <2>1. PICK W : W = outs \ undone
    OBVIOUS
  <2>2. W \subseteq OutRow /\ IsFiniteSet(W) /\ \A w \in W : w.visit = v => w.turn < t
    BY <1>2, <2>1, FS_Subset
  <2>3. (outs \ undone)' = W \cup N
    BY <1>2, <1>5, <1>6, <2>1
  <2>4. TakenBy(W \cup N, i, d)
           = TakenBy(W, i, d) + (IF i \in PartsOf(lines) /\ d = c THEN lines[i] ELSE 0)
    BY ONLY <1>2, <1>3, <2>2, TakenByMore, v \in Visit, AreParts(lines), c \in Custody,
       i \in Part, d \in Custody
  <2>5. StockOf(i, d)' = Filled - TakenBy(W \cup N, i, d) /\ StockOf(i, d) = Filled - TakenBy(W, i, d)
    BY <2>1, <2>3 DEF StockOf, TakenBy
  <2>6. StockOf(i, d) >= 0 /\ (i \in PartsOf(lines) /\ d = c => lines[i] =< StockOf(i, d))
    BY DEF OutsInv, NothingOwed, Enough
  <2>7. TakenBy(W, i, d) \in Nat /\ Filled \in Nat /\ (i \in PartsOf(lines) => lines[i] \in Nat)
    BY <2>2, TakenByNat, InspectionAssumption DEF AreParts
  <2> QED
    BY ONLY <2>4, <2>5, <2>6, <2>7
<1>9. ASSUME NEW u \in Visit \ {v} PROVE OutHeld(u, visit[u])'
  <2>1. visit'[u] = visit[u]
    BY DEF InspectionTypeOK
  <2>2. LiveOf(u)' = LiveOf(u)
    BY <1>4, <1>6 DEF LiveOf
  <2> QED
    BY <1>6, <2>1, <2>2 DEF OutsInv, OutHeld, OutOf
<1>10. OutHeld(v, visit[v])'
  <2>1. visit'[v] = r
    BY DEF InspectionTypeOK
  <2>2. LiveOf(v)' = N
    BY <1>2, <1>4, <1>5, <1>6 DEF LiveOf
  <2>3. r.moved \subseteq outs' /\ LiveOf(v)' \in {{}, r.moved}
    BY <1>6, <2>2
  <2>4. N = {} \/ N = OutOf(v, r.lines, c, t)
    BY <1>6
  <2> QED
    BY <1>2, <1>6, <2>1, <2>3, <2>4 DEF OutHeld
<1>11. OutsInv'
  BY <1>8, <1>9, <1>10 DEF OutsInv, NothingOwed
<1> QED
  BY <1>4, <1>6, <1>7, <1>11

(* A visit is changed, and no movement.                                     *)
LEMMA OutsStay ==
  ASSUME InspectionTypeOK, OutsInv, NEW v \in Visit, NEW r, OutHeld(v, r),
         visit' = [visit EXCEPT ![v] = r], outs' = outs, undone' = undone
  PROVE  OutsInv'
<1>1. ASSUME NEW u \in Visit PROVE OutHeld(u, visit[u])'
  <2>1. visit'[u] = IF u = v THEN r ELSE visit[u]
    BY DEF InspectionTypeOK
  <2>2. OutHeld(u, visit'[u])
    BY <2>1 DEF OutsInv
  <2> QED
    BY <2>2 DEF OutHeld, LiveOf
<1>2. \A i, c : StockOf(i, c)' = StockOf(i, c)
  BY DEF StockOf
<1> QED
  BY <1>1, <1>2 DEF OutsInv, NothingOwed

(* What a visit took is given back, whole.                                  *)
LEMMA Restored ==
  ASSUME InspectionTypeOK, OutsInv, NEW v \in Visit, visit[v] # Null, ReturnStock(v),
         NEW s, s = Null \/ (s.status = "rejected" /\ s.moved = visit[v].moved /\ s.lines = visit[v].lines),
         visit' = [visit EXCEPT ![v] = s], outs' = outs
  PROVE  undone' \subseteq outs' /\ OutsInv'
<1>1. PICK r : r = visit[v]
  OBVIOUS
<1>2. /\ outs \subseteq OutRow /\ IsFiniteSet(outs) /\ undone \subseteq outs
      /\ undone' = undone \cup r.moved
      /\ r.moved \subseteq outs /\ LiveOf(v) \in {{}, r.moved} /\ r # Null
      /\ r.moved = {} \/ \E c \in Custody, t \in 1 .. MaxTurns : r.moved = OutOf(v, r.lines, c, t)
  BY <1>1 DEF InspectionTypeOK, OutsInv, OutHeld, ReturnStock
<1>3. \A w \in r.moved : w.visit = v
  BY <1>2 DEF OutOf
<1>4. LiveOf(v)' = {}
  BY <1>2, <1>3 DEF LiveOf
<1>5. ASSUME NEW u \in Visit PROVE OutHeld(u, visit[u])'
  <2>1. CASE u = v
    <3>1. visit'[v] = s
      BY DEF InspectionTypeOK
    <3>2. s # Null => s.moved = r.moved /\ s.lines = r.lines
      BY <1>1
    <3> QED
      BY <1>2, <1>4, <2>1, <3>1, <3>2 DEF OutHeld, OutOf
  <2>2. CASE u # v
    <3>1. visit'[u] = visit[u]
      BY <2>2 DEF InspectionTypeOK
    <3>2. LiveOf(u)' = LiveOf(u)
      BY <1>2, <1>3, <2>2 DEF LiveOf
    <3> QED
      BY <3>1, <3>2 DEF OutsInv, OutHeld
  <2> QED
    BY <2>1, <2>2
<1>6. ASSUME NEW i \in Part, NEW c \in Custody PROVE StockOf(i, c)' >= 0
  <2>1. PICK W, X : W = outs \ undone /\ X = (outs \ undone)'
    OBVIOUS
  <2>2. W \subseteq OutRow /\ IsFiniteSet(W) /\ X \in SUBSET W
    BY <1>2, <2>1, FS_Subset
  <2>3. TakenBy(X, i, c) =< TakenBy(W, i, c)
    BY <2>2, TakenByFewer
  <2>4. TakenBy(X, i, c) \in Nat /\ TakenBy(W, i, c) \in Nat /\ Filled \in Nat
    BY <2>2, TakenByNat, FS_Subset, InspectionAssumption
  <2>5. StockOf(i, c)' = Filled - TakenBy(X, i, c) /\ StockOf(i, c) = Filled - TakenBy(W, i, c)
    BY <2>1 DEF StockOf, TakenBy
  <2>6. StockOf(i, c) >= 0
    BY DEF OutsInv, NothingOwed
  <2> QED
    BY ONLY <2>3, <2>4, <2>5, <2>6
<1> QED
  BY <1>2, <1>5, <1>6 DEF OutsInv, NothingOwed

LEMMA SyncedTyped ==
  ASSUME points \subseteq PointRow, IsFiniteSet(points), NEW v \in Visit, NEW s \in VisitRow
  PROVE  Synced(v, s) \subseteq PointRow /\ IsFiniteSet(Synced(v, s))
<1>1. CountOf(v, "inspection") \in Nat
  BY PointSums, CountOfIn
<1>2. CASE Synced(v, s) = points
  BY <1>2
<1>3. CASE Synced(v, s) # points
  <2>1. PICK p : p = Point(v, "inspection", CountOf(v, "inspection"), s.merchant, - PointsFor(s.lines))
    OBVIOUS
  <2>2. s.merchant # Null /\ Synced(v, s) = points \cup {p}
    BY <1>3, <2>1 DEF Synced
  <2>3. s.merchant \in Merchant /\ PointsFor(s.lines) \in Nat
    <3>1. s.merchant \in Merchant
      BY <2>2 DEF VisitRow
    <3>2. s # Null
      BY InspectionNull
    <3> QED
      BY <3>1, <3>2, DueParts
  <2>4. p \in PointRow
    BY <1>1, <2>1, <2>3 DEF Point, PointRow
  <2> QED
    BY <2>2, <2>4, FS_AddElement
<1> QED
  BY <1>2, <1>3

LEMMA GivenBackTyped ==
  ASSUME InspectionTypeOK, PointsInv, NEW v \in Visit, visit[v] # Null
  PROVE  GivenBack(v) \subseteq PointRow /\ IsFiniteSet(GivenBack(v))
<1>1. /\ points \subseteq PointRow /\ IsFiniteSet(points) /\ visit[v] \in VisitRow
      /\ Held(points, v, visit[v])
  BY DEF InspectionTypeOK, PointsInv
<1>2. CASE ~ HasLiveDeduction(v)
  BY <1>1, <1>2 DEF GivenBack
<1>3. CASE HasLiveDeduction(v)
  <2>1. Owes(visit[v])
    BY <1>1, <1>3, PointSums, CountOfIn DEF HasLiveDeduction, Held
  <2>2. \E n \in points : IsNewest(points, v, n)
    BY <1>1, <2>1, NewestExists
  <2>3. PICK n : n = CHOOSE p \in points :
                        /\ p.visit = v /\ p.kind = "inspection"
                        /\ \A q \in points : q.visit = v /\ q.kind = "inspection" => q.nth =< p.nth
    OBVIOUS
  <2>4. n \in points
    BY <2>2, <2>3 DEF IsNewest
  <2>5. PICK p : p = Point(v, "inspection_reverse", CountOf(v, "inspection_reverse"),
                           n.customer, - n.delta)
    OBVIOUS
  <2>6. GivenBack(v) = points \cup {p}
    BY <1>3, <2>3, <2>5 DEF GivenBack
  <2>7. n.customer \in Merchant /\ n.delta \in Int /\ CountOf(v, "inspection_reverse") \in Nat
    BY <1>1, <2>4, PointRowParts, PointSums, CountOfIn
  <2>8. p \in PointRow
    BY <2>5, <2>7 DEF Point, PointRow
  <2> QED
    BY <1>1, <2>6, <2>8, FS_AddElement
<1> QED
  BY <1>2, <1>3

(* What accepting a visit takes again is what its lines say, or nothing.    *)
LEMMA TakenAgain ==
  ASSUME NEW v \in Visit, NEW r \in VisitRow,
         r.moved = {} \/ \E c \in Custody, t \in 1 .. MaxTurns : r.moved = OutOf(v, r.lines, c, t),
         NEW lines, lines = [i \in {w.item : w \in r.moved} |-> r.lines[i]]
  PROVE  /\ AreParts(lines)
         /\ \A c, t : OutOf(v, lines, c, t) \in {{}, OutOf(v, r.lines, c, t)}
<1>1. CASE r.moved = {}
  <2>1. PartsOf(lines) = {}
    BY <1>1 DEF PartsOf
  <2> QED
    BY <2>1, FS_EmptySet DEF AreParts, OutOf
<1>2. CASE r.moved # {}
  <2>1. PICK c0 \in Custody, t0 \in 1 .. MaxTurns : r.moved = OutOf(v, r.lines, c0, t0)
    BY <1>2
  <2>2. AreParts(r.lines)
    BY BasketParts DEF VisitRow
  <2>3. {w.item : w \in r.moved} = PartsOf(r.lines)
    <3>1. /\ \A i \in PartsOf(r.lines) : \E w \in r.moved : w.item = i
          /\ \A w \in r.moved : w.item \in PartsOf(r.lines)
      BY ONLY <2>1, <2>2, OutOfParts, v \in Visit
    <3> QED
      BY <3>1
  <2>4. PartsOf(r.lines) \subseteq Part
    BY DEF PartsOf
  <2>5. PartsOf(lines) = PartsOf(r.lines) /\ \A i \in PartsOf(lines) : lines[i] = r.lines[i]
    BY <2>3, <2>4 DEF PartsOf
  <2>6. AreParts(lines)
    BY <2>2, <2>5 DEF AreParts
  <2>7. \A c, t : OutOf(v, lines, c, t) = OutOf(v, r.lines, c, t)
    BY <2>5 DEF OutOf
  <2> QED
    BY <2>6, <2>7
<1> QED
  BY <1>1, <1>2

VisitsInv == InspectionTypeOK /\ OutsInv /\ PointsInv

LEMMA VisitCreated ==
  ASSUME VisitsInv, NEW v \in Visit, NEW r \in Visitor, NEW lines \in Basket,
         NEW merchant \in Merchant \cup {Null}, CreateVisit(v, r, lines, merchant)
  PROVE  VisitsInv'
<1>1. /\ InspectionTypeOK /\ OutsInv /\ PointsInv
      /\ visit[v] = Null /\ MayTurn(v) /\ undone' = undone /\ points' = Synced(v, visit'[v])
  BY DEF VisitsInv, CreateVisit
<1>2. LiveOf(v) = {} /\ ~ Owes(visit[v])
  BY <1>1 DEF OutsInv, OutHeld, Owes
<1>3. AreParts(lines)
  BY BasketParts
<1>4. ASSUME NEW s \in VisitRow, s.status = "accepted", visit' = [visit EXCEPT ![v] = s],
             outs' \subseteq OutRow, IsFiniteSet(outs'), undone' \subseteq outs', OutsInv'
      PROVE  VisitsInv'
  <2>1. visit'[v] = s
    BY <1>1, <1>4 DEF InspectionTypeOK
  <2>2. points' \subseteq PointRow /\ IsFiniteSet(points')
    BY <1>1, <2>1, SyncedTyped DEF InspectionTypeOK
  <2>3. InspectionTypeOK'
    BY <1>1, <1>4, <2>2 DEF InspectionTypeOK
  <2>4. PointsInv'
    BY <1>1, <1>2, <1>4, <2>1, <2>3, SyncedHeld
  <2> QED
    BY <1>4, <2>3, <2>4 DEF VisitsInv
<1>5. CASE \E c \in Places(r) :
            /\ Enough(lines, c)
            /\ outs' = outs \cup OutOf(v, lines, c, Turn(v))
            /\ visit' = [visit EXCEPT ![v] = [rep |-> r, lines |-> lines, merchant |-> merchant,
                            status |-> "accepted", moved |-> OutOf(v, lines, c, Turn(v))]]
  <2>1. PICK c \in Places(r) :
            /\ Enough(lines, c)
            /\ outs' = outs \cup OutOf(v, lines, c, Turn(v))
            /\ visit' = [visit EXCEPT ![v] = [rep |-> r, lines |-> lines, merchant |-> merchant,
                            status |-> "accepted", moved |-> OutOf(v, lines, c, Turn(v))]]
    BY <1>5
  <2>2. PICK s : s = [rep |-> r, lines |-> lines, merchant |-> merchant,
                      status |-> "accepted", moved |-> OutOf(v, lines, c, Turn(v))]
    OBVIOUS
  <2>3. /\ s.lines = lines /\ s.status = "accepted" /\ s.moved = OutOf(v, lines, c, Turn(v))
        /\ visit' = [visit EXCEPT ![v] = s] /\ c \in Custody
    BY <2>1, <2>2 DEF Places
  <2>4. s # Null
    <3>1. Turn(v) \in 1 .. MaxTurns
      BY <1>1, TurnIsNew, InspectionAssumption DEF MayTurn, InspectionTypeOK
    <3>2. OutOf(v, lines, c, Turn(v)) \subseteq OutRow
      BY <1>3, <2>3, <3>1, OutOfParts
    <3>3. s \in VisitRow
      BY <2>2, <3>2 DEF VisitRow
    <3> QED
      BY <3>3, InspectionNull
  <2>5. /\ outs' \subseteq OutRow /\ IsFiniteSet(outs') /\ undone' \subseteq outs'
        /\ s.moved \subseteq OutRow /\ OutsInv'
    BY <1>1, <1>2, <1>3, <2>1, <2>3, <2>4, Deducted
  <2>6. s \in VisitRow
    BY <2>2, <2>5 DEF VisitRow
  <2> QED
    BY <1>4, <2>3, <2>5, <2>6
<1>6. CASE /\ outs' = outs
           /\ visit' = [visit EXCEPT ![v] = [rep |-> r, lines |-> lines, merchant |-> merchant,
                            status |-> "accepted", moved |-> {}]]
  <2>1. PICK s : s = [rep |-> r, lines |-> lines, merchant |-> merchant,
                      status |-> "accepted", moved |-> {}]
    OBVIOUS
  <2>2. s \in VisitRow /\ s.status = "accepted" /\ s.moved = {} /\ visit' = [visit EXCEPT ![v] = s]
    BY <1>6, <2>1 DEF VisitRow
  <2>3. OutHeld(v, s)
    BY <1>2, <2>2 DEF OutHeld
  <2>4. OutsInv'
    BY <1>1, <1>6, <2>2, <2>3, OutsStay
  <2> QED
    BY <1>1, <1>4, <1>6, <2>2, <2>4 DEF InspectionTypeOK
<1> QED
  BY <1>5, <1>6 DEF CreateVisit

LEMMA VisitAccepted ==
  ASSUME VisitsInv, NEW v \in Visit, AcceptVisit(v)
  PROVE  VisitsInv'
<1>1. PICK r : r = visit[v]
  OBVIOUS
<1>2. /\ InspectionTypeOK /\ OutsInv /\ PointsInv /\ r \in VisitRow /\ r # Null
      /\ r.status = "rejected" /\ MayTurn(v) /\ undone' = undone /\ points' = Synced(v, visit'[v])
  <2>1. r \in VisitRow /\ r.status # "accepted"
    BY <1>1 DEF VisitsInv, AcceptVisit, InspectionTypeOK
  <2>2. r.status = "rejected"
    BY <2>1 DEF VisitRow
  <2> QED
    BY <1>1, <2>1, <2>2 DEF VisitsInv, AcceptVisit
<1>3. /\ LiveOf(v) = {} /\ ~ Owes(visit[v]) /\ r.moved \subseteq outs
      /\ r.moved = {} \/ \E c \in Custody, t \in 1 .. MaxTurns : r.moved = OutOf(v, r.lines, c, t)
  BY <1>1, <1>2 DEF OutsInv, OutHeld, Owes
<1>4. PICK lines : lines = [i \in {w.item : w \in r.moved} |-> r.lines[i]]
  OBVIOUS
<1>5. /\ AreParts(lines)
      /\ \A c, t : OutOf(v, lines, c, t) \in {{}, OutOf(v, r.lines, c, t)}
  BY ONLY <1>2, <1>3, <1>4, TakenAgain
<1>6. ASSUME NEW s \in VisitRow, s.status = "accepted", visit' = [visit EXCEPT ![v] = s],
             outs' \subseteq OutRow, IsFiniteSet(outs'), undone' \subseteq outs', OutsInv'
      PROVE  VisitsInv'
  <2>1. visit'[v] = s
    BY <1>2, <1>6 DEF InspectionTypeOK
  <2>2. points' \subseteq PointRow /\ IsFiniteSet(points')
    BY <1>2, <2>1, SyncedTyped DEF InspectionTypeOK
  <2>3. InspectionTypeOK'
    BY <1>2, <1>6, <2>2 DEF InspectionTypeOK
  <2>4. PointsInv'
    BY <1>2, <1>3, <1>6, <2>1, <2>3, SyncedHeld
  <2> QED
    BY <1>6, <2>3, <2>4 DEF VisitsInv
<1>7. CASE \E c \in Places(r.rep) :
            /\ Enough(lines, c)
            /\ outs' = outs \cup OutOf(v, lines, c, Turn(v))
            /\ visit' = [visit EXCEPT ![v].status = "accepted",
                                      ![v].moved = OutOf(v, lines, c, Turn(v))]
  <2>1. PICK c \in Places(r.rep) :
            /\ Enough(lines, c)
            /\ outs' = outs \cup OutOf(v, lines, c, Turn(v))
            /\ visit' = [visit EXCEPT ![v].status = "accepted",
                                      ![v].moved = OutOf(v, lines, c, Turn(v))]
    BY <1>7
  <2>2. PICK s : s = [r EXCEPT !.status = "accepted", !.moved = OutOf(v, lines, c, Turn(v))]
    OBVIOUS
  <2>3. /\ s.lines = r.lines /\ s.status = "accepted" /\ s.moved = OutOf(v, lines, c, Turn(v))
        /\ s.rep = r.rep /\ s.merchant = r.merchant
    BY <1>2, <2>2 DEF VisitRow
  <2>4. visit' = [visit EXCEPT ![v] = s] /\ c \in Custody
    BY <1>1, <1>2, <2>1, <2>2 DEF Places, InspectionTypeOK
  <2>5. OutOf(v, lines, c, Turn(v)) \subseteq OutRow
    <3>1. Turn(v) \in 1 .. MaxTurns
      BY <1>2, TurnIsNew, InspectionAssumption DEF MayTurn, InspectionTypeOK
    <3> QED
      BY <1>5, <2>4, <3>1, OutOfParts
  <2>6. s \in VisitRow
    BY <1>2, <2>2, <2>5 DEF VisitRow
  <2>7. s # Null
    BY <2>6, InspectionNull
  <2>8. OutOf(v, lines, c, Turn(v)) \in {{}, OutOf(v, s.lines, c, Turn(v))}
    BY <1>5, <2>3
  <2>9. /\ outs' \subseteq OutRow /\ IsFiniteSet(outs') /\ undone' \subseteq outs' /\ OutsInv'
    BY <1>2, <1>3, <1>5, <2>1, <2>3, <2>4, <2>7, <2>8, Deducted
  <2> QED
    BY <1>6, <2>3, <2>4, <2>6, <2>9
<1>8. CASE outs' = outs /\ visit' = [visit EXCEPT ![v].status = "accepted"]
  <2>1. PICK s : s = [r EXCEPT !.status = "accepted"]
    OBVIOUS
  <2>2. /\ s \in VisitRow /\ s.lines = r.lines /\ s.status = "accepted" /\ s.moved = r.moved
        /\ visit' = [visit EXCEPT ![v] = s]
    BY <1>1, <1>2, <1>8, <2>1 DEF VisitRow, InspectionTypeOK
  <2>3. OutHeld(v, s)
    BY <1>3, <2>2 DEF OutHeld
  <2>4. OutsInv'
    BY <1>2, <1>8, <2>2, <2>3, OutsStay
  <2> QED
    BY <1>2, <1>6, <1>8, <2>2, <2>4 DEF InspectionTypeOK
<1>9. \/ \E c \in Places(r.rep) :
            /\ Enough(lines, c)
            /\ outs' = outs \cup OutOf(v, lines, c, Turn(v))
            /\ visit' = [visit EXCEPT ![v].status = "accepted",
                                      ![v].moved = OutOf(v, lines, c, Turn(v))]
      \/ outs' = outs /\ visit' = [visit EXCEPT ![v].status = "accepted"]
  BY <1>1, <1>4 DEF AcceptVisit
<1> QED
  BY <1>7, <1>8, <1>9

LEMMA VisitRejected ==
  ASSUME VisitsInv, NEW v \in Visit, RejectVisit(v)
  PROVE  VisitsInv'
<1>1. PICK r, s : r = visit[v] /\ s = [r EXCEPT !.status = "rejected"]
  OBVIOUS
<1>2. /\ InspectionTypeOK /\ OutsInv /\ PointsInv /\ r \in VisitRow /\ visit[v] # Null
      /\ ReturnStock(v) /\ points' = GivenBack(v) /\ outs' = outs
      /\ visit' = [visit EXCEPT ![v].status = "rejected"]
  BY <1>1 DEF VisitsInv, RejectVisit, InspectionTypeOK
<1>3. /\ s \in VisitRow /\ s.status = "rejected" /\ s.moved = r.moved /\ s.lines = r.lines
      /\ visit' = [visit EXCEPT ![v] = s]
  BY <1>1, <1>2 DEF VisitRow, InspectionTypeOK
<1>4. undone' \subseteq outs' /\ OutsInv'
  <2>1. s.status = "rejected" /\ s.moved = visit[v].moved /\ s.lines = visit[v].lines
    BY <1>1, <1>3
  <2> QED
    BY ONLY <1>2, <1>3, <2>1, Restored, v \in Visit
<1>5. points' \subseteq PointRow /\ IsFiniteSet(points')
  BY <1>2, GivenBackTyped
<1>6. InspectionTypeOK'
  BY <1>2, <1>3, <1>4, <1>5 DEF InspectionTypeOK
<1>7. PointsInv'
  BY <1>2, <1>3, <1>6, GivenBackHeld
<1> QED
  BY <1>4, <1>6, <1>7 DEF VisitsInv

LEMMA VisitDeleted ==
  ASSUME VisitsInv, NEW v \in Visit, DeleteVisit(v)
  PROVE  VisitsInv'
<1>1. /\ InspectionTypeOK /\ OutsInv /\ PointsInv /\ visit[v] # Null
      /\ outs' = outs /\ points' = {p \in points : p.visit # v}
      /\ visit' = [visit EXCEPT ![v] = Null]
  BY DEF VisitsInv, DeleteVisit
<1>2. undone' \subseteq outs' /\ OutsInv'
  <2>1. CASE visit[v].status = "rejected"
    <3>1. undone' = undone
      BY <2>1 DEF DeleteVisit
    <3>2. OutHeld(v, Null)
      BY <1>1, <2>1 DEF OutsInv, OutHeld
    <3> QED
      BY <1>1, <3>1, <3>2, OutsStay DEF InspectionTypeOK
  <2>2. CASE visit[v].status # "rejected"
    <3>1. ReturnStock(v)
      BY <2>2 DEF DeleteVisit
    <3> QED
      BY <1>1, <3>1, Restored
  <2> QED
    BY <2>1, <2>2
<1>3. points' \subseteq PointRow /\ IsFiniteSet(points')
  BY <1>1, FS_Subset DEF InspectionTypeOK
<1>4. InspectionTypeOK'
  BY <1>1, <1>2, <1>3 DEF InspectionTypeOK
<1>5. PointsInv'
  BY <1>1, <1>4, DeletedHeld
<1> QED
  BY <1>2, <1>4, <1>5 DEF VisitsInv

(* Only the custodies change, or nothing.                                   *)
LEMMA VisitsUnchanged ==
  ASSUME VisitsInv, UNCHANGED <<visit, outs, undone, points>>
  PROVE  VisitsInv'
<1>1. InspectionTypeOK' /\ PointsInv'
  BY DEF VisitsInv, InspectionTypeOK, PointsInv, TotalsHeld
<1>2. \A i, c : StockOf(i, c)' = StockOf(i, c)
  BY DEF StockOf
<1>3. OutsInv'
  BY <1>2 DEF VisitsInv, OutsInv, OutHeld, LiveOf, NothingOwed
<1> QED
  BY <1>1, <1>3 DEF VisitsInv

LEMMA VisitsInitially == InspectionInit => VisitsInv
<1> SUFFICES ASSUME InspectionInit PROVE VisitsInv
  OBVIOUS
<1>1. visit = [v \in Visit |-> Null] /\ outs = {} /\ undone = {} /\ points = {}
  BY DEF InspectionInit
<1>2. InspectionTypeOK
  BY <1>1, FS_EmptySet DEF InspectionTypeOK
<1>3. OutsInv
  <2>1. ASSUME NEW i \in Part, NEW c \in Custody PROVE StockOf(i, c) >= 0
    <3>1. outs \ undone = {}
      BY <1>1
    <3>2. TakenBy({}, i, c) = 0
      <4>1. {w \in {} : w.item = i /\ w.place = c} = {}
        OBVIOUS
      <4> QED
        BY <4>1, SumEmpty DEF TakenBy
    <3> QED
      BY <3>1, <3>2, InspectionAssumption DEF StockOf
  <2>2. \A v \in Visit : visit[v] = Null /\ LiveOf(v) = {}
    BY <1>1 DEF LiveOf
  <2> QED
    BY <2>1, <2>2 DEF OutsInv, OutHeld, NothingOwed
<1>4. PointsInv
  <2>1. \A v : Held({}, v, Null)
    <3>1. PICK Q : Q = {}
      OBVIOUS
    <3>2. Q \subseteq PointRow /\ IsFiniteSet(Q) /\ \A v : Q = {p \in Q : p.visit # v}
      BY <3>1, FS_EmptySet
    <3> QED
      BY <3>1, <3>2, PointsGone
  <2>2. ASSUME NEW m \in Merchant
        PROVE  TotalIn({}, m) = - SumFunctionOnSet([v \in Visit |-> Due(visit[v], m)], Visit)
    <3> DEFINE f == [v \in Visit |-> Due(visit[v], m)]
    <3>1. \A v \in Visit : f[v] = 0
      BY <1>1 DEF Due
    <3>2. {p \in {} : p.customer = m} = {}
      OBVIOUS
    <3>3. TotalIn({}, m) = 0
      BY <3>2, SumEmpty DEF TotalIn
    <3> HIDE DEF f
    <3>4. SumFunctionOnSet(f, Visit) = SumFunctionOnSet(f, {}) /\ SumFunctionOnSet(f, {}) = 0
      <4>1. (\A v \in Visit : f[v] \in Int) /\ {} \in SUBSET Visit /\ \A v \in Visit \ {} : f[v] = 0
        BY <3>1
      <4> QED
        BY ONLY <4>1, SumSupport, SumEmpty, InspectionAssumption
    <3> QED
      BY <3>3, <3>4 DEF f
  <2> QED
    BY <1>1, <2>1, <2>2 DEF PointsInv, TotalsHeld
<1> QED
  BY <1>2, <1>3, <1>4 DEF VisitsInv

LEMMA VisitsInvSays == VisitsInv => VisitsAddUp
<1> SUFFICES ASSUME VisitsInv PROVE VisitsAddUp
  OBVIOUS
<1>1. OutOfOneCustody
  <2>1. ASSUME NEW v \in Visit
        PROVE  /\ visit[v] = Null \/ visit[v].status = "rejected" => LiveOf(v) = {}
               /\ LiveOf(v) # {} => \E c \in Custody, t \in 1 .. MaxTurns :
                                        LiveOf(v) = OutOf(v, visit[v].lines, c, t)
    BY DEF VisitsInv, OutsInv, OutHeld
  <2> QED
    BY <2>1 DEF OutOfOneCustody
<1>2. PointsOfStanding
  <2>1. \A m : PaidBy(m) = TotalIn(points, m)
    BY DEF PaidBy, TotalIn
  <2> QED
    BY <2>1 DEF VisitsInv, PointsInv, TotalsHeld, PointsOfStanding
<1> QED
  BY <1>1, <1>2 DEF VisitsAddUp, VisitsInv, OutsInv

(* Whatever visits are sent, rejected, accepted and deleted, and whoever    *)
(* holds the custodies meanwhile, a visit that stands has its parts out of  *)
(* one custody and its points from its merchant, and no other has           *)
(* (inspection_service.py: create_inspection, reject_inspection,            *)
(* accept_inspection, delete_inspection).                                   *)
THEOREM VisitsStandOrFall ==
    InspectionInit /\ [][InspectionNext]_inspectionVars => []VisitsAddUp
<1>1. InspectionInit => VisitsInv
  BY VisitsInitially
<1>2. VisitsInv /\ [InspectionNext]_inspectionVars => VisitsInv'
  <2> SUFFICES ASSUME VisitsInv, [InspectionNext]_inspectionVars PROVE VisitsInv'
    OBVIOUS
  <2>1. CASE \E v \in Visit, r \in Visitor, lines \in Basket, merchant \in Merchant \cup {Null} :
                 CreateVisit(v, r, lines, merchant)
    BY <2>1, VisitCreated
  <2>2. CASE \E v \in Visit : RejectVisit(v)
    BY <2>2, VisitRejected
  <2>3. CASE \E v \in Visit : AcceptVisit(v)
    BY <2>3, VisitAccepted
  <2>4. CASE \E v \in Visit : DeleteVisit(v)
    BY <2>4, VisitDeleted
  <2>5. CASE \E c \in Custody, r \in Visitor, active \in BOOLEAN : UpdateCustody(c, r, active)
    <3>1. UNCHANGED <<visit, outs, undone, points>>
      BY <2>5 DEF UpdateCustody
    <3> QED
      BY <3>1, VisitsUnchanged
  <2>6. CASE UNCHANGED inspectionVars
    <3>1. UNCHANGED <<visit, outs, undone, points>>
      BY <2>6 DEF inspectionVars
    <3> QED
      BY <3>1, VisitsUnchanged
  <2> QED
    BY <2>1, <2>2, <2>3, <2>4, <2>5, <2>6 DEF InspectionNext
<1>3. VisitsInv => VisitsAddUp
  BY VisitsInvSays
<1> QED
  BY <1>1, <1>2, <1>3, PTL

-----------------------------------------------------------------------------
(* What orders of production moved. *)

NetIn(L, what, K) == Total({m \in L : m.what = what /\ m.key \in K})

(* The row of m where a material waits while it is in progress, and back.   *)
Counterpart(m) ==
    Move(m.order, IF m.what = "issue" THEN "to_wip" ELSE "issue", m.key, m.item, m.place, - m.n)

ReceiptsAmong(R) == {m \in R : m.what = "receipt"}

(* Row m, one of R, says what order ord does.                               *)
RowFits(ord, R, m) ==
    /\ m.what \in {"issue", "to_wip"} =>
          /\ m.key \in DOMAIN ord.materials /\ ord.materials[m.key].issued
          /\ m.n = IF m.what = "to_wip" /\ m.place = "wip" THEN ord.materials[m.key].n
                   ELSE - ord.materials[m.key].n
    /\ m.what = "receipt" =>
          /\ m.place = "store" /\ m.n \in Nat
          /\ m.key \in (DOMAIN ord.products) \X Nat
          /\ m.key[2] < Cardinality(ReceiptsAmong(R))
    /\ m.what = "output" => /\ m.place = "store" /\ m.n \in Nat /\ ord.state = "done"
                            /\ m.key \in DOMAIN ord.products

(* The rows L say what was received and made of line l.                     *)
LineMoved(ord, L, l) ==
    LET in == NetIn(L, "receipt", ReceiptsOf(l))  rest == NetIn(L, "output", {l})
    IN  IF ord.state = "done"
        THEN in + rest = ord.products[l].n \/ (rest = 0 /\ in > ord.products[l].n)
        ELSE in = ord.products[l].received

(* Order ord has the rows R, of which those of L were not reversed.         *)
Moved(ord, R, L) ==
    /\ L \subseteq R /\ Cardinality(ReceiptsAmong(R)) =< MaxReceipts
    /\ \A m \in R : RowFits(ord, R, m)
    /\ \A m \in R \ L : m.what = "receipt"
    /\ \A k \in DOMAIN ord.materials :
          ord.materials[k].issued => \E m \in R :
              {q \in R : q.what = "issue" /\ q.key = k} = {m}
    /\ \A m \in L : m.place = "wip" => Counterpart(m) \in L
    /\ \A l \in DOMAIN ord.products : LineMoved(ord, L, l)
    /\ ord.state = "done" => \A k \in DOMAIN ord.materials : ord.materials[k].issued

Stands(ord) == ord # Null /\ ord.reverses = Null /\ ord.state # "reversed"

OrderHeld(o) ==
    /\ order[o] = Null \/ order[o].reverses # Null => MovesOf(o) = {}
    /\ Stands(order[o]) => Moved(order[o], MovesOf(o), MovesOf(o) \ mirrored)
    /\ order[o] # Null /\ order[o].reverses = Null /\ order[o].state \in {"draft", "confirmed"} =>
          MovesOf(o) = {}
    /\ order[o] # Null /\ order[o].reverses # Null => order[o].state = "done"
    /\ order[o] # Null /\ order[o].state = "reversed" => MovesOf(o) \subseteq mirrored

ProductionInv == ProductionTypeOK /\ \A o \in Order : OrderHeld(o)

LEMMA MoveRowParts ==
  ASSUME NEW m \in MoveRow
  PROVE  /\ m.order \in Order /\ m.what \in {"to_wip", "issue", "receipt", "output"}
         /\ m.item \in Item /\ m.place \in Place /\ m.n \in Int
         /\ m = Move(m.order, m.what, m.key, m.item, m.place, m.n)
BY DEF MoveRow, Move

(* What rows of movements come to.                                          *)
LEMMA TotalOf ==
  ASSUME NEW A, A \subseteq MoveRow, IsFiniteSet(A)
  PROVE  /\ Total(A) \in Int
         /\ (\A m \in A : m.n >= 0) => Total(A) >= 0
         /\ A = {} => Total(A) = 0
<1> DEFINE f == [m \in A |-> m.n]
<1>1. \A m \in A : f[m] \in Int /\ f[m] = m.n
  BY MoveRowParts
<1>2. Total(A) = SumFunctionOnSet(f, A)
  BY DEF Total
<1> HIDE DEF f
<1>3. ASSUME \A m \in A : m.n >= 0 PROVE Total(A) >= 0
  <2>1. \A m \in A : f[m] \in Nat
    BY <1>1, <1>3
  <2> QED
    BY <1>2, <2>1, SumBounds
<1> QED
  BY <1>1, <1>2, <1>3, SumInt, SumEmpty

LEMMA TotalIsPart ==
  ASSUME NEW W, NEW A \in SUBSET W, IsFiniteSet(A)
  PROVE  SumFunctionOnSet([m \in W |-> m.n], A) = Total(A)
<1> DEFINE f == [m \in W |-> m.n]
           g == [m \in A |-> m.n]
<1>1. \A m \in A : f[m] = g[m]
  OBVIOUS
<1> HIDE DEF f, g
<1>2. SumFunctionOnSet(f, A) = SumFunctionOnSet(g, A)
  BY <1>1, SumSame
<1> QED
  BY <1>2 DEF f, g, Total

LEMMA TotalOfBoth ==
  ASSUME NEW A, A \subseteq MoveRow, IsFiniteSet(A), NEW B, B \subseteq MoveRow, IsFiniteSet(B),
         A \cap B = {}
  PROVE  Total(A \cup B) = Total(A) + Total(B)
<1> DEFINE W == A \cup B
           f == [m \in W |-> m.n]
<1>1. IsFiniteSet(W) /\ A \in SUBSET W /\ W \ A = B
  BY FS_Union
<1>2. \A m \in W : f[m] \in Int
  BY MoveRowParts
<1>3. /\ SumFunctionOnSet(f, A) = Total(A) /\ SumFunctionOnSet(f, B) = Total(B)
      /\ SumFunctionOnSet(f, W) = Total(W)
  BY <1>1, TotalIsPart
<1> HIDE DEF f
<1>4. SumFunctionOnSet(f, W) = SumFunctionOnSet(f, A) + SumFunctionOnSet(f, W \ A)
  BY ONLY <1>1, <1>2, SumSplit
<1> QED
  BY <1>1, <1>3, <1>4

LEMMA TotalOfOne ==
  ASSUME NEW m \in MoveRow
  PROVE  Total({m}) = m.n
<1> DEFINE f == [x \in {m} |-> x.n]
<1>1. f[m] = m.n /\ f[m] \in Int
  BY MoveRowParts
<1>2. Total({m}) = SumFunctionOnSet(f, {m})
  BY DEF Total
<1> HIDE DEF f
<1>3. SumFunctionOnSet(f, {m}) = f[m] + SumFunctionOnSet(f, {m} \ {m})
  <2>1. IsFiniteSet({m}) /\ \A y \in {m} : f[y] \in Int
    BY <1>1, FS_Singleton
  <2> QED
    BY <2>1, SumRemove
<1>4. {m} \ {m} = {}
  OBVIOUS
<1> QED
  BY <1>1, <1>2, <1>3, <1>4, SumEmpty

AtPlace(W, i, p) == {m \in W : m.item = i /\ m.place = p}

LEMMA PutIsTotal ==
  ASSUME NEW W, W \subseteq MoveRow, IsFiniteSet(W), NEW i, NEW p
  PROVE  /\ Put(W, i, p) = Total(AtPlace(W, i, p)) /\ Put(W, i, p) \in Int
         /\ AtPlace(W, i, p) \subseteq MoveRow /\ IsFiniteSet(AtPlace(W, i, p))
<1>1. IsFiniteSet(AtPlace(W, i, p)) /\ AtPlace(W, i, p) \in SUBSET W
  BY FS_Subset DEF AtPlace
<1>2. SumFunctionOnSet([m \in W |-> m.n], AtPlace(W, i, p)) = Total(AtPlace(W, i, p))
  BY <1>1, TotalIsPart
<1>3. Put(W, i, p) = SumFunctionOnSet([m \in W |-> m.n], AtPlace(W, i, p))
  BY DEF Put, AtPlace
<1> QED
  BY <1>1, <1>2, <1>3, TotalOf

LEMMA PutOfBoth ==
  ASSUME NEW A, A \subseteq MoveRow, IsFiniteSet(A), NEW B, B \subseteq MoveRow, IsFiniteSet(B),
         A \cap B = {}, NEW i, NEW p
  PROVE  Put(A \cup B, i, p) = Put(A, i, p) + Put(B, i, p)
<1>1. PICK X, Y : X = AtPlace(A, i, p) /\ Y = AtPlace(B, i, p)
  OBVIOUS
<1>2. /\ X \subseteq MoveRow /\ IsFiniteSet(X) /\ Y \subseteq MoveRow /\ IsFiniteSet(Y)
      /\ Put(A, i, p) = Total(X) /\ Put(B, i, p) = Total(Y)
  BY <1>1, PutIsTotal
<1>3. X \cap Y = {} /\ AtPlace(A \cup B, i, p) = X \cup Y
  BY <1>1 DEF AtPlace
<1>4. IsFiniteSet(A \cup B) /\ A \cup B \subseteq MoveRow
  BY FS_Union
<1>5. Put(A \cup B, i, p) = Total(X \cup Y)
  BY <1>3, <1>4, PutIsTotal
<1> QED
  BY <1>2, <1>3, <1>5, TotalOfBoth

(* The parts of an order.                                                   *)
LEMMA OrderParts ==
  ASSUME NEW d \in Draft, NEW ord \in OrderRow(d)
  PROVE  /\ ord # Null /\ ord.reverses \in Order \cup {Null}
         /\ ord.state \in {"draft", "confirmed", "in_progress", "done", "reversed"}
         /\ IsFiniteSet(DOMAIN ord.products) /\ IsFiniteSet(DOMAIN ord.materials)
         /\ DOMAIN ord.products = DOMAIN d.products /\ DOMAIN ord.materials = DOMAIN d.materials
         /\ DOMAIN ord.products \subseteq ProductLine /\ DOMAIN ord.materials \subseteq MaterialLine
         /\ \A l \in DOMAIN ord.products : /\ ord.products[l].item \in Item /\ ord.products[l].n \in Nat
                                           /\ ord.products[l].received \in Nat
         /\ \A k \in DOMAIN ord.materials :
               /\ ord.materials[k].item \in Item /\ ord.materials[k].n \in Nat
               /\ ord.materials[k].stage \in Stage /\ ord.materials[k].issued \in BOOLEAN
<1>1. /\ ord.products \in [DOMAIN d.products -> ProductRow]
      /\ ord.materials \in [DOMAIN d.materials -> MaterialRow]
      /\ ord.state \in {"draft", "confirmed", "in_progress", "done", "reversed"}
      /\ ord.reverses \in Order \cup {Null}
  BY DEF OrderRow
<1>2. DOMAIN ord.products = DOMAIN d.products /\ DOMAIN ord.materials = DOMAIN d.materials
  BY <1>1
<1>3. ord # Null
  BY ProductionNull
<1>4. DOMAIN d.products \subseteq ProductLine /\ DOMAIN d.materials \subseteq MaterialLine
  BY DEF ProductLine, MaterialLine
<1>5. \A l \in DOMAIN d.products : ord.products[l] \in ProductRow
  BY <1>1
<1>6. \A k \in DOMAIN d.materials : ord.materials[k] \in MaterialRow
  BY <1>1
<1> QED
  BY <1>1, <1>2, <1>3, <1>4, <1>5, <1>6, ProductionAssumption DEF ProductRow, MaterialRow

(* What issuing materials K of an order moves.                              *)
LEMMA IssueParts ==
  ASSUME NEW d \in Draft, NEW ord \in OrderRow(d), NEW o \in Order,
         NEW K \in SUBSET DOMAIN ord.materials
  PROVE  /\ IssueRows(o, ord, K) \subseteq MoveRow /\ IsFiniteSet(IssueRows(o, ord, K))
         /\ \A m \in IssueRows(o, ord, K) :
               /\ m.order = o /\ m.what \in {"issue", "to_wip"} /\ m.key \in K
               /\ m.n = IF m.what = "to_wip" /\ m.place = "wip" THEN ord.materials[m.key].n
                        ELSE - ord.materials[m.key].n
               /\ m.place = "wip" => Counterpart(m) \in IssueRows(o, ord, K)
         /\ \A k \in K : \E m \in IssueRows(o, ord, K) :
               {q \in IssueRows(o, ord, K) : q.what = "issue" /\ q.key = k} = {m}
<1> DEFINE row(what, k, p, s) == Move(o, what, k, ord.materials[k].item, p, s * ord.materials[k].n)
           X == IssueRows(o, ord, K)
<1>1. /\ IsFiniteSet(K) /\ K \subseteq MaterialLine
      /\ \A k \in K : ord.materials[k].item \in Item /\ ord.materials[k].n \in Nat
  BY OrderParts, FS_Subset
<1>2. \A k \in K : /\ row("to_wip", k, "store", -1) \in MoveRow /\ row("to_wip", k, "wip", 1) \in MoveRow
                   /\ row("issue", k, "wip", -1) \in MoveRow /\ row("issue", k, "store", -1) \in MoveRow
  BY <1>1 DEF Move, MoveRow, Place
<1>3. ASSUME NEW g, NEW T, T = {g[k] : k \in K} PROVE IsFiniteSet(T)
  <2>1. [k \in K |-> g[k]] \in Surjection(K, T)
    BY <1>3 DEF Surjection
  <2> QED
    BY <1>1, <2>1, FS_Surjection
<1>4. X = IF perpetual
          THEN {row("to_wip", k, "store", -1) : k \in K} \cup {row("to_wip", k, "wip", 1) : k \in K}
                 \cup {row("issue", k, "wip", -1) : k \in K}
          ELSE {row("issue", k, "store", -1) : k \in K}
  BY DEF IssueRows
<1>5. IsFiniteSet(X)
  <2> DEFINE A == {row("to_wip", k, "store", -1) : k \in K}
             B == {row("to_wip", k, "wip", 1) : k \in K}
             C == {row("issue", k, "wip", -1) : k \in K}
             D == {row("issue", k, "store", -1) : k \in K}
             a == [k \in K |-> row("to_wip", k, "store", -1)]
             b == [k \in K |-> row("to_wip", k, "wip", 1)]
             c == [k \in K |-> row("issue", k, "wip", -1)]
             e == [k \in K |-> row("issue", k, "store", -1)]
  <2>1. A = {a[k] : k \in K} /\ B = {b[k] : k \in K} /\ C = {c[k] : k \in K} /\ D = {e[k] : k \in K}
    OBVIOUS
  <2> HIDE DEF A, B, C, D, a, b, c, e
  <2>2. IsFiniteSet(A) /\ IsFiniteSet(B) /\ IsFiniteSet(C) /\ IsFiniteSet(D)
    BY <1>3, <2>1
  <2>3. X = IF perpetual THEN A \cup B \cup C ELSE D
    BY <1>4 DEF A, B, C, D
  <2>4. IsFiniteSet(A \cup B \cup C)
    BY ONLY <2>2, FS_Union
  <2> QED
    BY <2>2, <2>3, <2>4
<1>6. X \subseteq MoveRow
  BY <1>2, <1>4
<1>7. ASSUME NEW m \in X
      PROVE  /\ m.order = o /\ m.what \in {"issue", "to_wip"} /\ m.key \in K
             /\ m.n = IF m.what = "to_wip" /\ m.place = "wip" THEN ord.materials[m.key].n
                      ELSE - ord.materials[m.key].n
             /\ m.place = "wip" => Counterpart(m) \in X
  <2>1. PICK k \in K : \/ perpetual /\ m = row("to_wip", k, "store", -1)
                       \/ perpetual /\ m = row("to_wip", k, "wip", 1)
                       \/ perpetual /\ m = row("issue", k, "wip", -1)
                       \/ ~ perpetual /\ m = row("issue", k, "store", -1)
    BY <1>4
  <2>2. PICK i, n : i = ord.materials[k].item /\ n = ord.materials[k].n /\ n \in Nat
    BY <1>1
  <2>3. CASE m = row("to_wip", k, "store", -1)
    BY <2>2, <2>3 DEF Move
  <2>4. CASE m = row("to_wip", k, "wip", 1) /\ perpetual
    <3>1. Counterpart(m) = row("issue", k, "wip", -1)
      <4>1. m = [order |-> o, what |-> "to_wip", key |-> k, item |-> i, place |-> "wip", n |-> n]
        BY <2>2, <2>4 DEF Move
      <4>2. Counterpart(m)
              = [order |-> o, what |-> "issue", key |-> k, item |-> i, place |-> "wip", n |-> - n]
        BY <4>1 DEF Counterpart, Move
      <4> QED
        BY <2>2, <4>2 DEF Move
    <3> QED
      BY <1>4, <2>2, <2>4, <3>1 DEF Move
  <2>5. CASE m = row("issue", k, "wip", -1) /\ perpetual
    <3>1. Counterpart(m) = row("to_wip", k, "wip", 1)
      <4>1. m = [order |-> o, what |-> "issue", key |-> k, item |-> i, place |-> "wip", n |-> - n]
        BY <2>2, <2>5 DEF Move
      <4>2. Counterpart(m)
              = [order |-> o, what |-> "to_wip", key |-> k, item |-> i, place |-> "wip", n |-> n]
        BY <2>2, <4>1 DEF Counterpart, Move
      <4> QED
        BY <2>2, <4>2 DEF Move
    <3> QED
      BY <1>4, <2>2, <2>5, <3>1 DEF Move
  <2>6. CASE m = row("issue", k, "store", -1)
    BY <2>2, <2>6 DEF Move
  <2> QED
    BY <2>1, <2>3, <2>4, <2>5, <2>6
<1>8. ASSUME NEW k \in K PROVE \E m \in X : {q \in X : q.what = "issue" /\ q.key = k} = {m}
  <2>1. PICK m : m = row("issue", k, IF perpetual THEN "wip" ELSE "store", -1)
    OBVIOUS
  <2>2. m \in X /\ m.what = "issue" /\ m.key = k
    BY <1>4, <2>1 DEF Move
  <2>3. \A q \in X : q.what = "issue" /\ q.key = k => q = m
    BY <1>4, <2>1 DEF Move
  <2> QED
    BY <2>2, <2>3
<1> QED
  BY <1>5, <1>6, <1>7, <1>8

(* Issuing takes from the store what the materials say.                     *)
LEMMA IssuedOfStore ==
  ASSUME NEW d \in Draft, NEW ord \in OrderRow(d), NEW o \in Order,
         NEW K \in SUBSET DOMAIN ord.materials, NEW i
  PROVE  /\ Put(IssueRows(o, ord, K), i, "store")
              = - SumFunctionOnSet([k \in K |-> ord.materials[k].n], {k \in K : ord.materials[k].item = i})
         /\ SumFunctionOnSet([k \in K |-> ord.materials[k].n], {k \in K : ord.materials[k].item = i}) \in Nat
<1> DEFINE row(what, k, p, s) == Move(o, what, k, ord.materials[k].item, p, s * ord.materials[k].n)
           X == IssueRows(o, ord, K)
           S == {k \in K : ord.materials[k].item = i}
           w == IF perpetual THEN "to_wip" ELSE "issue"
           g == [k \in S |-> row(w, k, "store", -1)]
           A == AtPlace(X, i, "store")
           f == [m \in A |-> m.n]
           c == [k \in K |-> ord.materials[k].n]
           h == [k \in S |-> - c[k]]
<1>1. IsFiniteSet(S) /\ \A k \in S : c[k] \in Nat
  <2>1. IsFiniteSet(K)
    BY OrderParts, FS_Subset
  <2> QED
    BY <2>1, OrderParts, FS_Subset
<1>2. X = IF perpetual
          THEN {row("to_wip", k, "store", -1) : k \in K} \cup {row("to_wip", k, "wip", 1) : k \in K}
                 \cup {row("issue", k, "wip", -1) : k \in K}
          ELSE {row("issue", k, "store", -1) : k \in K}
  BY DEF IssueRows
<1>3. A = {g[k] : k \in S}
  <2>1. ASSUME NEW k \in S PROVE g[k] \in A
    <3>1. PICK q : q = row(w, k, "store", -1)
      OBVIOUS
    <3>2. q \in X
      BY <1>2, <3>1
    <3>3. q.item = i /\ q.place = "store"
      BY <3>1 DEF Move
    <3> QED
      BY <3>1, <3>2, <3>3 DEF AtPlace
  <2>2. ASSUME NEW m \in A PROVE \E k \in S : m = g[k]
    <3>1. m \in X /\ m.item = i /\ m.place = "store"
      BY DEF AtPlace
    <3>2. PICK k \in K :
             \/ perpetual /\ m = row("to_wip", k, "store", -1)
             \/ perpetual /\ m = row("to_wip", k, "wip", 1)
             \/ perpetual /\ m = row("issue", k, "wip", -1)
             \/ ~ perpetual /\ m = row("issue", k, "store", -1)
      BY <1>2, <3>1
    <3>3. m = row(w, k, "store", -1)
      BY <3>1, <3>2 DEF Move
    <3>4. k \in S
      BY <3>1, <3>3 DEF Move
    <3> QED
      BY <3>3, <3>4
  <2> QED
    BY <2>1, <2>2
<1>4. \A x, y \in S : g[x] = g[y] => x = y
  BY DEF Move
<1>5. \A k \in S : f[g[k]] = h[k] /\ h[k] \in Int /\ h[k] = - c[k] /\ c[k] \in Int
  <2> SUFFICES ASSUME NEW k \in S
               PROVE  f[g[k]] = h[k] /\ h[k] \in Int /\ h[k] = - c[k] /\ c[k] \in Int
    OBVIOUS
  <2>1. g[k] \in A /\ g[k].n = (-1) * ord.materials[k].n
    <3>1. g[k] \in A
      BY <1>3
    <3>2. g[k].n = (-1) * ord.materials[k].n
      BY DEF Move
    <3> QED
      BY <3>1, <3>2
  <2>2. c[k] = ord.materials[k].n /\ c[k] \in Nat /\ h[k] = - c[k]
    BY <1>1
  <2>3. f[g[k]] = g[k].n
    BY <2>1
  <2> HIDE DEF f, g, h, c, A, S
  <2> QED
    BY <2>1, <2>2, <2>3
<1>6. Put(X, i, "store") = SumFunctionOnSet(f, A)
  <2>1. X \subseteq MoveRow /\ IsFiniteSet(X)
    BY IssueParts
  <2> QED
    BY <2>1, PutIsTotal DEF Total
<1> HIDE DEF X, S, A, f, c, h, g, w, row
<1>7. SumFunctionOnSet(f, {g[k] : k \in S}) = SumFunctionOnSet(h, S)
  BY ONLY <1>1, <1>4, <1>5, SumMapped
<1>8. SumFunctionOnSet(h, S) = - SumFunctionOnSet(c, S)
  BY ONLY <1>1, <1>5, SumNegated
<1>9. SumFunctionOnSet(c, S) \in Nat
  BY ONLY <1>1, SumBounds
<1> QED
  BY <1>3, <1>6, <1>7, <1>8, <1>9 DEF X, c, S

(* What waits in progress comes in pairs.                                   *)
LEMMA WaitingInPairs ==
  ASSUME NEW W, W \subseteq MoveRow, IsFiniteSet(W),
         \A m \in W : m.place = "wip" => m.what \in {"issue", "to_wip"} /\ Counterpart(m) \in W,
         NEW i
  PROVE  Put(W, i, "wip") = 0
<1> DEFINE S == AtPlace(W, i, "wip")
           f == [m \in S |-> m.n]
           g == [m \in S |-> Counterpart(m)]
<1>1. S \subseteq MoveRow /\ IsFiniteSet(S) /\ Put(W, i, "wip") = Total(S)
  BY PutIsTotal
<1>2. ASSUME NEW m \in S PROVE /\ g[m] \in S /\ g[g[m]] = m /\ f[g[m]] = - f[m] /\ f[m] \in Int
  <2>1. m \in W /\ m.item = i /\ m.place = "wip" /\ m.what \in {"issue", "to_wip"}
    BY DEF AtPlace
  <2>2. m.n \in Int /\ m = Move(m.order, m.what, m.key, m.item, m.place, m.n)
    BY <1>1, MoveRowParts
  <2>3. PICK q : q = Counterpart(m)
    OBVIOUS
  <2>4. /\ q \in W /\ q.item = i /\ q.place = "wip" /\ q.n = - m.n /\ q.order = m.order /\ q.key = m.key
        /\ q.what = IF m.what = "issue" THEN "to_wip" ELSE "issue"
    BY <2>1, <2>3 DEF Counterpart, Move
  <2>5. q \in S
    BY <2>4 DEF AtPlace
  <2>6. Counterpart(q) = m
    BY <2>1, <2>2, <2>4 DEF Counterpart
  <2> QED
    BY <2>2, <2>3, <2>4, <2>5, <2>6
<1>3. Total(S) = SumFunctionOnSet(f, S)
  BY DEF Total
<1> HIDE DEF S, f, g
<1>4. SumFunctionOnSet(f, S) = 0
  BY ONLY <1>1, <1>2, SumOpposite
<1> QED
  BY <1>1, <1>3, <1>4

(* Materials that are issued, and the order's next state.                   *)
IssuedAs(ord, K, s) == [Issued(ord, K) EXCEPT !.state = s]

LEMMA IssuedRow ==
  ASSUME NEW d \in Draft, NEW ord \in OrderRow(d), NEW K \in SUBSET DOMAIN ord.materials,
         NEW s \in {"draft", "confirmed", "in_progress", "done", "reversed"},
         NEW new, new = IssuedAs(ord, K, s)
  PROVE  /\ new \in OrderRow(d) /\ new.products = ord.products /\ new.state = s
         /\ new.reverses = ord.reverses /\ DOMAIN new.materials = DOMAIN ord.materials
         /\ \A k \in DOMAIN ord.materials :
               /\ new.materials[k].n = ord.materials[k].n
               /\ new.materials[k].issued = (k \in K \/ ord.materials[k].issued)
<1>1. PICK M : M = [k \in DOMAIN ord.materials |->
                      IF k \in K THEN [ord.materials[k] EXCEPT !.issued = TRUE] ELSE ord.materials[k]]
  OBVIOUS
<1>2. ord \in [state : {"draft", "confirmed", "in_progress", "done", "reversed"},
               reverses : Order \cup {Null},
               products : [DOMAIN d.products -> ProductRow],
               materials : [DOMAIN d.materials -> MaterialRow]]
  BY DEF OrderRow
<1>3. Issued(ord, K) = [ord EXCEPT !.materials = M]
  BY <1>1, <1>2 DEF Issued
<1>4. /\ new.products = ord.products /\ new.state = s /\ new.reverses = ord.reverses
      /\ new.materials = M
  BY <1>2, <1>3 DEF IssuedAs
<1>5. \A k \in DOMAIN d.materials : ord.materials[k] \in MaterialRow
  BY <1>2
<1>6. \A k \in DOMAIN d.materials :
         /\ M[k] \in MaterialRow /\ M[k].n = ord.materials[k].n
         /\ M[k].issued = (k \in K \/ ord.materials[k].issued)
  BY <1>1, <1>2, <1>5 DEF MaterialRow
<1>7. M \in [DOMAIN d.materials -> MaterialRow] /\ DOMAIN M = DOMAIN ord.materials
  BY <1>1, <1>2, <1>6
<1>8. new \in OrderRow(d)
  BY <1>2, <1>3, <1>7 DEF OrderRow, IssuedAs
<1> QED
  BY <1>2, <1>4, <1>6, <1>7, <1>8

(* What rows of one kind come to, for the lines K.                          *)
LEMMA NetInParts ==
  ASSUME NEW A, A \subseteq MoveRow, IsFiniteSet(A), NEW what, NEW K
  PROVE  /\ NetIn(A, what, K) \in Int
         /\ (\A m \in A : m.what = what /\ m.key \in K => m.n >= 0) => NetIn(A, what, K) >= 0
         /\ (\A m \in A : m.what = what => m.key \notin K) => NetIn(A, what, K) = 0
<1> DEFINE S == {m \in A : m.what = what /\ m.key \in K}
<1>1. S \subseteq MoveRow /\ IsFiniteSet(S)
  BY FS_Subset
<1>2. NetIn(A, what, K) = Total(S)
  BY DEF NetIn
<1> QED
  BY <1>1, <1>2, TotalOf

LEMMA NetInBoth ==
  ASSUME NEW A, A \subseteq MoveRow, IsFiniteSet(A), NEW B, B \subseteq MoveRow, IsFiniteSet(B),
         A \cap B = {}, NEW what, NEW K
  PROVE  NetIn(A \cup B, what, K) = NetIn(A, what, K) + NetIn(B, what, K)
<1> DEFINE S == {m \in A : m.what = what /\ m.key \in K}
           T == {m \in B : m.what = what /\ m.key \in K}
<1>1. /\ S \subseteq MoveRow /\ IsFiniteSet(S) /\ T \subseteq MoveRow /\ IsFiniteSet(T)
      /\ S \cap T = {}
  BY FS_Subset
<1>2. {m \in A \cup B : m.what = what /\ m.key \in K} = S \cup T
  OBVIOUS
<1>3. NetIn(A \cup B, what, K) = Total(S \cup T)
  BY <1>2 DEF NetIn
<1>4. NetIn(A, what, K) = Total(S) /\ NetIn(B, what, K) = Total(T)
  BY DEF NetIn
<1> HIDE DEF S, T
<1> QED
  BY <1>1, <1>3, <1>4, TotalOfBoth

LEMMA NetInOne ==
  ASSUME NEW m \in MoveRow, NEW what, NEW K
  PROVE  NetIn({m}, what, K) = IF m.what = what /\ m.key \in K THEN m.n ELSE 0
<1>1. CASE m.what = what /\ m.key \in K
  <2>1. {q \in {m} : q.what = what /\ q.key \in K} = {m}
    BY <1>1
  <2> QED
    BY <1>1, <2>1, TotalOfOne DEF NetIn
<1>2. CASE ~ (m.what = what /\ m.key \in K)
  <2>1. IsFiniteSet({m}) /\ {m} \subseteq MoveRow
    BY FS_Singleton
  <2>2. \A q \in {m} : q.what = what => q.key \notin K
    BY <1>2
  <2> QED
    BY <1>2, <2>1, <2>2, NetInParts
<1> QED
  BY <1>1, <1>2

(* Rows of other kinds change nothing of what a line received or made.      *)
LEMMA LineUntouched ==
  ASSUME NEW L, L \subseteq MoveRow, IsFiniteSet(L), NEW X, X \subseteq MoveRow, IsFiniteSet(X),
         L \cap X = {}, \A m \in X : m.what \in {"issue", "to_wip"}, NEW K
  PROVE  /\ NetIn(L \cup X, "receipt", K) = NetIn(L, "receipt", K)
         /\ NetIn(L \cup X, "output", K) = NetIn(L, "output", K)
<1>1. NetIn(X, "receipt", K) = 0 /\ NetIn(X, "output", K) = 0
  BY NetInParts
<1>2. NetIn(L, "receipt", K) \in Int /\ NetIn(L, "output", K) \in Int
  BY NetInParts
<1> QED
  BY <1>1, <1>2, NetInBoth

(* Rows of the table, materials to issue, and what an order is closed with. *)
Apart(A, B) == A \cap B = {}
OfOrder(A, o) == \A m \in A : m.order = o
RowSet(R) == R \subseteq MoveRow /\ IsFiniteSet(R)
Unissued(ord, K) == K \subseteq DOMAIN ord.materials /\ \A k \in K : ~ ord.materials[k].issued
AllIssued(ord) == \A k \in DOMAIN ord.materials : ord.materials[k].issued
NamedWell(ord, named) ==
    \A l \in DOMAIN named : named[l] \in Nat /\ named[l] >= ord.products[l].received

(* An order that issues more, or none, is moved as before.                  *)
LEMMA MovedIssue ==
  ASSUME NEW d \in Draft, NEW ord \in OrderRow(d), NEW o \in Order,
         NEW K, Unissued(ord, K), ord.state # "done",
         NEW s \in {"draft", "confirmed", "in_progress"},
         NEW new, new = IssuedAs(ord, K, s),
         NEW R, RowSet(R), NEW L, Moved(ord, R, L),
         NEW X, X = IssueRows(o, ord, K)
  PROVE  Apart(R, X) /\ Moved(new, R \cup X, L \cup X)
<1>0. /\ K \in SUBSET DOMAIN ord.materials /\ \A k \in K : ~ ord.materials[k].issued
      /\ R \subseteq MoveRow /\ IsFiniteSet(R)
  BY DEF Unissued, RowSet
<1>1. /\ X \subseteq MoveRow /\ IsFiniteSet(X)
      /\ \A m \in X :
            /\ m.order = o /\ m.what \in {"issue", "to_wip"} /\ m.key \in K
            /\ m.n = IF m.what = "to_wip" /\ m.place = "wip" THEN ord.materials[m.key].n
                     ELSE - ord.materials[m.key].n
            /\ m.place = "wip" => Counterpart(m) \in X
      /\ \A k \in K : \E m \in X : {q \in X : q.what = "issue" /\ q.key = k} = {m}
  BY <1>0, IssueParts
<1>2. /\ new \in OrderRow(d) /\ new.products = ord.products /\ new.state = s
      /\ DOMAIN new.materials = DOMAIN ord.materials
      /\ \A k \in DOMAIN ord.materials :
            /\ new.materials[k].n = ord.materials[k].n
            /\ new.materials[k].issued = (k \in K \/ ord.materials[k].issued)
  <2>1. s \in {"draft", "confirmed", "in_progress", "done", "reversed"}
    OBVIOUS
  <2> QED
    BY <1>0, <2>1, IssuedRow
<1>3. /\ L \subseteq R /\ Cardinality(ReceiptsAmong(R)) =< MaxReceipts
      /\ \A m \in R : RowFits(ord, R, m)
      /\ \A m \in R \ L : m.what = "receipt"
      /\ \A k \in DOMAIN ord.materials :
            ord.materials[k].issued => \E m \in R :
                {q \in R : q.what = "issue" /\ q.key = k} = {m}
      /\ \A m \in L : m.place = "wip" => Counterpart(m) \in L
      /\ \A l \in DOMAIN ord.products : LineMoved(ord, L, l)
  BY DEF Moved
<1>4. \A m \in R : m.what \in {"issue", "to_wip"} => m.key \in DOMAIN ord.materials /\ m.key \notin K
  BY <1>0, <1>3 DEF RowFits
<1>5. R \cap X = {} /\ Apart(R, X)
  BY <1>1, <1>4 DEF Apart
<1>6. ReceiptsAmong(R \cup X) = ReceiptsAmong(R)
  BY <1>1 DEF ReceiptsAmong
<1>7. ASSUME NEW m \in R \cup X PROVE RowFits(new, R \cup X, m)
  <2>1. CASE m \in R
    BY ZenonT(40), <1>2, <1>3, <1>6, <2>1 DEF RowFits
  <2>2. CASE m \in X
    BY ZenonT(40), <1>0, <1>1, <1>2, <2>2 DEF RowFits
  <2> QED
    BY <2>1, <2>2
<1>8. ASSUME NEW k \in DOMAIN new.materials, new.materials[k].issued
      PROVE  \E m \in R \cup X : {q \in R \cup X : q.what = "issue" /\ q.key = k} = {m}
  <2>1. CASE k \in K
    <3>1. {q \in R \cup X : q.what = "issue" /\ q.key = k} = {q \in X : q.what = "issue" /\ q.key = k}
      BY <1>4, <2>1
    <3> QED
      BY <1>1, <2>1, <3>1
  <2>2. CASE k \notin K
    <3>1. {q \in R \cup X : q.what = "issue" /\ q.key = k} = {q \in R : q.what = "issue" /\ q.key = k}
      BY <1>1, <2>2
    <3>2. k \in DOMAIN ord.materials /\ ord.materials[k].issued
      BY <1>2, <1>8, <2>2
    <3>3. PICK m \in R : {q \in R : q.what = "issue" /\ q.key = k} = {m}
      BY <1>3, <3>2
    <3> QED
      BY <3>1, <3>3
  <2> QED
    BY <2>1, <2>2
<1>9. ASSUME NEW l \in DOMAIN new.products PROVE LineMoved(new, L \cup X, l)
  <2>1. IsFiniteSet(L) /\ L \subseteq MoveRow /\ L \cap X = {}
    BY <1>0, <1>3, <1>5, FS_Subset
  <2>2. NetIn(L \cup X, "receipt", ReceiptsOf(l)) = NetIn(L, "receipt", ReceiptsOf(l))
    <3>1. X \subseteq MoveRow /\ IsFiniteSet(X) /\ \A m \in X : m.what \in {"issue", "to_wip"}
      BY <1>1
    <3> QED
      BY ONLY <2>1, <3>1, LineUntouched
  <2> QED
    BY <1>2, <1>3, <2>2 DEF LineMoved
<1> QED
  BY <1>1, <1>2, <1>3, <1>5, <1>6, <1>7, <1>8, <1>9 DEF Moved

(* What a line is said to have made, and the rows that post it.             *)
LEMMA OutputParts ==
  ASSUME NEW d \in Draft, NEW ord \in OrderRow(d), NEW o \in Order, NEW named,
         \A l \in DOMAIN named : named[l] \in Nat,
         NEW O, O = OutputRows(o, ord, named)
  PROVE  /\ \A l \in DOMAIN ord.products : Made(ord, l, named) \in Nat
         /\ O \subseteq MoveRow /\ IsFiniteSet(O)
         /\ \A m \in O : /\ m.order = o /\ m.what = "output" /\ m.place = "store" /\ m.n \in Nat
                         /\ m.key \in DOMAIN ord.products
         /\ \A l \in DOMAIN ord.products :
               NetIn(O, "output", {l}) = IF Made(ord, l, named) > ord.products[l].received
                                         THEN Made(ord, l, named) - ord.products[l].received ELSE 0
<1> DEFINE P == DOMAIN ord.products
           S == {l \in P : Made(ord, l, named) > ord.products[l].received}
           g == [l \in S |-> Move(o, "output", l, ord.products[l].item, "store",
                                  Made(ord, l, named) - ord.products[l].received)]
<1>1. /\ IsFiniteSet(P) /\ P \subseteq ProductLine
      /\ \A l \in P : /\ ord.products[l].item \in Item /\ ord.products[l].n \in Nat
                      /\ ord.products[l].received \in Nat
  BY OrderParts
<1>2. \A l \in P : Made(ord, l, named) \in Nat
  BY <1>1 DEF Made
<1>3. O = {g[l] : l \in S}
  <2>1. O = {Move(o, "output", l, ord.products[l].item, "store",
                  Made(ord, l, named) - ord.products[l].received) : l \in S}
    BY DEF OutputRows
  <2> QED
    BY <2>1
<1>4. ASSUME NEW l \in S
      PROVE  /\ g[l] \in MoveRow /\ g[l].order = o /\ g[l].what = "output" /\ g[l].key = l
             /\ g[l].place = "store" /\ g[l].n \in Nat
             /\ g[l].n = Made(ord, l, named) - ord.products[l].received
  <2>1. PICK n : n = Made(ord, l, named) - ord.products[l].received
    OBVIOUS
  <2>2. n \in Nat /\ l \in ProductLine /\ ord.products[l].item \in Item
    BY <1>1, <1>2, <2>1
  <2>3. g[l] = [order |-> o, what |-> "output", key |-> l, item |-> ord.products[l].item,
                place |-> "store", n |-> n]
    BY <2>1 DEF Move
  <2>4. g[l] \in MoveRow
    <3> HIDE DEF g
    <3> QED
      BY <2>2, <2>3 DEF MoveRow, Place
  <2> HIDE DEF g
  <2> QED
    BY <2>1, <2>2, <2>3, <2>4
<1>5. IsFiniteSet(O)
  <2>1. g \in Surjection(S, O)
    BY <1>3 DEF Surjection
  <2>2. IsFiniteSet(S)
    BY <1>1, FS_Subset
  <2> QED
    BY <2>1, <2>2, FS_Surjection
<1> HIDE DEF g
<1>6. \A m \in O : /\ m \in MoveRow /\ m.order = o /\ m.what = "output" /\ m.place = "store"
                   /\ m.n \in Nat /\ m.key \in P
  BY <1>3, <1>4
<1>7. ASSUME NEW l \in P
      PROVE  NetIn(O, "output", {l}) = IF Made(ord, l, named) > ord.products[l].received
                                       THEN Made(ord, l, named) - ord.products[l].received ELSE 0
  <2>1. CASE l \in S
    <3>1. {m \in O : m.what = "output" /\ m.key \in {l}} = {g[l]}
      BY <1>3, <1>4, <2>1
    <3>2. NetIn(O, "output", {l}) = g[l].n
      <4>1. Total({g[l]}) = g[l].n
        BY <1>4, <2>1, TotalOfOne
      <4> QED
        BY <3>1, <4>1 DEF NetIn
    <3> QED
      BY <1>4, <2>1, <3>2
  <2>2. CASE l \notin S
    <3>1. \A m \in O : m.what = "output" => m.key \notin {l}
      BY <1>3, <1>4, <2>2
    <3>2. NetIn(O, "output", {l}) = 0
      <4>1. O \subseteq MoveRow
        BY <1>6
      <4> QED
        BY <1>5, <3>1, <4>1, NetInParts
    <3> QED
      BY <2>2, <3>2
  <2> QED
    BY <2>1, <2>2
<1> QED
  BY <1>2, <1>5, <1>6, <1>7

LEMMA ClosedRow ==
  ASSUME NEW d \in Draft, NEW ord \in OrderRow(d), NEW named,
         \A l \in DOMAIN ord.products : Made(ord, l, named) \in Nat,
         NEW new, new = Closed(ord, named)
  PROVE  /\ new \in OrderRow(d) /\ new.materials = ord.materials /\ new.state = "done"
         /\ new.reverses = ord.reverses /\ DOMAIN new.products = DOMAIN ord.products
         /\ \A l \in DOMAIN ord.products : new.products[l].n = Made(ord, l, named)
<1>1. ord \in [state : {"draft", "confirmed", "in_progress", "done", "reversed"},
               reverses : Order \cup {Null},
               products : [DOMAIN d.products -> ProductRow],
               materials : [DOMAIN d.materials -> MaterialRow]]
  BY DEF OrderRow
<1>2. PICK P : P = [l \in DOMAIN ord.products |->
                      [ord.products[l] EXCEPT !.n = Made(ord, l, named),
                                              !.received = Made(ord, l, named)]]
  OBVIOUS
<1>3. new = [ord EXCEPT !.state = "done", !.products = P]
  BY <1>1, <1>2 DEF Closed
<1>4. /\ new.materials = ord.materials /\ new.state = "done" /\ new.reverses = ord.reverses
      /\ new.products = P
  BY <1>1, <1>3
<1>5. DOMAIN ord.products = DOMAIN d.products /\ \A l \in DOMAIN d.products : ord.products[l] \in ProductRow
  BY <1>1
<1>6. \A l \in DOMAIN d.products : P[l] \in ProductRow /\ P[l].n = Made(ord, l, named)
  BY <1>2, <1>5 DEF ProductRow
<1>7. P \in [DOMAIN d.products -> ProductRow] /\ DOMAIN P = DOMAIN ord.products
  BY <1>2, <1>5, <1>6
<1>8. new \in OrderRow(d)
  BY <1>1, <1>3, <1>7 DEF OrderRow
<1> QED
  BY <1>4, <1>5, <1>6, <1>7, <1>8

(* An order that is closed posts the rest of what it made.                  *)
LEMMA MovedClosed ==
  ASSUME NEW d \in Draft, NEW ord \in OrderRow(d), NEW o \in Order, NEW named,
         NamedWell(ord, named), ord.state # "done", AllIssued(ord),
         NEW R, RowSet(R), NEW L, Moved(ord, R, L),
         NEW O, O = OutputRows(o, ord, named),
         NEW new, new = Closed(ord, named)
  PROVE  Apart(R, O) /\ Moved(new, R \cup O, L \cup O)
<1>0. /\ \A l \in DOMAIN named : named[l] \in Nat /\ named[l] >= ord.products[l].received
      /\ \A k \in DOMAIN ord.materials : ord.materials[k].issued
      /\ R \subseteq MoveRow /\ IsFiniteSet(R)
  BY DEF NamedWell, AllIssued, RowSet
<1>1. /\ \A l \in DOMAIN ord.products : Made(ord, l, named) \in Nat
      /\ O \subseteq MoveRow /\ IsFiniteSet(O)
      /\ \A m \in O : /\ m.order = o /\ m.what = "output" /\ m.place = "store" /\ m.n \in Nat
                      /\ m.key \in DOMAIN ord.products
      /\ \A l \in DOMAIN ord.products :
            NetIn(O, "output", {l}) = IF Made(ord, l, named) > ord.products[l].received
                                      THEN Made(ord, l, named) - ord.products[l].received ELSE 0
  BY <1>0, OutputParts
<1>2. /\ new \in OrderRow(d) /\ new.materials = ord.materials /\ new.state = "done"
      /\ new.reverses = ord.reverses /\ DOMAIN new.products = DOMAIN ord.products
      /\ \A l \in DOMAIN ord.products : new.products[l].n = Made(ord, l, named)
  BY <1>1, ClosedRow
<1>3. /\ L \subseteq R /\ Cardinality(ReceiptsAmong(R)) =< MaxReceipts
      /\ \A m \in R : RowFits(ord, R, m)
      /\ \A m \in R \ L : m.what = "receipt"
      /\ \A k \in DOMAIN ord.materials :
            ord.materials[k].issued => \E m \in R :
                {q \in R : q.what = "issue" /\ q.key = k} = {m}
      /\ \A m \in L : m.place = "wip" => Counterpart(m) \in L
      /\ \A l \in DOMAIN ord.products : LineMoved(ord, L, l)
  BY DEF Moved
<1>4. \A m \in R : m.what # "output"
  BY <1>3 DEF RowFits
<1>5. R \cap O = {} /\ Apart(R, O)
  BY <1>1, <1>4 DEF Apart
<1>6. ReceiptsAmong(R \cup O) = ReceiptsAmong(R)
  BY <1>1 DEF ReceiptsAmong
<1>7. ASSUME NEW m \in R \cup O PROVE RowFits(new, R \cup O, m)
  <2>1. CASE m \in R
    BY <1>2, <1>3, <1>4, <1>6, <2>1 DEF RowFits
  <2>2. CASE m \in O
    BY <1>1, <1>2, <2>2 DEF RowFits
  <2> QED
    BY <2>1, <2>2
<1>8. ASSUME NEW k \in DOMAIN new.materials
      PROVE  \E m \in R \cup O : {q \in R \cup O : q.what = "issue" /\ q.key = k} = {m}
  <2>1. {q \in R \cup O : q.what = "issue" /\ q.key = k} = {q \in R : q.what = "issue" /\ q.key = k}
    BY <1>1
  <2>2. PICK m \in R : {q \in R : q.what = "issue" /\ q.key = k} = {m}
    BY <1>0, <1>2, <1>3
  <2> QED
    BY <2>1, <2>2
<1>9. ASSUME NEW l \in DOMAIN new.products PROVE LineMoved(new, L \cup O, l)
  <2>1. IsFiniteSet(L) /\ L \subseteq MoveRow /\ L \cap O = {}
    BY <1>0, <1>3, <1>5, FS_Subset
  <2>2. /\ NetIn(L \cup O, "receipt", ReceiptsOf(l)) = NetIn(L, "receipt", ReceiptsOf(l))
        /\ NetIn(L, "receipt", ReceiptsOf(l)) = ord.products[l].received
    <3>1. NetIn(O, "receipt", ReceiptsOf(l)) = 0
      BY <1>1, NetInParts
    <3>2. NetIn(L, "receipt", ReceiptsOf(l)) \in Int
      BY <2>1, NetInParts
    <3>3. NetIn(L \cup O, "receipt", ReceiptsOf(l))
            = NetIn(L, "receipt", ReceiptsOf(l)) + NetIn(O, "receipt", ReceiptsOf(l))
      BY <1>1, <2>1, NetInBoth
    <3>4. LineMoved(ord, L, l)
      BY <1>2, <1>3
    <3>5. NetIn(L, "receipt", ReceiptsOf(l)) = ord.products[l].received
      BY <3>4 DEF LineMoved
    <3> QED
      BY <3>1, <3>2, <3>3, <3>5
  <2>3. NetIn(L \cup O, "output", {l}) = NetIn(O, "output", {l})
    <3>1. NetIn(L, "output", {l}) = 0
      BY <1>3, <1>4, <2>1, NetInParts
    <3>2. NetIn(O, "output", {l}) \in Int
      BY <1>1, NetInParts
    <3>3. NetIn(L \cup O, "output", {l}) = NetIn(L, "output", {l}) + NetIn(O, "output", {l})
      BY <1>1, <2>1, NetInBoth
    <3> QED
      BY <3>1, <3>2, <3>3
  <2>4. ord.products[l].received \in Nat /\ Made(ord, l, named) \in Nat
    BY <1>1, <1>2, OrderParts
  <2> QED
    BY <1>0, <1>1, <1>2, <2>2, <2>3, <2>4 DEF LineMoved
<1> QED
  BY <1>0, <1>1, <1>2, <1>3, <1>5, <1>6, <1>7, <1>8, <1>9 DEF Moved

(* A line received s in all.                                                *)
ReceivedAs(ord, l, s) == [ord EXCEPT !.products[l].received = s]

LEMMA ReceivedRow ==
  ASSUME NEW d \in Draft, NEW ord \in OrderRow(d), NEW l \in DOMAIN ord.products, NEW s \in Nat,
         NEW new, new = ReceivedAs(ord, l, s)
  PROVE  /\ new \in OrderRow(d) /\ new.materials = ord.materials /\ new.state = ord.state
         /\ new.reverses = ord.reverses /\ DOMAIN new.products = DOMAIN ord.products
         /\ \A k \in DOMAIN ord.products :
               /\ new.products[k].n = ord.products[k].n
               /\ new.products[k].received = IF k = l THEN s ELSE ord.products[k].received
<1>1. ord \in [state : {"draft", "confirmed", "in_progress", "done", "reversed"},
               reverses : Order \cup {Null},
               products : [DOMAIN d.products -> ProductRow],
               materials : [DOMAIN d.materials -> MaterialRow]]
  BY DEF OrderRow
<1>2. PICK P : P = [ord.products EXCEPT ![l].received = s]
  OBVIOUS
<1>3. new = [ord EXCEPT !.products = P]
  BY <1>1, <1>2 DEF ReceivedAs
<1>4. /\ new.materials = ord.materials /\ new.state = ord.state /\ new.reverses = ord.reverses
      /\ new.products = P
  BY <1>1, <1>3
<1>5. DOMAIN ord.products = DOMAIN d.products /\ \A k \in DOMAIN d.products : ord.products[k] \in ProductRow
  BY <1>1
<1>6. \A k \in DOMAIN d.products :
         /\ P[k] \in ProductRow /\ P[k].n = ord.products[k].n
         /\ P[k].received = IF k = l THEN s ELSE ord.products[k].received
  BY <1>1, <1>2, <1>5 DEF ProductRow
<1>7. P \in [DOMAIN d.products -> ProductRow] /\ DOMAIN P = DOMAIN ord.products
  BY <1>1, <1>2, <1>5, <1>6
<1>8. new \in OrderRow(d)
  BY <1>1, <1>3, <1>7 DEF OrderRow
<1> QED
  BY <1>4, <1>5, <1>6, <1>7, <1>8

(* Row q is the next receipt, of n, beside the rows R.                      *)
IsReceipt(q, l, n, R) ==
    /\ q.what = "receipt" /\ q.place = "store" /\ q.n = n
    /\ q.key = <<l, Cardinality(ReceiptsAmong(R))>>

LEMMA ReceiptIsNew ==
  ASSUME NEW ord, NEW R, RowSet(R), NEW L, Moved(ord, R, L), NEW q, NEW l, NEW n,
         IsReceipt(q, l, n, R)
  PROVE  Apart(R, {q})
<1>1. \A m \in R : m.what = "receipt" => m.key[2] < Cardinality(ReceiptsAmong(R))
  BY DEF Moved, RowFits
<1>2. q.what = "receipt" /\ q.key[2] = Cardinality(ReceiptsAmong(R))
  BY DEF IsReceipt
<1>3. Cardinality(ReceiptsAmong(R)) \in Nat
  BY FS_Subset, FS_CardinalityType DEF RowSet, ReceiptsAmong
<1> QED
  BY <1>1, <1>2, <1>3 DEF Apart

(* Receiving n more of line l.                                              *)
LEMMA MovedReceived ==
  ASSUME NEW d \in Draft, NEW ord \in OrderRow(d), NEW l \in DOMAIN ord.products, NEW n \in Nat,
         ord.state # "done",
         NEW R, RowSet(R), NEW L, Moved(ord, R, L),
         Cardinality(ReceiptsAmong(R)) < MaxReceipts,
         NEW q \in MoveRow, IsReceipt(q, l, n, R),
         NEW new, new = ReceivedAs(ord, l, ord.products[l].received + n)
  PROVE  Moved(new, R \cup {q}, L \cup {q})
<1> DEFINE c == Cardinality(ReceiptsAmong(R))
<1>0. /\ q.what = "receipt" /\ q.place = "store" /\ q.n = n
      /\ q.key = <<l, Cardinality(ReceiptsAmong(R))>>
  BY DEF IsReceipt
<1>1. /\ new \in OrderRow(d) /\ new.materials = ord.materials /\ new.state = ord.state
      /\ new.reverses = ord.reverses /\ DOMAIN new.products = DOMAIN ord.products
      /\ \A k \in DOMAIN ord.products :
            /\ new.products[k].n = ord.products[k].n
            /\ new.products[k].received = IF k = l THEN ord.products[l].received + n
                                          ELSE ord.products[k].received
  <2>1. ord.products[l].received + n \in Nat
    BY OrderParts
  <2> QED
    BY <2>1, ReceivedRow
<1>2. /\ L \subseteq R /\ \A m \in R : RowFits(ord, R, m)
      /\ \A m \in R \ L : m.what = "receipt"
      /\ \A k \in DOMAIN ord.materials :
            ord.materials[k].issued => \E m \in R :
                {p \in R : p.what = "issue" /\ p.key = k} = {m}
      /\ \A m \in L : m.place = "wip" => Counterpart(m) \in L
      /\ \A k \in DOMAIN ord.products : LineMoved(ord, L, k)
  BY DEF Moved
<1>3. /\ IsFiniteSet(ReceiptsAmong(R)) /\ c \in Nat
      /\ R \subseteq MoveRow /\ IsFiniteSet(R)
  BY FS_Subset, FS_CardinalityType DEF ReceiptsAmong, RowSet
<1>4. q \notin R
  BY ReceiptIsNew DEF Apart
<1>5. Cardinality(ReceiptsAmong(R \cup {q})) = c + 1
  <2>1. ReceiptsAmong(R \cup {q}) = ReceiptsAmong(R) \cup {q} /\ q \notin ReceiptsAmong(R)
    BY <1>0, <1>4 DEF ReceiptsAmong
  <2> QED
    BY <1>3, <2>1, FS_AddElement
<1>6. ASSUME NEW m \in R \cup {q} PROVE RowFits(new, R \cup {q}, m)
  <2>1. CASE m \in R
    <3>1. m.what = "receipt" => m.key[2] < c + 1
      <4>1. m.what = "receipt" => m.key \in (DOMAIN ord.products) \X Nat /\ m.key[2] < c
        BY <1>2, <2>1 DEF RowFits
      <4> QED
        BY <1>3, <4>1
    <3> HIDE DEF c
    <3> QED
      BY <1>1, <1>2, <1>5, <2>1, <3>1 DEF RowFits
  <2>2. CASE m = q
    <3>1. q.key \in (DOMAIN ord.products) \X Nat /\ q.key[2] < c + 1
      BY <1>0, <1>3
    <3> HIDE DEF c
    <3> QED
      BY <1>0, <1>1, <1>5, <2>2, <3>1 DEF RowFits
  <2> QED
    BY <2>1, <2>2
<1>7. ASSUME NEW k \in DOMAIN new.materials, new.materials[k].issued
      PROVE  \E m \in R \cup {q} : {p \in R \cup {q} : p.what = "issue" /\ p.key = k} = {m}
  <2>1. {p \in R \cup {q} : p.what = "issue" /\ p.key = k} = {p \in R : p.what = "issue" /\ p.key = k}
    BY <1>0
  <2>2. PICK m \in R : {p \in R : p.what = "issue" /\ p.key = k} = {m}
    BY <1>1, <1>2, <1>7
  <2> QED
    BY <2>1, <2>2
<1>8. ASSUME NEW k \in DOMAIN new.products PROVE LineMoved(new, L \cup {q}, k)
  <2>1. IsFiniteSet(L) /\ L \subseteq MoveRow /\ L \cap {q} = {} /\ IsFiniteSet({q}) /\ {q} \subseteq MoveRow
    <3>1. IsFiniteSet(L) /\ L \subseteq MoveRow
      BY <1>2, <1>3, FS_Subset
    <3>2. L \cap {q} = {}
      BY <1>2, <1>4
    <3> QED
      BY <3>1, <3>2, FS_Singleton
  <2>2. NetIn(L \cup {q}, "receipt", ReceiptsOf(k))
          = NetIn(L, "receipt", ReceiptsOf(k)) + NetIn({q}, "receipt", ReceiptsOf(k))
    BY <2>1, NetInBoth
  <2>3. NetIn(L, "receipt", ReceiptsOf(k)) = ord.products[k].received
    <3>1. LineMoved(ord, L, k)
      BY <1>1, <1>2
    <3> QED
      BY <3>1 DEF LineMoved
  <2>4. q.key \in ReceiptsOf(k) <=> k = l
    BY <1>0, <1>3, ProductionAssumption DEF ReceiptsOf
  <2>5. NetIn({q}, "receipt", ReceiptsOf(k)) = IF k = l THEN n ELSE 0
    BY <1>0, <2>4, NetInOne
  <2>6. ord.products[k].received \in Nat
    BY <1>1, OrderParts
  <2> QED
    BY <1>1, <2>2, <2>3, <2>5, <2>6 DEF LineMoved
<1>9. /\ L \cup {q} \subseteq R \cup {q} /\ c + 1 =< MaxReceipts
      /\ \A m \in (R \cup {q}) \ (L \cup {q}) : m.what = "receipt"
      /\ \A m \in L \cup {q} : m.place = "wip" => Counterpart(m) \in L \cup {q}
      /\ new.state # "done"
  BY <1>0, <1>1, <1>2, <1>3, ProductionAssumption
<1> QED
  <2> HIDE DEF c
  <2> QED
    BY ONLY <1>4, <1>5, <1>6, <1>7, <1>8, <1>9 DEF Moved

(* What is left of x when n of it is taken back.                            *)
LessOf(x, n) == IF x > n THEN x - n ELSE 0

(* Taking receipt q back.                                                   *)
LEMMA MovedUndone ==
  ASSUME NEW d \in Draft, NEW ord \in OrderRow(d), NEW l,
         ord.state # "done",
         NEW R, RowSet(R), NEW L, Moved(ord, R, L),
         NEW q \in L, q.what = "receipt", l = q.key[1],
         NEW new, new = ReceivedAs(ord, l, LessOf(ord.products[l].received, q.n))
  PROVE  l \in DOMAIN ord.products /\ new \in OrderRow(d) /\ Moved(new, R, L \ {q})
<1> DEFINE s == LessOf(ord.products[l].received, q.n)
<1>1. /\ L \subseteq R /\ Cardinality(ReceiptsAmong(R)) =< MaxReceipts
      /\ \A m \in R : RowFits(ord, R, m)
      /\ \A m \in R \ L : m.what = "receipt"
      /\ \A k \in DOMAIN ord.materials :
            ord.materials[k].issued => \E m \in R :
                {p \in R : p.what = "issue" /\ p.key = k} = {m}
      /\ \A m \in L : m.place = "wip" => Counterpart(m) \in L
      /\ \A k \in DOMAIN ord.products : LineMoved(ord, L, k)
      /\ R \subseteq MoveRow /\ IsFiniteSet(R)
  BY DEF Moved, RowSet
<1>2. /\ q \in R /\ q \in MoveRow /\ q.place = "store" /\ q.n \in Nat
      /\ q.key \in (DOMAIN ord.products) \X Nat
      /\ q.key[2] < Cardinality(ReceiptsAmong(R)) /\ l \in DOMAIN ord.products
  BY <1>1 DEF RowFits
<1>3. ord.products[l].received \in Nat /\ s \in Nat
  BY <1>2, OrderParts DEF LessOf
<1>4. /\ new \in OrderRow(d) /\ new.materials = ord.materials /\ new.state = ord.state
      /\ new.reverses = ord.reverses /\ DOMAIN new.products = DOMAIN ord.products
      /\ \A k \in DOMAIN ord.products :
            /\ new.products[k].n = ord.products[k].n
            /\ new.products[k].received = IF k = l THEN s ELSE ord.products[k].received
  <2>1. new = ReceivedAs(ord, l, s) /\ l \in DOMAIN ord.products
    BY <1>2
  <2> HIDE DEF s
  <2> QED
    BY ONLY <2>1, <1>3, d \in Draft, ord \in OrderRow(d), ReceivedRow
<1> HIDE DEF s
<1>5. \A m \in R : RowFits(new, R, m)
  BY ZenonT(40), <1>1, <1>4 DEF RowFits
<1>6. \A m \in L \ {q} : m.place = "wip" => Counterpart(m) \in L \ {q}
  <2> SUFFICES ASSUME NEW m \in L \ {q}, m.place = "wip" PROVE Counterpart(m) # q
    BY <1>1
  <2>1. Counterpart(m).what # "receipt"
    BY DEF Counterpart, Move
  <2> QED
    BY <2>1
<1>7. ASSUME NEW k \in DOMAIN new.products PROVE LineMoved(new, L \ {q}, k)
  <2>1. /\ IsFiniteSet(L \ {q}) /\ L \ {q} \subseteq MoveRow /\ (L \ {q}) \cap {q} = {}
        /\ IsFiniteSet({q}) /\ {q} \subseteq MoveRow /\ (L \ {q}) \cup {q} = L
    BY <1>1, <1>2, FS_Subset, FS_Singleton
  <2>2. NetIn(L, "receipt", ReceiptsOf(k))
          = NetIn(L \ {q}, "receipt", ReceiptsOf(k)) + NetIn({q}, "receipt", ReceiptsOf(k))
    BY <2>1, NetInBoth
  <2>3. NetIn(L, "receipt", ReceiptsOf(k)) = ord.products[k].received
    <3>1. LineMoved(ord, L, k)
      BY <1>1, <1>4
    <3> QED
      BY <3>1 DEF LineMoved
  <2>4. q.key \in ReceiptsOf(k) <=> k = l
    <3>1. Cardinality(ReceiptsAmong(R)) \in Nat
      BY <1>1, FS_Subset, FS_CardinalityType DEF ReceiptsAmong
    <3> QED
      BY <1>1, <1>2, <3>1, ProductionAssumption DEF ReceiptsOf
  <2>5. NetIn({q}, "receipt", ReceiptsOf(k)) = IF k = l THEN q.n ELSE 0
    BY <1>2, <2>4, NetInOne
  <2>6. ord.products[k].received \in Nat
    BY <1>4, OrderParts
  <2>7. NetIn(L \ {q}, "receipt", ReceiptsOf(k)) \in Int /\ NetIn(L \ {q}, "receipt", ReceiptsOf(k)) >= 0
    <3>1. \A m \in L \ {q} : m.what = "receipt" => m.n >= 0
      BY <1>1 DEF RowFits
    <3> QED
      BY <2>1, <3>1, NetInParts
  <2>8. NetIn(L \ {q}, "receipt", ReceiptsOf(k)) = new.products[k].received
    <3>1. CASE k = l
      <4>1. new.products[k].received = s
        BY <1>2, <1>4, <3>1
      <4>2. PICK x, y : x = NetIn(L \ {q}, "receipt", ReceiptsOf(k)) /\ y = ord.products[l].received
        OBVIOUS
      <4>3. y = x + q.n /\ x \in Int /\ x >= 0 /\ q.n \in Nat
        BY <1>2, <2>2, <2>3, <2>5, <2>7, <3>1, <4>2
      <4>4. s = IF y > q.n THEN y - q.n ELSE 0
        BY <4>2 DEF s, LessOf
      <4> QED
        BY ONLY <4>1, <4>2, <4>3, <4>4
    <3>2. CASE k # l
      <4>1. new.products[k].received = ord.products[k].received
        BY <1>4, <3>2
      <4> QED
        BY <2>2, <2>3, <2>5, <2>7, <3>2, <4>1
    <3> QED
      BY <3>1, <3>2
  <2> QED
    BY <1>4, <2>8 DEF LineMoved
<1>8. L \ {q} \subseteq R /\ \A m \in R \ (L \ {q}) : m.what = "receipt"
  BY <1>1
<1>9. \A k \in DOMAIN new.materials : new.materials[k].issued =>
         \E m \in R : {p \in R : p.what = "issue" /\ p.key = k} = {m}
  <2> SUFFICES ASSUME NEW k \in DOMAIN new.materials, new.materials[k].issued
               PROVE  \E m \in R : {p \in R : p.what = "issue" /\ p.key = k} = {m}
    OBVIOUS
  <2>1. k \in DOMAIN ord.materials /\ ord.materials[k].issued
    BY <1>4
  <2> QED
    BY <1>1, <2>1
<1>10. new.state # "done"
  BY <1>4
<1>11. Moved(new, R, L \ {q})
  BY ONLY <1>1, <1>5, <1>6, <1>7, <1>8, <1>9, <1>10 DEF Moved
<1> QED
  BY <1>2, <1>4, <1>11

(* Another state, and lines that are new.                                   *)
StateAs(ord, s) == [ord EXCEPT !.state = s]

LEMMA StateRow ==
  ASSUME NEW d \in Draft, NEW ord \in OrderRow(d),
         NEW s \in {"draft", "confirmed", "in_progress", "done", "reversed"},
         NEW new, new = StateAs(ord, s)
  PROVE  /\ new \in OrderRow(d) /\ new.materials = ord.materials /\ new.products = ord.products
         /\ new.reverses = ord.reverses /\ new.state = s
BY DEF OrderRow, StateAs

LEMMA MovedState ==
  ASSUME NEW d \in Draft, NEW ord \in OrderRow(d), ord.state # "done",
         NEW s \in {"draft", "confirmed", "in_progress"},
         NEW new, new = StateAs(ord, s), NEW R, NEW L, Moved(ord, R, L)
  PROVE  Moved(new, R, L)
<1>1. new.materials = ord.materials /\ new.products = ord.products /\ new.state # "done"
  <2>1. s \in {"draft", "confirmed", "in_progress", "done", "reversed"}
    OBVIOUS
  <2> QED
    BY <2>1, StateRow
<1>2. \A m \in R : RowFits(new, R, m)
  BY <1>1 DEF Moved, RowFits
<1>3. \A l \in DOMAIN new.products : LineMoved(new, L, l)
  BY <1>1 DEF Moved, LineMoved
<1> QED
  BY <1>1, <1>2, <1>3 DEF Moved

LEMMA FreshLines ==
  ASSUME NEW d \in Draft, NEW new, new = Lines(d)
  PROVE  /\ new \in OrderRow(d) /\ new.state = "draft" /\ new.reverses = Null
         /\ Moved(new, {}, {})
<1>1. PICK P, M :
         /\ P = [l \in DOMAIN d.products |->
                   [item |-> d.products[l].item, n |-> d.products[l].n, received |-> 0]]
         /\ M = [k \in DOMAIN d.materials |->
                   [item |-> d.materials[k].item, n |-> d.materials[k].n,
                    stage |-> d.materials[k].stage, issued |-> FALSE]]
  OBVIOUS
<1>2. new = [state |-> "draft", reverses |-> Null, products |-> P, materials |-> M]
  BY <1>1 DEF Lines
<1>3. /\ \A l \in DOMAIN d.products : d.products[l] \in [item : Item, n : Nat]
      /\ \A k \in DOMAIN d.materials : d.materials[k] \in [item : Item, n : Nat, stage : Stage]
  BY ProductionAssumption
<1>4. /\ P \in [DOMAIN d.products -> ProductRow] /\ \A l \in DOMAIN P : P[l].received = 0
      /\ M \in [DOMAIN d.materials -> MaterialRow] /\ \A k \in DOMAIN M : ~ M[k].issued
  BY <1>1, <1>3 DEF ProductRow, MaterialRow
<1>5. new \in OrderRow(d) /\ new.products = P /\ new.materials = M /\ new.state = "draft"
  BY <1>2, <1>4 DEF OrderRow
<1>6. ReceiptsAmong({}) = {} /\ Cardinality({}) = 0 /\ IsFiniteSet({}) /\ {} \subseteq MoveRow
  BY FS_EmptySet DEF ReceiptsAmong
<1>7. \A l \in DOMAIN P : LineMoved(new, {}, l)
  <2>1. \A w, K : NetIn({}, w, K) = 0
    BY <1>6, NetInParts
  <2> QED
    BY <1>4, <1>5, <2>1 DEF LineMoved
<1>8. Moved(new, {}, {})
  <2>1. \A k \in DOMAIN new.materials : ~ new.materials[k].issued
    BY <1>4, <1>5
  <2>2. \A l \in DOMAIN new.products : LineMoved(new, {}, l)
    BY <1>5, <1>7
  <2>3. Cardinality(ReceiptsAmong({})) =< MaxReceipts
    <3>1. MaxReceipts \in Nat
      BY ProductionAssumption
    <3>2. ReceiptsAmong({}) = {} /\ Cardinality({}) = 0
      BY <1>6
    <3>3. Cardinality(ReceiptsAmong({})) = 0
      BY ONLY <3>2
    <3> QED
      BY <3>1, <3>3
  <2>4. new.state # "done"
    BY <1>5
  <2> QED
    BY ONLY <2>1, <2>2, <2>3, <2>4 DEF Moved
<1> QED
  BY <1>2, <1>5, <1>8

(* Executing an order issues what is pending and posts what it made.        *)
LEMMA MovedExecuted ==
  ASSUME NEW d \in Draft, NEW ord \in OrderRow(d), NEW o \in Order, NEW named,
         NamedWell(ord, named), ord.state \in {"draft", "confirmed", "in_progress"},
         NEW R, RowSet(R), NEW L, Moved(ord, R, L),
         NEW K, K = Pending(ord, Stage),
         NEW X, X = IssueRows(o, ord, K), NEW O, O = OutputRows(o, ord, named),
         NEW new, new = Closed(Issued(ord, K), named)
  PROVE  /\ new \in OrderRow(d) /\ new.state = "done" /\ new.reverses = ord.reverses
         /\ RowSet(X) /\ RowSet(O) /\ OfOrder(X \cup O, o)
         /\ Apart(R, X \cup O) /\ Apart(X, O)
         /\ Moved(new, R \cup (X \cup O), L \cup (X \cup O))
<1>1. K \in SUBSET DOMAIN ord.materials /\ \A k \in K : ~ ord.materials[k].issued
  BY DEF Pending
<1>2. \A k \in DOMAIN ord.materials : k \in K \/ ord.materials[k].issued
  BY OrderParts DEF Pending
<1>3. PICK s : s = ord.state
  OBVIOUS
<1>4. PICK mid : mid = IssuedAs(ord, K, s)
  OBVIOUS
<1>5. /\ mid \in OrderRow(d) /\ mid.products = ord.products /\ mid.state = s
      /\ mid.reverses = ord.reverses /\ DOMAIN mid.materials = DOMAIN ord.materials
      /\ \A k \in DOMAIN ord.materials :
            /\ mid.materials[k].n = ord.materials[k].n
            /\ mid.materials[k].issued = (k \in K \/ ord.materials[k].issued)
  <2>1. s \in {"draft", "confirmed", "in_progress", "done", "reversed"}
    BY <1>3
  <2> QED
    BY <1>1, <1>4, <2>1, IssuedRow
<1>6. Issued(ord, K) = mid
  <2>1. ord = [state |-> ord.state, reverses |-> ord.reverses, products |-> ord.products,
               materials |-> ord.materials]
    BY DEF OrderRow
  <2>2. PICK M : Issued(ord, K) = [ord EXCEPT !.materials = M]
    BY DEF Issued
  <2>3. mid = [[ord EXCEPT !.materials = M] EXCEPT !.state = ord.state]
    BY <1>3, <1>4, <2>2 DEF IssuedAs
  <2>4. mid = [ord EXCEPT !.materials = M]
    BY ONLY <2>1, <2>3
  <2> QED
    BY <2>2, <2>4
<1>7. Apart(R, X) /\ Moved(mid, R \cup X, L \cup X)
  <2>1. s \in {"draft", "confirmed", "in_progress"} /\ ord.state # "done"
    BY <1>3
  <2>2. Unissued(ord, K)
    BY <1>1 DEF Unissued
  <2> QED
    BY <1>4, <2>1, <2>2, MovedIssue
<1>8. /\ X \subseteq MoveRow /\ IsFiniteSet(X)
      /\ \A m \in X : m.order = o /\ m.what \in {"issue", "to_wip"}
  BY <1>1, IssueParts
<1>9. O = OutputRows(o, mid, named)
  BY <1>5 DEF OutputRows, Made
<1>10. /\ O \subseteq MoveRow /\ IsFiniteSet(O) /\ \A m \in O : m.order = o /\ m.what = "output"
  BY OutputParts DEF NamedWell
<1>11. /\ \A l \in DOMAIN named : named[l] \in Nat /\ named[l] >= mid.products[l].received
       /\ mid.state # "done" /\ \A k \in DOMAIN mid.materials : mid.materials[k].issued
  BY <1>2, <1>3, <1>5 DEF NamedWell
<1>12. RowSet(R \cup X)
  BY <1>8, FS_Union DEF RowSet
<1>13. new = Closed(mid, named)
  BY <1>6
<1>14. Apart(R \cup X, O) /\ Moved(new, (R \cup X) \cup O, (L \cup X) \cup O)
  <2>1. NamedWell(mid, named) /\ AllIssued(mid) /\ mid \in OrderRow(d) /\ Moved(mid, R \cup X, L \cup X)
    BY <1>5, <1>7, <1>11 DEF NamedWell, AllIssued
  <2> QED
    BY <1>9, <1>11, <1>12, <1>13, <2>1, MovedClosed
<1>15. new \in OrderRow(d) /\ new.state = "done" /\ new.reverses = ord.reverses
  <2>1. \A l \in DOMAIN mid.products : Made(mid, l, named) \in Nat
    BY <1>5, <1>9, <1>11, OutputParts
  <2> QED
    BY <1>5, <1>13, <2>1, ClosedRow
<1>16. /\ RowSet(X) /\ RowSet(O) /\ OfOrder(X \cup O, o)
       /\ Apart(R, X \cup O) /\ Apart(X, O)
  BY <1>7, <1>8, <1>10, <1>14 DEF RowSet, Apart, OfOrder
<1>17. (R \cup X) \cup O = R \cup (X \cup O) /\ (L \cup X) \cup O = L \cup (X \cup O)
  OBVIOUS
<1> QED
  BY <1>14, <1>15, <1>16, <1>17

(* Order o becomes new, whose rows are R, those of Q reversed.              *)
OrderWell(d, new, R, Q) ==
    IF new = Null THEN R = {}
    ELSE /\ new \in OrderRow(d) /\ Stands(new) /\ Moved(new, R, R \ Q)
         /\ new.state \in {"draft", "confirmed"} => R = {}

BecomesOf(o, d, new, R, Q) ==
    /\ order' = [order EXCEPT ![o] = new]
    /\ moves' = (moves \ MovesOf(o)) \cup R /\ mirrored' = (mirrored \ MovesOf(o)) \cup Q
    /\ sold' = sold
    /\ RowSet(R) /\ Q \subseteq R /\ \A m \in R : m.order = o
    /\ OrderWell(d, new, R, Q)

(* What o is does not matter to the others.                                 *)
LEMMA Unaffected ==
  ASSUME NEW p \in Order, OrderHeld(p), order'[p] = order[p], MovesOf(p)' = MovesOf(p),
         MovesOf(p) \cap mirrored' = MovesOf(p) \cap mirrored
  PROVE  OrderHeld(p)'
<1>1. MovesOf(p) \ mirrored' = MovesOf(p) \ mirrored
  OBVIOUS
<1>2. PICK R, L, q : R = MovesOf(p) /\ L = R \ mirrored /\ q = order[p]
  OBVIOUS
<1>3. /\ q = Null \/ q.reverses # Null => R = {}
      /\ Stands(q) => Moved(q, R, L)
      /\ q # Null /\ q.reverses = Null /\ q.state \in {"draft", "confirmed"} => R = {}
      /\ q # Null /\ q.reverses # Null => q.state = "done"
      /\ q # Null /\ q.state = "reversed" => L = {}
  BY <1>2 DEF OrderHeld
<1>4. MovesOf(p)' = R /\ order'[p] = q /\ R \ mirrored' = L
  BY <1>1, <1>2
<1>5. L = {} => R \subseteq mirrored'
  BY <1>4
<1> QED
  BY <1>3, <1>4, <1>5 DEF OrderHeld

LEMMA OrderStep ==
  ASSUME ProductionInv, NEW o \in Order, NEW d \in Draft, NEW new, NEW R, NEW Q,
         BecomesOf(o, d, new, R, Q)
  PROVE  ProductionInv'
<1>1. /\ order = [p \in Order |-> order[p]]
      /\ \A p \in Order : order[p] # Null => \E e \in Draft : order[p] \in OrderRow(e)
      /\ moves \subseteq MoveRow /\ IsFiniteSet(moves) /\ mirrored \subseteq moves
      /\ sold \in [Item -> Nat] /\ \A p \in Order : OrderHeld(p)
  BY DEF ProductionInv, ProductionTypeOK
<1>2. /\ order' = [order EXCEPT ![o] = new]
      /\ moves' = (moves \ MovesOf(o)) \cup R /\ mirrored' = (mirrored \ MovesOf(o)) \cup Q
      /\ sold' = sold
      /\ R \subseteq MoveRow /\ IsFiniteSet(R) /\ Q \subseteq R /\ \A m \in R : m.order = o
      /\ OrderWell(d, new, R, Q)
  BY DEF BecomesOf, RowSet
<1>3. /\ order' = [p \in Order |-> order'[p]]
      /\ order'[o] = new /\ \A p \in Order : p # o => order'[p] = order[p]
  <2> HIDE DEF OrderWell
  <2>1. order' = [p \in Order |-> IF p = o THEN new ELSE order[p]]
    BY <1>1, <1>2
  <2> QED
    BY <2>1
<1>4. moves' \subseteq MoveRow /\ IsFiniteSet(moves') /\ mirrored' \subseteq moves'
  <2>1. IsFiniteSet(moves \ MovesOf(o))
    BY <1>1, FS_Subset
  <2>2. IsFiniteSet((moves \ MovesOf(o)) \cup R)
    BY ONLY <1>2, <2>1, FS_Union
  <2> QED
    BY <1>1, <1>2, <2>2 DEF MovesOf
<1>5. ProductionTypeOK'
  <2>1. ASSUME NEW p \in Order, order'[p] # Null PROVE \E e \in Draft : order'[p] \in OrderRow(e)
    BY <1>1, <1>2, <1>3, <2>1 DEF OrderWell
  <2>2. sold' \in [Item -> Nat]
    BY <1>1, <1>2
  <2> QED
    BY <1>3, <1>4, <2>1, <2>2 DEF ProductionTypeOK
<1>6. MovesOf(o)' = R /\ R \ mirrored' = R \ Q
  <2>1. /\ moves' = (moves \ MovesOf(o)) \cup R /\ mirrored' = (mirrored \ MovesOf(o)) \cup Q
        /\ Q \subseteq R /\ \A m \in R : m.order = o
    BY <1>2
  <2>2. mirrored \subseteq moves
    BY <1>1
  <2>3. MovesOf(o)' = R
    BY <2>1 DEF MovesOf
  <2>4. \A m \in R : m \in mirrored' <=> m \in Q
    BY <2>1, <2>2 DEF MovesOf
  <2> QED
    BY <2>3, <2>4
<1>7. OrderHeld(o)'
  <2>1. CASE new = Null
    <3>1. R = {} /\ ~ Stands(new)
      BY <1>2, <2>1 DEF OrderWell, Stands
    <3> QED
      BY <1>3, <1>6, <2>1, <3>1 DEF OrderHeld
  <2>2. CASE new # Null
    <3>1. /\ new.reverses = Null /\ new.state # "reversed" /\ Moved(new, R, R \ Q)
          /\ new.state \in {"draft", "confirmed"} => R = {}
      BY <1>2, <2>2 DEF OrderWell, Stands
    <3> QED
      BY <1>3, <1>6, <2>2, <3>1 DEF OrderHeld
  <2> QED
    BY <2>1, <2>2
<1>8. ASSUME NEW p \in Order, p # o PROVE OrderHeld(p)'
  <2>1. MovesOf(p)' = MovesOf(p) /\ MovesOf(p) \cap mirrored' = MovesOf(p) \cap mirrored
    BY <1>2, <1>8 DEF MovesOf
  <2> QED
    BY <1>1, <1>3, <1>8, <2>1, Unaffected
<1> QED
  BY <1>5, <1>7, <1>8 DEF ProductionInv

(* An order that stands, and one that has not been closed.                  *)
LEMMA Standing ==
  ASSUME ProductionInv, NEW o \in Order
  PROVE  /\ RowSet(MovesOf(o))
         /\ order[o] # Null => \E d \in Draft : order[o] \in OrderRow(d)
         /\ Stands(order[o]) => Moved(order[o], MovesOf(o), MovesOf(o) \ mirrored)
         /\ In(o, {"draft", "confirmed", "in_progress"}) =>
               Stands(order[o]) /\ order[o].state # "done"
         /\ order[o] = Null \/ In(o, {"draft", "confirmed"}) => MovesOf(o) = {}
<1>1. moves \subseteq MoveRow /\ IsFiniteSet(moves) /\ OrderHeld(o)
  BY DEF ProductionInv, ProductionTypeOK
<1>2. RowSet(MovesOf(o))
  BY <1>1, FS_Subset DEF MovesOf, RowSet
<1>3. order[o] # Null => \E d \in Draft : order[o] \in OrderRow(d)
  BY DEF ProductionInv, ProductionTypeOK
<1>4. order[o] # Null /\ order[o].reverses # Null => order[o].state = "done"
  BY <1>1 DEF OrderHeld
<1> QED
  BY <1>1, <1>2, <1>3, <1>4 DEF OrderHeld, In, Stands

LEMMA Grows ==
  ASSUME ProductionInv, NEW o \in Order, NEW d \in Draft, NEW new \in OrderRow(d), NEW X,
         Stands(new), RowSet(X), \A m \in X : m.order = o, Apart(MovesOf(o), X),
         Moved(new, MovesOf(o) \cup X, (MovesOf(o) \ mirrored) \cup X),
         new.state \in {"draft", "confirmed"} => MovesOf(o) = {} /\ X = {},
         order' = [order EXCEPT ![o] = new], moves' = moves \cup X,
         UNCHANGED <<mirrored, sold>>
  PROVE  ProductionInv'
<1> DEFINE R == MovesOf(o) \cup X
           Q == MovesOf(o) \cap mirrored
<1>1. R \ Q = (MovesOf(o) \ mirrored) \cup X
  BY DEF Apart
<1>2. RowSet(R) /\ Q \subseteq R /\ \A m \in R : m.order = o
  <2>1. RowSet(MovesOf(o))
    BY Standing
  <2>2. IsFiniteSet(MovesOf(o)) /\ IsFiniteSet(X) /\ MovesOf(o) \subseteq MoveRow /\ X \subseteq MoveRow
    BY <2>1 DEF RowSet
  <2>3. IsFiniteSet(R)
    BY ONLY <2>2, FS_Union
  <2> QED
    BY <2>2, <2>3 DEF RowSet, MovesOf
<1>3. moves' = (moves \ MovesOf(o)) \cup R
  BY DEF MovesOf
<1>4. mirrored' = (mirrored \ MovesOf(o)) \cup Q
  OBVIOUS
<1>5. OrderWell(d, new, R, Q)
  <2>1. new # Null
    BY DEF Stands
  <2>2. Moved(new, R, R \ Q)
    BY <1>1
  <2>3. new.state \in {"draft", "confirmed"} => R = {}
    OBVIOUS
  <2> QED
    BY <2>1, <2>2, <2>3 DEF OrderWell
<1> HIDE DEF R, Q
<1>6. BecomesOf(o, d, new, R, Q)
  BY <1>2, <1>3, <1>4, <1>5 DEF BecomesOf
<1> QED
  BY <1>6, OrderStep

(* An order entered anew, deleted or confirmed moves nothing.               *)
LEMMA CreateHeld ==
  ASSUME ProductionInv, NEW o \in Order, NEW d \in Draft, Create(o, d) \/ Update(o, d)
  PROVE  ProductionInv'
<1>1. MovesOf(o) = {}
  BY Standing DEF Create, Update, In
<1>2. PICK new : new = Lines(d)
  OBVIOUS
<1>3. /\ new \in OrderRow(d) /\ Stands(new) /\ new.state = "draft" /\ Moved(new, {}, {})
  BY <1>2, FreshLines, OrderParts DEF Stands
<1>4. /\ order' = [order EXCEPT ![o] = new] /\ moves' = moves \cup {}
      /\ UNCHANGED <<mirrored, sold>>
  BY <1>2 DEF Create, Update
<1>5. /\ RowSet({}) /\ \A m \in {} : m.order = o
  BY FS_EmptySet DEF RowSet
<1>6. Apart(MovesOf(o), {}) /\ Moved(new, MovesOf(o) \cup {}, (MovesOf(o) \ mirrored) \cup {})
  BY <1>1, <1>3 DEF Apart
<1> QED
  BY <1>1, <1>3, <1>4, <1>5, <1>6, Grows

LEMMA DeleteHeld ==
  ASSUME ProductionInv, NEW o \in Order, Delete(o)
  PROVE  ProductionInv'
<1>1. MovesOf(o) = {} /\ order[o] # Null
  BY Standing DEF Delete, In
<1>2. PICK d \in Draft : order[o] \in OrderRow(d)
  BY <1>1, Standing
<1>3. /\ order' = [order EXCEPT ![o] = Null]
      /\ moves' = (moves \ MovesOf(o)) \cup {} /\ mirrored' = (mirrored \ MovesOf(o)) \cup {}
      /\ sold' = sold
  BY <1>1 DEF Delete
<1>4. RowSet({})
  BY FS_EmptySet DEF RowSet
<1>5. BecomesOf(o, d, Null, {}, {})
  BY <1>3, <1>4 DEF BecomesOf, OrderWell
<1> QED
  BY <1>5, OrderStep

LEMMA ConfirmHeld ==
  ASSUME ProductionInv, NEW o \in Order, Confirm(o)
  PROVE  ProductionInv'
<1>1. /\ In(o, {"draft"}) /\ order' = [order EXCEPT ![o] = StateAs(order[o], "confirmed")]
      /\ moves' = moves \cup {} /\ UNCHANGED <<mirrored, sold>>
  <2>1. order = [p \in Order |-> order[p]]
    BY DEF ProductionInv, ProductionTypeOK
  <2> QED
    BY <2>1 DEF Confirm, StateAs
<1>2. MovesOf(o) = {} /\ Stands(order[o]) /\ order[o].state # "done"
      /\ Moved(order[o], MovesOf(o), MovesOf(o) \ mirrored)
  BY <1>1, Standing DEF In
<1>3. PICK d \in Draft : order[o] \in OrderRow(d)
  BY <1>2, Standing DEF Stands
<1>4. PICK new : new = StateAs(order[o], "confirmed")
  OBVIOUS
<1>5. /\ new \in OrderRow(d) /\ new.reverses = Null /\ new.state = "confirmed"
  BY <1>2, <1>3, <1>4, StateRow DEF Stands
<1>6. Moved(new, MovesOf(o), MovesOf(o) \ mirrored)
  BY <1>2, <1>3, <1>4, MovedState
<1>7. Stands(new)
  BY <1>5, OrderParts DEF Stands
<1>8. RowSet({}) /\ Apart(MovesOf(o), {}) /\ \A m \in {} : m.order = o
  BY FS_EmptySet DEF RowSet, Apart
<1>9. Moved(new, MovesOf(o) \cup {}, (MovesOf(o) \ mirrored) \cup {})
  <2>1. MovesOf(o) \cup {} = MovesOf(o) /\ (MovesOf(o) \ mirrored) \cup {} = MovesOf(o) \ mirrored
    OBVIOUS
  <2> QED
    BY <1>6, <2>1
<1> QED
  BY <1>1, <1>2, <1>4, <1>5, <1>7, <1>8, <1>9, Grows

(* A stage whose materials are issued.                                      *)
LEMMA StageHeld ==
  ASSUME ProductionInv, NEW o \in Order, Start(o) \/ IssueQuality(o)
  PROVE  /\ ProductionInv'
         /\ \E X, K : \E d \in Draft :
               /\ order[o] \in OrderRow(d) /\ K \subseteq DOMAIN order[o].materials
               /\ X = IssueRows(o, order[o], K) /\ Apart(MovesOf(o), X)
               /\ moves' = moves \cup X /\ UNCHANGED <<mirrored, sold>>
               /\ CanIssue(order[o], K, Live, FALSE)
<1>1. PICK stage, K, X :
         /\ stage \in Stage
         /\ K = Pending(order[o], {stage}) /\ CanIssue(order[o], K, Live, FALSE)
         /\ X = IssueRows(o, order[o], K)
         /\ order' = [order EXCEPT ![o] = IssuedAs(order[o], K, "in_progress")]
         /\ moves' = moves \cup X /\ UNCHANGED <<mirrored, sold>>
  <2>1. order = [p \in Order |-> order[p]]
    BY DEF ProductionInv, ProductionTypeOK
  <2>2. PICK stage \in Stage : IssueStage(o, stage, "in_progress")
    BY DEF Start, IssueQuality, Stage
  <2>3. PICK K : K = Pending(order[o], {stage})
    OBVIOUS
  <2>4. /\ CanIssue(order[o], K, Live, FALSE)
        /\ order' = [order EXCEPT ![o] = [Issued(@, K) EXCEPT !.state = "in_progress"]]
        /\ moves' = moves \cup IssueRows(o, order[o], K) /\ UNCHANGED <<mirrored, sold>>
    BY <2>2, <2>3 DEF IssueStage
  <2>5. order' = [order EXCEPT ![o] = IssuedAs(order[o], K, "in_progress")]
    BY <2>1, <2>4 DEF IssuedAs
  <2> QED
    BY <2>3, <2>4, <2>5
<1>2. In(o, {"draft", "confirmed", "in_progress"})
  BY DEF Start, IssueQuality, In
<1>3. /\ Stands(order[o]) /\ order[o].state # "done" /\ RowSet(MovesOf(o))
      /\ Moved(order[o], MovesOf(o), MovesOf(o) \ mirrored)
  BY <1>2, Standing
<1>4. PICK d \in Draft : order[o] \in OrderRow(d)
  BY <1>3, Standing DEF Stands
<1>5. PICK ord, R, L, new : /\ ord = order[o] /\ R = MovesOf(o) /\ L = R \ mirrored
                            /\ new = IssuedAs(ord, K, "in_progress")
  OBVIOUS
<1>6. Unissued(ord, K) /\ K \in SUBSET DOMAIN ord.materials
  BY <1>1, <1>5 DEF Pending, Unissued
<1>7. /\ ord \in OrderRow(d) /\ ord.state # "done" /\ RowSet(R) /\ Moved(ord, R, L)
      /\ X = IssueRows(o, ord, K) /\ ord.reverses = Null
  BY <1>1, <1>3, <1>4, <1>5 DEF Stands
<1>8. Apart(R, X) /\ Moved(new, R \cup X, L \cup X)
  BY ONLY <1>5, <1>6, <1>7, o \in Order, d \in Draft, MovedIssue
<1>9. new \in OrderRow(d) /\ new.state = "in_progress" /\ new.reverses = Null
  BY <1>5, <1>6, <1>7, IssuedRow
<1>10. RowSet(X) /\ \A m \in X : m.order = o
  BY <1>6, <1>7, IssueParts DEF RowSet
<1>11. Stands(new)
  BY <1>9, OrderParts DEF Stands
<1>12. /\ Apart(MovesOf(o), X) /\ Moved(new, MovesOf(o) \cup X, (MovesOf(o) \ mirrored) \cup X)
       /\ order' = [order EXCEPT ![o] = new] /\ moves' = moves \cup X /\ UNCHANGED <<mirrored, sold>>
       /\ new.state \notin {"draft", "confirmed"}
  BY <1>1, <1>5, <1>8, <1>9
<1>13. ProductionInv'
  BY <1>9, <1>10, <1>11, <1>12, Grows
<1> QED
  BY <1>1, <1>4, <1>5, <1>6, <1>12, <1>13

(* What is received of an order.                                            *)
LEMMA ReceiveHeld ==
  ASSUME ProductionInv, NEW o \in Order, NEW l \in ProductLine, NEW n \in Output, Receive(o, l, n)
  PROVE  /\ ProductionInv'
         /\ \E q \in MoveRow : /\ q.order = o /\ q.n \in Nat /\ q \notin MovesOf(o)
                               /\ moves' = moves \cup {q} /\ UNCHANGED <<mirrored, sold>>
<1>1. PICK ord, R, L : ord = order[o] /\ R = MovesOf(o) /\ L = R \ mirrored
  OBVIOUS
<1>2. /\ In(o, {"in_progress"}) /\ l \in DOMAIN ord.products
      /\ Cardinality(ReceiptsAmong(R)) < MaxReceipts
      /\ order' = [order EXCEPT ![o].products[l].received = @ + n]
      /\ moves' = moves \cup {Move(o, "receipt", <<l, Cardinality(ReceiptsAmong(R))>>,
                                   ord.products[l].item, "store", n)}
      /\ UNCHANGED <<mirrored, sold>>
  BY <1>1 DEF Receive, ReceiptsAmong
<1>3. /\ Stands(ord) /\ ord.state = "in_progress" /\ RowSet(R) /\ Moved(ord, R, L)
  BY <1>1, <1>2, Standing DEF In
<1>4. PICK d \in Draft : ord \in OrderRow(d)
  BY <1>1, <1>3, Standing DEF Stands
<1>5. n \in Nat /\ IsFiniteSet(ReceiptsAmong(R)) /\ Cardinality(ReceiptsAmong(R)) \in Nat
  BY <1>3, ProductionAssumption, FS_Subset, FS_CardinalityType DEF RowSet, ReceiptsAmong
<1>6. PICK q : q = Move(o, "receipt", <<l, Cardinality(ReceiptsAmong(R))>>,
                        ord.products[l].item, "store", n)
  OBVIOUS
<1>7. /\ q \in MoveRow /\ q.order = o /\ q.what = "receipt" /\ q.place = "store" /\ q.n = n
      /\ q.key = <<l, Cardinality(ReceiptsAmong(R))>>
  <2>1. ord.products[l].item \in Item
    BY <1>2, <1>4, OrderParts
  <2>2. q = [order |-> o, what |-> "receipt", key |-> <<l, Cardinality(ReceiptsAmong(R))>>,
             item |-> ord.products[l].item, place |-> "store", n |-> n]
    BY <1>6 DEF Move
  <2>3. <<l, Cardinality(ReceiptsAmong(R))>> \in ProductLine \X Nat
    BY <1>5
  <2>4. q \in MoveRow
    BY <1>5, <2>1, <2>2, <2>3 DEF MoveRow, Place
  <2> QED
    BY <2>2, <2>4
<1>8. PICK new : new = ReceivedAs(ord, l, ord.products[l].received + n)
  OBVIOUS
<1>9. q \notin R /\ Moved(new, R \cup {q}, L \cup {q})
  <2>1. ord.state # "done" /\ l \in DOMAIN ord.products /\ Cardinality(ReceiptsAmong(R)) < MaxReceipts
    BY <1>2, <1>3
  <2>2. RowSet(R) /\ Moved(ord, R, L) /\ n \in Nat
    BY <1>3, <1>5
  <2>3. q \in MoveRow /\ IsReceipt(q, l, n, R)
    BY <1>7 DEF IsReceipt
  <2>4. q \notin R
    BY <2>2, <2>3, ReceiptIsNew DEF Apart
  <2> QED
    BY ONLY <1>4, <1>8, <2>1, <2>2, <2>3, <2>4, d \in Draft, MovedReceived
<1>10. new \in OrderRow(d) /\ new.state = "in_progress" /\ new.reverses = Null
  <2>1. ord.products[l].received + n \in Nat
    BY <1>2, <1>4, <1>5, OrderParts
  <2> QED
    BY <1>2, <1>3, <1>4, <1>8, <2>1, ReceivedRow DEF Stands
<1>11. order' = [order EXCEPT ![o] = new]
  <2>1. order = [p \in Order |-> order[p]]
    BY DEF ProductionInv, ProductionTypeOK
  <2>2. ord \in [state : {"draft", "confirmed", "in_progress", "done", "reversed"},
                 reverses : Order \cup {Null},
                 products : [DOMAIN d.products -> ProductRow],
                 materials : [DOMAIN d.materials -> MaterialRow]]
    BY <1>4 DEF OrderRow
  <2> QED
    BY <1>1, <1>2, <1>8, <2>1, <2>2 DEF ReceivedAs
<1>12. Stands(new)
  BY <1>10, OrderParts DEF Stands
<1>13. RowSet({q}) /\ (\A m \in {q} : m.order = o) /\ Apart(MovesOf(o), {q})
  BY <1>1, <1>7, <1>9, FS_Singleton DEF RowSet, Apart
<1>14. /\ Moved(new, MovesOf(o) \cup {q}, (MovesOf(o) \ mirrored) \cup {q})
       /\ moves' = moves \cup {q} /\ UNCHANGED <<mirrored, sold>>
       /\ new.state \notin {"draft", "confirmed"}
  BY <1>1, <1>2, <1>6, <1>9, <1>10
<1>15. ProductionInv'
  BY <1>10, <1>11, <1>12, <1>13, <1>14, Grows
<1> QED
  BY <1>1, <1>2, <1>5, <1>7, <1>9, <1>14, <1>15

(* A receipt that is taken back.                                            *)
LEMMA UndoHeld ==
  ASSUME ProductionInv, NEW o \in Order, NEW m \in moves, UndoReceipt(o, m)
  PROVE  ProductionInv'
<1>1. PICK ord, R, L, l : ord = order[o] /\ R = MovesOf(o) /\ L = R \ mirrored /\ l = m.key[1]
  OBVIOUS
<1>2. /\ In(o, {"in_progress"}) /\ m \in L /\ m.what = "receipt"
      /\ mirrored' = mirrored \cup {m} /\ moves' = moves /\ sold' = sold
      /\ order' = [order EXCEPT ![o].products[l].received = IF @ > m.n THEN @ - m.n ELSE 0]
  BY <1>1 DEF UndoReceipt
<1>3. /\ Stands(ord) /\ ord.state = "in_progress" /\ RowSet(R) /\ Moved(ord, R, L)
  BY <1>1, <1>2, Standing DEF In
<1>4. PICK d \in Draft : ord \in OrderRow(d)
  BY <1>1, <1>3, Standing DEF Stands
<1>5. PICK new : new = ReceivedAs(ord, l, LessOf(ord.products[l].received, m.n))
  OBVIOUS
<1>6. l \in DOMAIN ord.products /\ new \in OrderRow(d) /\ Moved(new, R, L \ {m})
  <2>1. ord.state # "done" /\ m \in L /\ m.what = "receipt" /\ l = m.key[1]
    BY <1>1, <1>2, <1>3
  <2>2. RowSet(R) /\ Moved(ord, R, L)
    BY <1>3
  <2> QED
    BY ONLY <1>4, <1>5, <2>1, <2>2, d \in Draft, MovedUndone
<1>7. new.state = "in_progress" /\ new.reverses = Null
  <2>1. ord \in [state : {"draft", "confirmed", "in_progress", "done", "reversed"},
                 reverses : Order \cup {Null},
                 products : [DOMAIN d.products -> ProductRow],
                 materials : [DOMAIN d.materials -> MaterialRow]]
    BY <1>4 DEF OrderRow
  <2> QED
    BY <1>3, <1>5, <2>1 DEF ReceivedAs, Stands
<1>8. order' = [order EXCEPT ![o] = new]
  <2>1. order = [p \in Order |-> order[p]]
    BY DEF ProductionInv, ProductionTypeOK
  <2>2. ord \in [state : {"draft", "confirmed", "in_progress", "done", "reversed"},
                 reverses : Order \cup {Null},
                 products : [DOMAIN d.products -> ProductRow],
                 materials : [DOMAIN d.materials -> MaterialRow]]
    BY <1>4 DEF OrderRow
  <2> QED
    BY <1>1, <1>2, <1>5, <2>1, <2>2 DEF ReceivedAs, LessOf
<1>9. PICK Q : Q = (R \cap mirrored) \cup {m}
  OBVIOUS
<1>10. Q \subseteq R /\ R \ Q = L \ {m} /\ m \in R
  BY <1>1, <1>2, <1>9
<1>11. /\ moves' = (moves \ MovesOf(o)) \cup R /\ mirrored' = (mirrored \ MovesOf(o)) \cup Q
  BY <1>1, <1>2, <1>9 DEF MovesOf
<1>12. OrderWell(d, new, R, Q)
  <2>1. new # Null
    BY <1>6, OrderParts
  <2> QED
    BY <1>6, <1>7, <1>10, <2>1 DEF OrderWell, Stands
<1>13. BecomesOf(o, d, new, R, Q)
  <2>1. \A q \in R : q.order = o
    BY <1>1 DEF MovesOf
  <2> QED
    BY <1>2, <1>3, <1>8, <1>10, <1>11, <1>12, <2>1 DEF BecomesOf
<1> QED
  BY <1>13, OrderStep

(* An order executed: from its own lines, or from others entered anew.      *)
LEMMA ExecuteHeld ==
  ASSUME ProductionInv, NEW o \in Order, NEW named, order[o] # Null, named \in Named(o),
         Execute(o, named)
  PROVE  /\ ProductionInv'
         /\ \E K, X, O : \E d \in Draft :
               /\ order[o] \in OrderRow(d) /\ K \subseteq DOMAIN order[o].materials
               /\ X = IssueRows(o, order[o], K)
               /\ RowSet(O) /\ \A m \in O : m.order = o /\ m.n \in Nat
               /\ Apart(MovesOf(o), X \cup O) /\ Apart(X, O)
               /\ moves' = moves \cup (X \cup O) /\ UNCHANGED <<mirrored, sold>>
               /\ CanIssue(order[o], K, Live, FALSE)
<1>1. PICK ord, R, L, K, X, O, new :
         /\ ord = order[o] /\ R = MovesOf(o) /\ L = R \ mirrored
         /\ K = Pending(ord, Stage) /\ X = IssueRows(o, ord, K)
         /\ O = OutputRows(o, ord, named) /\ new = Closed(Issued(ord, K), named)
  OBVIOUS
<1>2. /\ In(o, {"draft", "confirmed", "in_progress"})
      /\ \A l \in DOMAIN named : named[l] >= ord.products[l].received
      /\ CanIssue(ord, K, Live, FALSE)
      /\ order' = [order EXCEPT ![o] = new] /\ moves' = moves \cup (X \cup O)
      /\ UNCHANGED <<mirrored, sold>>
  <2>1. /\ order' = [order EXCEPT ![o] = new] /\ moves' = (moves \cup X) \cup O
    BY <1>1 DEF Execute, ExecuteWith
  <2>2. /\ In(o, {"draft", "confirmed", "in_progress"})
        /\ \A l \in DOMAIN named : named[l] >= ord.products[l].received
        /\ CanIssue(ord, K, Live, FALSE) /\ UNCHANGED <<mirrored, sold>>
    BY <1>1 DEF Execute, ExecuteWith, Live
  <2> QED
    BY <2>1, <2>2
<1>3. /\ Stands(ord) /\ ord.state \in {"draft", "confirmed", "in_progress"} /\ RowSet(R)
      /\ Moved(ord, R, L)
  <2>1. Stands(order[o]) /\ RowSet(MovesOf(o)) /\ Moved(order[o], MovesOf(o), MovesOf(o) \ mirrored)
    BY <1>2, Standing
  <2> QED
    BY <1>1, <1>2, <2>1 DEF In
<1>4. PICK d \in Draft : ord \in OrderRow(d)
  BY <1>1, Standing
<1>5. NamedWell(ord, named)
  <2>1. PICK D \in SUBSET DOMAIN order[o].products : named \in [D -> Output]
    BY DEF Named
  <2>2. \A l \in DOMAIN named : named[l] \in Nat
    BY <2>1, ProductionAssumption
  <2> QED
    BY <1>2, <2>2 DEF NamedWell
<1>6. /\ new \in OrderRow(d) /\ new.state = "done" /\ new.reverses = ord.reverses
      /\ RowSet(X) /\ RowSet(O) /\ OfOrder(X \cup O, o)
      /\ Apart(R, X \cup O) /\ Apart(X, O)
      /\ Moved(new, R \cup (X \cup O), L \cup (X \cup O))
  <2>1. /\ K = Pending(ord, Stage) /\ X = IssueRows(o, ord, K) /\ O = OutputRows(o, ord, named)
        /\ new = Closed(Issued(ord, K), named)
    BY <1>1
  <2> QED
    BY ONLY SMTT(30), <1>3, <1>4, <1>5, <2>1, o \in Order, d \in Draft, MovedExecuted
<1>7. \A m \in O : m.n \in Nat
  BY <1>1, <1>4, <1>5, OutputParts DEF NamedWell
<1>8. Stands(new)
  BY <1>3, <1>6, OrderParts DEF Stands
<1>9. RowSet(X \cup O) /\ \A m \in X \cup O : m.order = o
  BY <1>6, FS_Union DEF RowSet, OfOrder
<1>10. /\ Apart(MovesOf(o), X \cup O) /\ new.state \notin {"draft", "confirmed"}
       /\ Moved(new, MovesOf(o) \cup (X \cup O), (MovesOf(o) \ mirrored) \cup (X \cup O))
  BY <1>1, <1>6
<1>11. ProductionInv'
  BY <1>2, <1>4, <1>6, <1>8, <1>9, <1>10, Grows
<1>12. K \subseteq DOMAIN ord.materials /\ \A m \in O : m.order = o
  BY <1>1, <1>9 DEF Pending
<1> QED
  BY <1>1, <1>2, <1>4, <1>6, <1>7, <1>11, <1>12

LEMMA ExecutedAnew ==
  ASSUME ProductionInv, NEW o \in Order, NEW d \in Draft,
         NEW negative \in BOOLEAN, CreateDone(o, d, negative) \/ EditDone(o, d, negative)
  PROVE  ProductionInv'
<1>1. PICK ord, K, X, O, new :
         /\ ord = Lines(d) /\ K = Pending(ord, Stage) /\ X = IssueRows(o, ord, K)
         /\ O = OutputRows(o, ord, <<>>) /\ new = Closed(Issued(ord, K), <<>>)
  OBVIOUS
<1>2. ord \in OrderRow(d) /\ ord.state = "draft" /\ ord.reverses = Null /\ Moved(ord, {}, {})
  BY <1>1, FreshLines
<1>3. NamedWell(ord, <<>>) /\ RowSet({}) /\ ord.state \in {"draft", "confirmed", "in_progress"}
  BY <1>2, FS_EmptySet DEF NamedWell, RowSet
<1>4. /\ new \in OrderRow(d) /\ new.state = "done" /\ new.reverses = ord.reverses
      /\ RowSet(X) /\ RowSet(O) /\ OfOrder(X \cup O, o)
      /\ Moved(new, {} \cup (X \cup O), {} \cup (X \cup O))
  <2>1. ord \in OrderRow(d) /\ Moved(ord, {}, {})
    BY <1>2
  <2>2. PICK R, named : R = {} /\ named = <<>>
    OBVIOUS
  <2>3. /\ K = Pending(ord, Stage) /\ X = IssueRows(o, ord, K) /\ O = OutputRows(o, ord, named)
        /\ new = Closed(Issued(ord, K), named)
        /\ NamedWell(ord, named) /\ RowSet(R) /\ ord.state \in {"draft", "confirmed", "in_progress"}
        /\ Moved(ord, R, R) /\ ord \in OrderRow(d)
    BY <1>1, <1>3, <2>1, <2>2
  <2>4. /\ new \in OrderRow(d) /\ new.state = "done" /\ new.reverses = ord.reverses
        /\ RowSet(X) /\ RowSet(O) /\ OfOrder(X \cup O, o)
        /\ Moved(new, R \cup (X \cup O), R \cup (X \cup O))
    BY ONLY <2>3, o \in Order, d \in Draft, MovedExecuted
  <2> QED
    BY <2>2, <2>4
<1>5. PICK R : R = X \cup O
  OBVIOUS
<1>6. RowSet(R) /\ \A m \in R : m.order = o
  BY <1>4, <1>5, FS_Union DEF RowSet, OfOrder
<1>7. Moved(new, R, R \ {})
  <2>1. {} \cup (X \cup O) = R /\ R \ {} = R
    BY <1>5
  <2> QED
    BY <1>4, <2>1
<1>8. new # Null /\ Stands(new)
  BY <1>2, <1>4, OrderParts DEF Stands
<1>9. OrderWell(d, new, R, {})
  BY <1>4, <1>7, <1>8 DEF OrderWell
<1>10. /\ order' = [order EXCEPT ![o] = new] /\ sold' = sold
       /\ moves' = (moves \ MovesOf(o)) \cup R /\ mirrored' = (mirrored \ MovesOf(o)) \cup {}
  <2>1. CASE CreateDone(o, d, negative)
    <3>1. /\ order' = [order EXCEPT ![o] = new] /\ sold' = sold /\ mirrored' = mirrored
          /\ moves' = (moves \cup X) \cup O /\ order[o] = Null
      BY <1>1, <2>1 DEF CreateDone, ExecuteWith
    <3>2. MovesOf(o) = {}
      BY <3>1, Standing
    <3> QED
      BY <1>5, <3>1, <3>2
  <2>2. CASE EditDone(o, d, negative)
    <3>1. /\ order' = [order EXCEPT ![o] = new] /\ sold' = sold /\ mirrored' = mirrored \ MovesOf(o)
          /\ moves' = ((moves \ MovesOf(o)) \cup X) \cup O
      BY <1>1, <2>2 DEF EditDone, ExecuteWith
    <3> QED
      BY <1>5, <3>1
  <2> QED
    BY <2>1, <2>2
<1>11. BecomesOf(o, d, new, R, {})
  BY <1>6, <1>9, <1>10 DEF BecomesOf
<1> QED
  BY <1>11, OrderStep

(* An order is reversed whole, by one that moves nothing of its own.        *)
LEMMA ReverseHeld ==
  ASSUME ProductionInv, NEW o \in Order, NEW r \in Order, ReverseOrder(o, r)
  PROVE  ProductionInv'
<1>1. /\ order = [p \in Order |-> order[p]]
      /\ \A p \in Order : order[p] # Null => \E e \in Draft : order[p] \in OrderRow(e)
      /\ moves \subseteq MoveRow /\ IsFiniteSet(moves) /\ mirrored \subseteq moves
      /\ sold \in [Item -> Nat] /\ \A p \in Order : OrderHeld(p)
  BY DEF ProductionInv, ProductionTypeOK
<1>2. /\ order[o] # Null /\ order[r] = Null /\ r # o
      /\ mirrored' = mirrored \cup MovesOf(o) /\ moves' = moves /\ sold' = sold
  BY DEF ReverseOrder, In, RowsToReverse
<1>3. PICK ord, was, back : /\ ord = order[o] /\ was = StateAs(ord, "reversed")
                            /\ back = [ord EXCEPT !.state = "done", !.reverses = o]
  OBVIOUS
<1>4. PICK d \in Draft : ord \in OrderRow(d)
  BY <1>1, <1>2, <1>3
<1>5. /\ was \in OrderRow(d) /\ was.state = "reversed" /\ was.reverses = Null
      /\ back \in OrderRow(d) /\ back.state = "done" /\ back.reverses = o
  <2>1. ord.reverses = Null
    BY <1>3 DEF ReverseOrder
  <2>2. was \in OrderRow(d) /\ was.state = "reversed" /\ was.reverses = ord.reverses
    BY <1>3, <1>4, StateRow
  <2>3. back \in OrderRow(d) /\ back.state = "done" /\ back.reverses = o
    BY <1>3, <1>4 DEF OrderRow
  <2> QED
    BY <2>1, <2>2, <2>3
<1>6. order' = [p \in Order |-> IF p = r THEN back ELSE IF p = o THEN was ELSE order[p]]
  <2>1. order' = [order EXCEPT ![o].state = "reversed",
                               ![r] = [order[o] EXCEPT !.state = "done", !.reverses = o]]
    BY DEF ReverseOrder
  <2> QED
    BY <1>1, <1>2, <1>3, <2>1 DEF StateAs
<1>7. ProductionTypeOK'
  <2>1. order' = [p \in Order |-> order'[p]]
    BY <1>6
  <2>2. \A p \in Order : order'[p] # Null => \E e \in Draft : order'[p] \in OrderRow(e)
    BY <1>1, <1>4, <1>5, <1>6
  <2>3. mirrored' \subseteq moves'
    BY <1>1, <1>2 DEF MovesOf
  <2> QED
    BY <1>1, <1>2, <2>1, <2>2, <2>3 DEF ProductionTypeOK
<1>8. \A p \in Order : MovesOf(p)' = MovesOf(p)
  BY <1>2 DEF MovesOf
<1>9. OrderHeld(o)'
  <2>1. order'[o] = was /\ was # Null
    BY <1>2, <1>5, <1>6, OrderParts
  <2>2. MovesOf(o)' \subseteq mirrored'
    BY <1>2, <1>8
  <2> QED
    BY <1>5, <2>1, <2>2 DEF OrderHeld, Stands
<1>10. OrderHeld(r)'
  <2>1. order'[r] = back /\ back # Null /\ o # Null
    BY <1>2, <1>5, <1>6, OrderParts, ProductionNull
  <2>2. MovesOf(r)' = {}
    BY <1>2, <1>8, Standing
  <2> QED
    BY <1>5, <2>1, <2>2 DEF OrderHeld, Stands
<1>11. ASSUME NEW p \in Order, p # o, p # r PROVE OrderHeld(p)'
  <2>1. order'[p] = order[p]
    BY <1>6, <1>11
  <2>2. MovesOf(p) \cap mirrored' = MovesOf(p) \cap mirrored
    BY <1>2, <1>11 DEF MovesOf
  <2> QED
    BY <1>1, <1>8, <2>1, <2>2, Unaffected
<1> QED
  BY <1>7, <1>9, <1>10, <1>11 DEF ProductionInv

(* Sales, and the setting.                                                  *)
LEMMA ElsewhereHeld ==
  ASSUME ProductionInv, UNCHANGED <<order, moves, mirrored>>, sold' \in [Item -> Nat]
  PROVE  ProductionInv'
<1>1. ProductionTypeOK'
  BY DEF ProductionInv, ProductionTypeOK
<1>2. ASSUME NEW p \in Order PROVE OrderHeld(p)'
  <2>1. MovesOf(p)' = MovesOf(p)
    BY DEF MovesOf
  <2>2. OrderHeld(p)
    BY DEF ProductionInv
  <2> QED
    BY <2>1, <2>2, Unaffected
<1> QED
  BY <1>1, <1>2 DEF ProductionInv

LEMMA ProductionInvStarts == ProductionInit => ProductionInv
<1> SUFFICES ASSUME ProductionInit PROVE ProductionInv
  OBVIOUS
<1>1. \A p \in Order : order[p] = Null /\ MovesOf(p) = {}
  BY DEF ProductionInit, MovesOf
<1>2. ProductionTypeOK
  BY FS_EmptySet DEF ProductionInit, ProductionTypeOK
<1> QED
  BY <1>1, <1>2 DEF ProductionInv, OrderHeld, Stands

LEMMA ProductionInvKept == ProductionInv /\ [ProductionNext]_productionVars => ProductionInv'
<1> SUFFICES ASSUME ProductionInv, [ProductionNext]_productionVars PROVE ProductionInv'
  OBVIOUS
<1>1. sold \in [Item -> Nat]
  BY DEF ProductionInv, ProductionTypeOK
<1>2. ASSUME NEW o \in Order, NEW d \in Draft, Create(o, d) \/ Update(o, d) PROVE ProductionInv'
  BY <1>2, CreateHeld
<1>3. ASSUME NEW o \in Order, NEW d \in Draft, NEW negative \in BOOLEAN,
             CreateDone(o, d, negative) \/ EditDone(o, d, negative)
      PROVE  ProductionInv'
  BY <1>3, ExecutedAnew
<1>4. ASSUME NEW o \in Order, Delete(o) PROVE ProductionInv'
  BY <1>4, DeleteHeld
<1>5. ASSUME NEW o \in Order, Confirm(o) PROVE ProductionInv'
  BY <1>5, ConfirmHeld
<1>6. ASSUME NEW o \in Order, Start(o) \/ IssueQuality(o) PROVE ProductionInv'
  BY <1>6, StageHeld
<1>7. ASSUME NEW o \in Order, NEW n \in Output, NEW l \in ProductLine, Receive(o, l, n)
      PROVE  ProductionInv'
  BY <1>7, ReceiveHeld
<1>8. ASSUME NEW o \in Order, NEW m \in moves, UndoReceipt(o, m) PROVE ProductionInv'
  BY <1>8, UndoHeld
<1>9. ASSUME NEW o \in Order, order[o] # Null, NEW named \in Named(o), Execute(o, named)
      PROVE  ProductionInv'
  BY <1>9, ExecuteHeld
<1>10. ASSUME NEW o \in Order, NEW r \in Order, ReverseOrder(o, r) PROVE ProductionInv'
  BY <1>10, ReverseHeld
<1>11. ASSUME NEW i \in Item, Sell(i) PROVE ProductionInv'
  <2>1. UNCHANGED <<order, moves, mirrored>> /\ sold' \in [Item -> Nat]
    BY <1>1, <1>11 DEF Sell
  <2> QED
    BY <2>1, ElsewhereHeld
<1>12. ASSUME SwitchPerpetual \/ UNCHANGED productionVars PROVE ProductionInv'
  <2>1. UNCHANGED <<order, moves, mirrored>> /\ sold' = sold
    BY <1>12 DEF SwitchPerpetual, productionVars
  <2> QED
    BY <1>1, <2>1, ElsewhereHeld
<1> QED
  BY <1>2, <1>3, <1>4, <1>5, <1>6, <1>7, <1>8, <1>9, <1>10, <1>11, <1>12 DEF ProductionNext

(* What has not been reversed is of an order that stands.                   *)
LEMMA LiveStands ==
  ASSUME ProductionInv, NEW m \in Live
  PROVE  /\ m \in MoveRow /\ m.order \in Order /\ Stands(order[m.order])
         /\ m \in MovesOf(m.order) \ mirrored
         /\ Moved(order[m.order], MovesOf(m.order), MovesOf(m.order) \ mirrored)
         /\ RowFits(order[m.order], MovesOf(m.order), m)
<1>1. PICK o : o = m.order
  OBVIOUS
<1>2. m \in MoveRow /\ o \in Order
  BY <1>1, MoveRowParts DEF Live, ProductionInv, ProductionTypeOK
<1>3. m \in MovesOf(o) /\ m \notin mirrored
  BY <1>1 DEF Live, MovesOf
<1>4. OrderHeld(o)
  BY <1>2 DEF ProductionInv
<1>5. Stands(order[o])
  BY <1>3, <1>4 DEF OrderHeld, Stands
<1>6. Moved(order[o], MovesOf(o), MovesOf(o) \ mirrored)
  BY <1>4, <1>5 DEF OrderHeld
<1>7. RowFits(order[o], MovesOf(o), m)
  BY <1>3, <1>6 DEF Moved
<1> QED
  BY <1>1, <1>2, <1>3, <1>5, <1>6, <1>7

LEMMA ProductionSound == ProductionInv => ProductionAddsUp
<1> SUFFICES ASSUME ProductionInv PROVE ProductionAddsUp
  OBVIOUS
<1>1. MovedAsOrdered
  <2> SUFFICES ASSUME NEW o \in Order, Stands(order[o])
               PROVE  LET P == order[o].products  M == order[o].materials IN
                      /\ \A l \in DOMAIN P :
                            LET in == Net(o, "receipt", ReceiptsOf(l))  rest == Net(o, "output", {l})
                            IN  IF order[o].state = "done"
                                THEN in + rest = P[l].n \/ (rest = 0 /\ in > P[l].n)
                                ELSE in = P[l].received /\ rest = 0
                      /\ \A k \in DOMAIN M : Net(o, "issue", {k}) = IF M[k].issued THEN - M[k].n ELSE 0
                      /\ order[o].state \in {"draft", "confirmed"} => MovesOf(o) = {}
                      /\ order[o].state = "done" => \A k \in DOMAIN M : M[k].issued
    BY DEF MovedAsOrdered, Stands
  <2>1. PICK ord, R, L : ord = order[o] /\ R = MovesOf(o) /\ L = R \ mirrored
    OBVIOUS
  <2>2. Moved(ord, R, L) /\ RowSet(R) /\ OrderHeld(o)
    BY <2>1, Standing DEF ProductionInv
  <2>3. PICK d \in Draft : ord \in OrderRow(d)
    BY <2>1, Standing DEF Stands
  <2>4. L \subseteq MoveRow /\ IsFiniteSet(L)
    BY <2>1, <2>2, FS_Subset DEF RowSet
  <2>5. /\ \A m \in R : RowFits(ord, R, m)
        /\ \A m \in R \ L : m.what = "receipt"
        /\ \A k \in DOMAIN ord.materials :
              ord.materials[k].issued => \E m \in R :
                  {q \in R : q.what = "issue" /\ q.key = k} = {m}
        /\ \A l \in DOMAIN ord.products : LineMoved(ord, L, l)
        /\ ord.state = "done" => \A k \in DOMAIN ord.materials : ord.materials[k].issued
    BY <2>2 DEF Moved
  <2>6. \A what, K : Net(o, what, K) = NetIn(L, what, K)
    BY <2>1 DEF Net, NetIn
  <2>7. ASSUME NEW l \in DOMAIN ord.products
        PROVE  LET in == Net(o, "receipt", ReceiptsOf(l))  rest == Net(o, "output", {l})
               IN  IF ord.state = "done"
                   THEN in + rest = ord.products[l].n \/ (rest = 0 /\ in > ord.products[l].n)
                   ELSE in = ord.products[l].received /\ rest = 0
    <3>1. LineMoved(ord, L, l)
      BY <2>5
    <3>2. ord.state # "done" => NetIn(L, "output", {l}) = 0
      <4>1. ord.state # "done" => \A m \in L : m.what # "output"
        BY <2>1, <2>5 DEF RowFits
      <4> QED
        BY <2>4, <4>1, NetInParts
    <3> QED
      BY <2>6, <3>1, <3>2 DEF LineMoved
  <2>8. ASSUME NEW k \in DOMAIN ord.materials
        PROVE  Net(o, "issue", {k}) = IF ord.materials[k].issued THEN - ord.materials[k].n ELSE 0
    <3>1. CASE ord.materials[k].issued
      <4>1. PICK m \in R : {q \in R : q.what = "issue" /\ q.key = k} = {m}
        BY <2>5, <3>1
      <4>2. m \in L /\ m.what = "issue" /\ m.key = k
        BY <2>5, <4>1
      <4>3. {q \in L : q.what = "issue" /\ q.key \in {k}} = {m}
        BY <2>1, <4>1, <4>2
      <4>4. m.n = - ord.materials[k].n
        BY <2>5, <4>2 DEF RowFits
      <4>5. Total({m}) = m.n
        BY <2>4, <4>2, TotalOfOne
      <4> QED
        BY <2>6, <3>1, <4>3, <4>4, <4>5 DEF NetIn
    <3>2. CASE ~ ord.materials[k].issued
      <4>1. \A m \in L : m.what = "issue" => m.key \notin {k}
        BY <2>1, <2>5, <3>2 DEF RowFits
      <4>2. NetIn(L, "issue", {k}) = 0
        BY <2>4, <4>1, NetInParts
      <4> QED
        BY <2>6, <3>2, <4>2
    <3> QED
      BY <3>1, <3>2
  <2>9. ord.state \in {"draft", "confirmed"} => MovesOf(o) = {}
    BY <2>1, <2>2 DEF OrderHeld, Stands
  <2> QED
    BY <2>1, <2>5, <2>7, <2>8, <2>9
<1>2. NothingLeftBehind
  <2>1. ASSUME NEW i \in Item PROVE OnHand(Live, i, "wip") = 0
    <3>1. Live \subseteq MoveRow /\ IsFiniteSet(Live)
      BY FS_Subset DEF Live, ProductionInv, ProductionTypeOK
    <3>2. ASSUME NEW m \in Live, m.place = "wip"
          PROVE  m.what \in {"issue", "to_wip"} /\ Counterpart(m) \in Live
      <4>1. /\ m \in MoveRow /\ m \in MovesOf(m.order) \ mirrored
            /\ Moved(order[m.order], MovesOf(m.order), MovesOf(m.order) \ mirrored)
            /\ RowFits(order[m.order], MovesOf(m.order), m)
        BY LiveStands
      <4>2. m.what \in {"issue", "to_wip"}
        BY <3>2, <4>1, MoveRowParts DEF RowFits
      <4>3. Counterpart(m) \in MovesOf(m.order) \ mirrored
        BY <3>2, <4>1 DEF Moved
      <4> QED
        BY <4>2, <4>3 DEF MovesOf, Live
    <3>3. Put(Live, i, "wip") = 0
      BY <3>1, <3>2, WaitingInPairs
    <3> QED
      BY <3>3 DEF OnHand
  <2>2. \A o \in Order : In(o, {"reversed"}) => MovesOf(o) \subseteq mirrored
    BY DEF ProductionInv, OrderHeld, In
  <2> QED
    BY <2>1, <2>2 DEF NothingLeftBehind
<1> QED
  BY <1>1, <1>2 DEF ProductionAddsUp, ProductionInv

(* However orders are entered, started, received in parts, executed, edited *)
(* and reversed, and whatever the setting was at each step, each has moved  *)
(* what its lines say, nothing stays in work in progress and nothing of a   *)
(* reversed one is left (manufacturing_production_service.py).              *)
THEOREM OrdersMoveAsTold ==
  ProductionInit /\ [][ProductionNext]_productionVars => []ProductionAddsUp
<1>1. ProductionInit /\ [][ProductionNext]_productionVars => []ProductionInv
  BY ProductionInvStarts, ProductionInvKept, PTL
<1> QED
  BY <1>1, ProductionSound, PTL

(* Rows that add to a place, and rows that take from it.                    *)
LEMMA PutSign ==
  ASSUME NEW W, RowSet(W), NEW i, NEW p
  PROVE  /\ Put(W, i, p) \in Int
         /\ (\A m \in AtPlace(W, i, p) : m.n >= 0) => Put(W, i, p) >= 0
         /\ (\A m \in AtPlace(W, i, p) : m.n =< 0) => Put(W, i, p) =< 0
         /\ AtPlace(W, i, p) = {} => Put(W, i, p) = 0
<1>0. PICK A : A = AtPlace(W, i, p)
  OBVIOUS
<1> DEFINE f == [m \in A |-> m.n]
<1>1. A \subseteq MoveRow /\ IsFiniteSet(A) /\ Put(W, i, p) = Total(A)
  BY <1>0, PutIsTotal DEF RowSet
<1>2. ASSUME \A m \in A : m.n =< 0 PROVE Total(A) =< 0
  <2>1. \A m \in A : f[m] \in Int /\ f[m] =< 0
    BY <1>1, <1>2, MoveRowParts
  <2>2. Total(A) = SumFunctionOnSet(f, A)
    BY DEF Total
  <2> HIDE DEF f
  <2> QED
    BY <1>1, <2>1, <2>2, SumNotPositive
<1>3. /\ Total(A) \in Int
      /\ (\A m \in A : m.n >= 0) => Total(A) >= 0
      /\ A = {} => Total(A) = 0
  BY <1>1, TotalOf
<1> QED
  <2> HIDE DEF f
  <2> QED
    BY ONLY <1>0, <1>1, <1>2, <1>3

LEMMA StoreHolds ==
  ASSUME ProductionInv, NEW i \in Item
  PROVE  /\ OnHand(Live, i, "store") \in Int /\ RowSet(Live)
         /\ OnHand(Live, i, "store") = Stocked[i] - sold[i] + Put(Live, i, "store")
         /\ Stocked[i] \in Nat /\ sold[i] \in Nat /\ Put(Live, i, "store") \in Int
<1>1. moves \subseteq MoveRow /\ IsFiniteSet(moves) /\ sold[i] \in Nat
  BY DEF ProductionInv, ProductionTypeOK
<1>2. RowSet(Live)
  BY <1>1, FS_Subset DEF Live, RowSet
<1>3. Put(Live, i, "store") \in Int
  BY <1>2, PutSign
<1>4. Stocked[i] \in Nat
  BY ProductionAssumption
<1> QED
  BY <1>1, <1>2, <1>3, <1>4 DEF OnHand

(* The store gains what new rows put there.                                 *)
LEMMA StoreGains ==
  ASSUME ProductionInv, NEW o \in Order, NEW X, RowSet(X), OfOrder(X, o), Apart(MovesOf(o), X),
         moves' = moves \cup X, UNCHANGED <<mirrored, sold>>, NEW i \in Item
  PROVE  OnHand(Live, i, "store")' = OnHand(Live, i, "store") + Put(X, i, "store")
<1>1. X \cap moves = {} /\ mirrored \subseteq moves
  BY DEF OfOrder, Apart, MovesOf, ProductionInv, ProductionTypeOK
<1>2. Live' = Live \cup X /\ Live \cap X = {}
  BY <1>1 DEF Live
<1>3. /\ OnHand(Live, i, "store") = Stocked[i] - sold[i] + Put(Live, i, "store")
      /\ Stocked[i] \in Nat /\ sold[i] \in Nat /\ Put(Live, i, "store") \in Int /\ RowSet(Live)
  BY StoreHolds
<1>4. Put(Live \cup X, i, "store") = Put(Live, i, "store") + Put(X, i, "store")
  BY <1>2, <1>3, PutOfBoth DEF RowSet
<1>5. OnHand(Live, i, "store")' = Stocked[i] - sold[i] + Put(Live \cup X, i, "store")
  BY <1>2 DEF OnHand, Put
<1>6. Put(X, i, "store") \in Int
  BY PutSign
<1> QED
  BY <1>3, <1>4, <1>5, <1>6

(* What is there, or at least as much as there was.                         *)
StoreKept(i) ==
    ~ (OnHand(Live, i, "store")' < 0 /\ OnHand(Live, i, "store")' < OnHand(Live, i, "store"))

(* Materials that are there are issued, and what was made comes in.         *)
LEMMA IssuedWithin ==
  ASSUME ProductionInv, NEW o \in Order, NEW d \in Draft, NEW ord \in OrderRow(d),
         NEW K \in SUBSET DOMAIN ord.materials, CanIssue(ord, K, Live, FALSE),
         NEW X, X = IssueRows(o, ord, K), NEW O, RowSet(O), OfOrder(O, o), \A m \in O : m.n \in Nat,
         Apart(MovesOf(o), X \cup O), Apart(X, O),
         moves' = moves \cup (X \cup O), UNCHANGED <<mirrored, sold>>, NEW i \in Item
  PROVE  StoreKept(i)
<1> DEFINE S == SumFunctionOnSet([k \in K |-> ord.materials[k].n], {k \in K : ord.materials[k].item = i})
<1>1. RowSet(X) /\ OfOrder(X, o)
  BY IssueParts DEF RowSet, OfOrder
<1>2. RowSet(X \cup O) /\ OfOrder(X \cup O, o)
  BY <1>1, FS_Union DEF RowSet, OfOrder
<1>3. OnHand(Live, i, "store")' = OnHand(Live, i, "store") + Put(X \cup O, i, "store")
  BY ONLY <1>2, ProductionInv, o \in Order, i \in Item, Apart(MovesOf(o), X \cup O),
     moves' = moves \cup (X \cup O), UNCHANGED <<mirrored, sold>>, StoreGains
<1>4. Put(X \cup O, i, "store") = Put(X, i, "store") + Put(O, i, "store")
  BY <1>1, PutOfBoth DEF RowSet, Apart
<1>5. Put(X, i, "store") = - S /\ S \in Nat
  BY IssuedOfStore
<1>6. Put(O, i, "store") \in Int /\ Put(O, i, "store") >= 0
  BY PutSign DEF AtPlace
<1>7. OnHand(Live, i, "store") \in Int
  BY StoreHolds
<1>8. S = 0 \/ S =< OnHand(Live, i, "store")
  <2>1. CASE \E k \in K : ord.materials[k].item = i
    <3>1. i \in {ord.materials[k].item : k \in K} /\ K # {}
      BY <2>1
    <3>2. NoShortage(ord, K, Live)
      BY <3>1 DEF CanIssue
    <3> QED
      BY <3>1, <3>2 DEF NoShortage
  <2>2. CASE ~ \E k \in K : ord.materials[k].item = i
    <3>1. {k \in K : ord.materials[k].item = i} = {}
      BY <2>2
    <3> QED
      BY <3>1, SumEmpty
  <2> QED
    BY <2>1, <2>2
<1> HIDE DEF S
<1> QED
  BY <1>3, <1>4, <1>5, <1>6, <1>7, <1>8 DEF StoreKept

(* What is taken back was there, and materials come back besides.           *)
LEMMA TakenBack ==
  ASSUME ProductionInv, NEW A, A \subseteq Live, NEW S, S \subseteq A, CanTakeBack(S),
         \A m \in S : m.place = "store", \A m \in A \ S : m.place = "store" => m.n =< 0,
         Live' = Live \ A, sold' = sold, NEW i \in Item
  PROVE  StoreKept(i)
<1>1. /\ OnHand(Live, i, "store") = Stocked[i] - sold[i] + Put(Live, i, "store")
      /\ Stocked[i] \in Nat /\ sold[i] \in Nat /\ Put(Live, i, "store") \in Int /\ RowSet(Live)
  BY StoreHolds
<1>2. PICK B, T : B = Live \ A /\ T = A \ S
  OBVIOUS
<1>3. RowSet(A) /\ RowSet(S) /\ RowSet(B) /\ RowSet(T)
  BY <1>1, <1>2, FS_Subset DEF RowSet
<1>4. B \cup A = Live /\ B \cap A = {} /\ S \cup T = A /\ S \cap T = {}
  BY <1>2
<1>5. Put(Live, i, "store") = Put(B, i, "store") + Put(A, i, "store")
  BY <1>3, <1>4, PutOfBoth DEF RowSet
<1>6. Put(A, i, "store") = Put(S, i, "store") + Put(T, i, "store")
  BY <1>3, <1>4, PutOfBoth DEF RowSet
<1>7. /\ Put(A, i, "store") \in Int /\ Put(S, i, "store") \in Int /\ Put(B, i, "store") \in Int
      /\ Put(T, i, "store") \in Int /\ Put(T, i, "store") =< 0
  <2>1. \A m \in AtPlace(T, i, "store") : m.n =< 0
    BY <1>2 DEF AtPlace
  <2> QED
    BY <1>3, <2>1, PutSign
<1>8. OnHand(Live, i, "store")' = Stocked[i] - sold[i] + Put(B, i, "store")
  BY <1>2 DEF OnHand, Put
<1>9. Put(S, i, "store") = 0 \/ Put(S, i, "store") =< OnHand(Live, i, "store")
  <2>1. {m \in S : m.item = i /\ m.place = "store"} = {m \in S : m.item = i}
    OBVIOUS
  <2>2. Put(S, i, "store") = SumFunctionOnSet([m \in S |-> m.n], {m \in S : m.item = i})
    BY <2>1 DEF Put
  <2>3. CASE \E m \in S : m.item = i
    <3>1. i \in {m.item : m \in S}
      BY <2>3
    <3> QED
      BY <2>2, <3>1 DEF CanTakeBack
  <2>4. CASE ~ \E m \in S : m.item = i
    <3>1. {m \in S : m.item = i} = {}
      BY <2>4
    <3> QED
      BY <2>2, <3>1, SumEmpty
  <2> QED
    BY <2>3, <2>4
<1> QED
  BY <1>1, <1>5, <1>6, <1>7, <1>8, <1>9 DEF StoreKept

LEMMA StageKeepsStore ==
  ASSUME ProductionInv, NEW o \in Order, Start(o) \/ IssueQuality(o), NEW i \in Item
  PROVE  StoreKept(i)
<1>1. PICK d, ord, X, K :
         /\ d \in Draft /\ ord \in OrderRow(d) /\ K \in SUBSET DOMAIN ord.materials
         /\ X = IssueRows(o, ord, K) /\ Apart(MovesOf(o), X)
         /\ moves' = moves \cup X /\ UNCHANGED <<mirrored, sold>>
         /\ CanIssue(ord, K, Live, FALSE)
  BY StageHeld
<1>2. PICK O : O = {}
  OBVIOUS
<1>3. /\ RowSet(O) /\ OfOrder(O, o) /\ (\A m \in O : m.n \in Nat)
      /\ Apart(MovesOf(o), X \cup O) /\ Apart(X, O) /\ moves' = moves \cup (X \cup O)
  BY <1>1, <1>2, FS_EmptySet DEF RowSet, OfOrder, Apart
<1> QED
  BY ONLY <1>1, <1>3, ProductionInv, o \in Order, i \in Item, IssuedWithin

LEMMA ExecuteKeepsStore ==
  ASSUME ProductionInv, NEW o \in Order, NEW named, order[o] # Null, named \in Named(o),
         Execute(o, named), NEW i \in Item
  PROVE  StoreKept(i)
<1>1. PICK d, ord, K, X, O :
         /\ d \in Draft /\ ord \in OrderRow(d) /\ K \in SUBSET DOMAIN ord.materials
         /\ X = IssueRows(o, ord, K) /\ RowSet(O) /\ OfOrder(O, o) /\ (\A m \in O : m.n \in Nat)
         /\ Apart(MovesOf(o), X \cup O) /\ Apart(X, O)
         /\ moves' = moves \cup (X \cup O) /\ UNCHANGED <<mirrored, sold>>
         /\ CanIssue(ord, K, Live, FALSE)
  BY ExecuteHeld DEF OfOrder
<1> QED
  BY ONLY <1>1, ProductionInv, o \in Order, i \in Item, IssuedWithin

LEMMA ReceiveKeepsStore ==
  ASSUME ProductionInv, NEW o \in Order, NEW l \in ProductLine, NEW n \in Output, Receive(o, l, n),
         NEW i \in Item
  PROVE  StoreKept(i)
<1>1. PICK q \in MoveRow : /\ q.order = o /\ q.n \in Nat /\ q \notin MovesOf(o)
                           /\ moves' = moves \cup {q} /\ UNCHANGED <<mirrored, sold>>
  BY ReceiveHeld
<1>2. PICK X : X = {q}
  OBVIOUS
<1>3. RowSet(X) /\ OfOrder(X, o) /\ Apart(MovesOf(o), X) /\ moves' = moves \cup X
  BY <1>1, <1>2, FS_Singleton DEF RowSet, OfOrder, Apart
<1>4. OnHand(Live, i, "store")' = OnHand(Live, i, "store") + Put(X, i, "store")
  BY ONLY <1>1, <1>3, ProductionInv, o \in Order, i \in Item, StoreGains
<1>5. Put(X, i, "store") \in Int /\ Put(X, i, "store") >= 0
  <2>1. \A m \in AtPlace(X, i, "store") : m.n >= 0
    BY <1>1, <1>2 DEF AtPlace
  <2> QED
    BY <1>3, <2>1, PutSign
<1>6. OnHand(Live, i, "store") \in Int
  BY StoreHolds
<1> QED
  BY <1>4, <1>5, <1>6 DEF StoreKept

LEMMA UndoKeepsStore ==
  ASSUME ProductionInv, NEW o \in Order, NEW m \in moves, UndoReceipt(o, m), NEW i \in Item
  PROVE  StoreKept(i)
<1>1. /\ m \in Live /\ m.what = "receipt" /\ CanTakeBack({m})
      /\ mirrored' = mirrored \cup {m} /\ moves' = moves /\ sold' = sold
  BY DEF UndoReceipt, Live
<1>2. m.place = "store"
  BY <1>1, LiveStands DEF RowFits
<1>3. PICK A : A = {m}
  OBVIOUS
<1>4. /\ A \subseteq Live /\ A \subseteq A /\ CanTakeBack(A) /\ (\A q \in A : q.place = "store")
      /\ (\A q \in A \ A : q.place = "store" => q.n =< 0) /\ Live' = Live \ A
  BY <1>1, <1>2, <1>3 DEF Live
<1> QED
  BY <1>1, <1>4, TakenBack

(* What an order made is in the store, and what else it did there took out. *)
LEMMA StoreSigns ==
  ASSUME ProductionInv, NEW m \in Live
  PROVE  /\ m.what \in {"output", "receipt"} => m.place = "store"
         /\ m.what \notin {"output", "receipt"} /\ m.place = "store" => m.n =< 0
<1>1. /\ m \in MoveRow /\ m.order \in Order /\ Stands(order[m.order])
      /\ RowFits(order[m.order], MovesOf(m.order), m)
  BY LiveStands
<1>2. m.what \in {"output", "receipt"} => m.place = "store"
  BY <1>1 DEF RowFits
<1>3. ASSUME m.what \notin {"output", "receipt"}, m.place = "store" PROVE m.n =< 0
  <2>1. PICK ord : ord = order[m.order]
    OBVIOUS
  <2>2. m.what \in {"issue", "to_wip"}
    BY <1>1, <1>3, MoveRowParts
  <2>3. m.key \in DOMAIN ord.materials /\ m.n = - ord.materials[m.key].n
    BY <1>1, <1>3, <2>1, <2>2 DEF RowFits
  <2>4. PICK d \in Draft : ord \in OrderRow(d)
    BY <1>1, <2>1, Standing DEF Stands
  <2>5. ord.materials[m.key].n \in Nat
    BY <2>3, <2>4, OrderParts
  <2> QED
    BY <2>3, <2>5
<1> QED
  BY <1>2, <1>3

LEMMA ReverseKeepsStore ==
  ASSUME ProductionInv, NEW o \in Order, NEW r \in Order, ReverseOrder(o, r), NEW i \in Item
  PROVE  StoreKept(i)
<1>1. PICK A, S : A = RowsToReverse(o) /\ S = {m \in A : m.what \in {"output", "receipt"}}
  OBVIOUS
<1>2. /\ CanTakeBack(S) /\ mirrored' = mirrored \cup A /\ moves' = moves /\ sold' = sold
      /\ A \subseteq Live /\ S \subseteq A
  BY <1>1 DEF ReverseOrder, RowsToReverse, MovesOf, Live
<1>3. Live' = Live \ A
  BY <1>2 DEF Live
<1>4. ASSUME NEW m \in A
      PROVE  /\ m \in S => m.place = "store"
             /\ m \notin S /\ m.place = "store" => m.n =< 0
  BY <1>1, <1>2, StoreSigns
<1>5. /\ \A m \in S : m.place = "store"
      /\ \A m \in A \ S : m.place = "store" => m.n =< 0
  BY <1>2, <1>4
<1> QED
  BY <1>2, <1>3, <1>5, TakenBack

LEMMA OthersKeepStore ==
  ASSUME ProductionInv, NEW i \in Item,
         \/ UNCHANGED <<moves, mirrored, sold>>
         \/ \E j \in Item : Sell(j)
  PROVE  StoreKept(i)
<1>1. /\ OnHand(Live, i, "store") = Stocked[i] - sold[i] + Put(Live, i, "store")
      /\ Stocked[i] \in Nat /\ sold[i] \in Nat /\ Put(Live, i, "store") \in Int
  BY StoreHolds
<1>2. Live' = Live
  BY DEF Sell, Live
<1>3. OnHand(Live, i, "store")' = Stocked[i] - sold'[i] + Put(Live, i, "store")
  BY <1>2 DEF OnHand, Put
<1>4. CASE UNCHANGED <<moves, mirrored, sold>>
  BY <1>1, <1>3, <1>4 DEF StoreKept
<1>5. ASSUME NEW j \in Item, Sell(j) PROVE StoreKept(i)
  <2>1. sold' = [sold EXCEPT ![j] = @ + 1] /\ OnHand(Live, j, "store") > 0
    BY <1>5 DEF Sell
  <2>2. sold \in [Item -> Nat]
    BY DEF ProductionInv, ProductionTypeOK
  <2>3. sold'[i] = IF i = j THEN sold[i] + 1 ELSE sold[i]
    BY <2>1, <2>2
  <2> QED
    BY <1>1, <1>3, <2>1, <2>3 DEF StoreKept
<1> QED
  BY <1>4, <1>5

(* What an order that is executed anew issues and makes, beside the others. *)
Anew(o, d, negative, ord, K, X, O) ==
    /\ ord \in OrderRow(d) /\ K = DOMAIN d.materials /\ K = DOMAIN ord.materials
    /\ \A k \in K : ord.materials[k].item = d.materials[k].item
    /\ X = IssueRows(o, ord, K) /\ RowSet(X) /\ RowSet(O) /\ Apart(X, O)
    /\ \A m \in X : m.order = o /\ m.what \in {"issue", "to_wip"}
    /\ \A m \in O : m.order = o /\ m.what = "output" /\ m.place = "store" /\ m.n \in Nat
    /\ Live' = (Live \ MovesOf(o)) \cup (X \cup O) /\ sold' = sold
    /\ CanIssue(ord, K, Live \ MovesOf(o), negative)

LEMMA MovesAnew ==
  ASSUME ProductionInv, NEW o \in Order, NEW d \in Draft,
         NEW negative \in BOOLEAN, CreateDone(o, d, negative) \/ EditDone(o, d, negative)
  PROVE  \E ord, K, X, O : Anew(o, d, negative, ord, K, X, O)
<1>1. PICK ord, K, X, O :
         /\ ord = Lines(d) /\ K = Pending(ord, Stage) /\ X = IssueRows(o, ord, K)
         /\ O = OutputRows(o, ord, <<>>)
  OBVIOUS
<1>2. ord \in OrderRow(d)
  BY <1>1, FreshLines
<1>3. /\ K = DOMAIN d.materials /\ K = DOMAIN ord.materials
      /\ \A k \in K : ord.materials[k].item = d.materials[k].item
  <2>1. /\ DOMAIN ord.materials = DOMAIN d.materials
        /\ \A k \in DOMAIN ord.materials : /\ ~ ord.materials[k].issued
                                            /\ ord.materials[k].item = d.materials[k].item
    BY <1>1 DEF Lines
  <2>2. \A k \in DOMAIN ord.materials : ord.materials[k].stage \in Stage
    BY <1>2, OrderParts
  <2> QED
    BY <1>1, <2>1, <2>2 DEF Pending
<1>4. \A l \in DOMAIN <<>> : <<>>[l] \in Nat
  OBVIOUS
<1>5. /\ RowSet(O)
      /\ \A m \in O : m.order = o /\ m.what = "output" /\ m.place = "store" /\ m.n \in Nat
  BY <1>1, <1>2, <1>4, OutputParts DEF RowSet
<1>6. RowSet(X) /\ \A m \in X : m.order = o /\ m.what \in {"issue", "to_wip"}
  <2>1. K \in SUBSET DOMAIN ord.materials
    BY <1>3
  <2> QED
    BY <1>1, <1>2, <2>1, IssueParts DEF RowSet
<1>7. Apart(X, O)
  BY <1>5, <1>6 DEF Apart
<1>8. /\ Live' = (Live \ MovesOf(o)) \cup (X \cup O) /\ sold' = sold
      /\ CanIssue(ord, K, Live \ MovesOf(o), negative)
  <2>0. mirrored \subseteq moves /\ \A m \in X \cup O : m.order = o
    BY <1>5, <1>6 DEF ProductionInv, ProductionTypeOK
  <2>1. CASE CreateDone(o, d, negative)
    <3>1. /\ sold' = sold /\ mirrored' = mirrored /\ order[o] = Null
          /\ moves' = moves \cup X \cup O /\ CanIssue(ord, K, moves \ mirrored, negative)
      BY <1>1, <2>1 DEF CreateDone, ExecuteWith
    <3>2. MovesOf(o) = {}
      BY <3>1, Standing
    <3>3. (X \cup O) \cap mirrored = {} /\ Live \ MovesOf(o) = moves \ mirrored
      BY <2>0, <3>2 DEF MovesOf, Live
    <3> QED
      BY <3>1, <3>3 DEF Live
  <2>2. CASE EditDone(o, d, negative)
    <3>1. /\ sold' = sold /\ mirrored' = mirrored \ MovesOf(o)
          /\ moves' = (moves \ MovesOf(o)) \cup X \cup O
          /\ CanIssue(ord, K, (moves \ MovesOf(o)) \ mirrored, negative)
      BY <1>1, <2>2 DEF EditDone, ExecuteWith
    <3>2. /\ (X \cup O) \cap (mirrored \ MovesOf(o)) = {}
          /\ Live \ MovesOf(o) = (moves \ MovesOf(o)) \ mirrored
      BY <2>0 DEF MovesOf, Live
    <3> QED
      BY <3>1, <3>2 DEF Live
  <2> QED
    BY <2>1, <2>2
<1>9. Anew(o, d, negative, ord, K, X, O)
  BY <1>1, <1>2, <1>3, <1>5, <1>6, <1>7, <1>8 DEF Anew
<1> QED
  BY <1>9

(* Of an item it uses, the store has enough; of another it may make less.   *)
LEMMA AnewWithoutLeave ==
  ASSUME ProductionInv, NEW o \in Order, NEW d \in Draft, NEW i \in Item,
         CreateDone(o, d, FALSE) \/ EditDone(o, d, FALSE)
  PROVE  /\ StoreKept(i) \/ MakesLess(o, d, i)
         /\ MovesOf(o) = {} => StoreKept(i)
<1>0. PICK ord, K, X, O : Anew(o, d, FALSE, ord, K, X, O)
  BY MovesAnew
<1>1. /\ ord \in OrderRow(d) /\ K = DOMAIN d.materials /\ K = DOMAIN ord.materials
      /\ \A k \in K : ord.materials[k].item = d.materials[k].item
      /\ X = IssueRows(o, ord, K) /\ RowSet(X) /\ RowSet(O) /\ Apart(X, O)
      /\ \A m \in X : m.order = o /\ m.what \in {"issue", "to_wip"}
      /\ \A m \in O : m.order = o /\ m.what = "output" /\ m.place = "store" /\ m.n \in Nat
      /\ Live' = (Live \ MovesOf(o)) \cup (X \cup O) /\ sold' = sold
      /\ CanIssue(ord, K, Live \ MovesOf(o), FALSE)
  BY <1>0 DEF Anew
<1>2. PICK B, M, N, made, rest, S :
         /\ B = Live \ MovesOf(o) /\ M = Live \cap MovesOf(o) /\ N = X \cup O
         /\ made = {m \in M : m.what \in {"output", "receipt"}} /\ rest = M \ made
         /\ S = SumFunctionOnSet([k \in K |-> ord.materials[k].n], {k \in K : ord.materials[k].item = i})
  OBVIOUS
<1>3. /\ OnHand(Live, i, "store") = Stocked[i] - sold[i] + Put(Live, i, "store")
      /\ Stocked[i] \in Nat /\ sold[i] \in Nat /\ RowSet(Live)
  BY StoreHolds
<1>4. RowSet(B) /\ RowSet(M) /\ RowSet(N) /\ RowSet(made) /\ RowSet(rest)
  <2>1. RowSet(B) /\ RowSet(M)
    BY <1>2, <1>3, FS_Subset DEF RowSet
  <2>2. RowSet(N)
    BY <1>1, <1>2, FS_Union DEF RowSet
  <2> QED
    BY <1>2, <2>1, <2>2, FS_Subset DEF RowSet
<1>5. /\ Put(Live, i, "store") = Put(B, i, "store") + Put(M, i, "store")
      /\ Put(M, i, "store") = Put(made, i, "store") + Put(rest, i, "store")
      /\ Put(N, i, "store") = Put(X, i, "store") + Put(O, i, "store")
      /\ Put(B \cup N, i, "store") = Put(B, i, "store") + Put(N, i, "store")
  <2>1. /\ Live = B \cup M /\ B \cap M = {} /\ M = made \cup rest /\ made \cap rest = {}
        /\ N = X \cup O /\ X \cap O = {}
    BY <1>1, <1>2 DEF Apart
  <2>2. B \cap N = {}
    BY <1>1, <1>2 DEF MovesOf, Live
  <2> QED
    BY <1>1, <1>4, <2>1, <2>2, PutOfBoth DEF RowSet
<1>6. OnHand(Live, i, "store")' = Stocked[i] - sold[i] + Put(B \cup N, i, "store")
  BY <1>1, <1>2 DEF OnHand, Put
<1>7. /\ Put(B, i, "store") \in Int /\ Put(O, i, "store") \in Int /\ Put(O, i, "store") >= 0
      /\ Put(made, i, "store") \in Int
      /\ Put(rest, i, "store") \in Int /\ Put(rest, i, "store") =< 0
  <2>1. \A m \in AtPlace(O, i, "store") : m.n >= 0
    BY <1>1 DEF AtPlace
  <2>2. \A m \in AtPlace(rest, i, "store") : m.n =< 0
    <3>1. \A m \in rest : m \in Live /\ m.what \notin {"output", "receipt"}
      BY <1>2
    <3> QED
      BY <3>1, StoreSigns DEF AtPlace
  <2> QED
    BY <1>1, <1>4, <2>1, <2>2, PutSign
<1>8. Put(X, i, "store") = - S /\ S \in Nat
  <2>1. K \in SUBSET DOMAIN ord.materials
    BY <1>1
  <2> QED
    BY <1>1, <1>2, <2>1, IssuedOfStore
<1>9. CASE \E k \in K : d.materials[k].item = i
  <2>1. i \in {ord.materials[k].item : k \in K} /\ K # {}
    BY <1>1, <1>9
  <2>2. S =< OnHand(B, i, "store")
    BY <1>1, <1>2, <2>1 DEF CanIssue, NoShortage
  <2>3. OnHand(B, i, "store") = Stocked[i] - sold[i] + Put(B, i, "store")
    BY DEF OnHand
  <2>4. OnHand(Live, i, "store")' >= 0
    BY <1>3, <1>5, <1>6, <1>7, <1>8, <2>2, <2>3
  <2>5. OnHand(Live, i, "store")' \in Int
    BY <1>3, <1>5, <1>6, <1>7, <1>8
  <2> QED
    BY <2>4, <2>5 DEF StoreKept
<1>10. CASE ~ \E k \in K : d.materials[k].item = i
  <2>1. S = 0
    <3>1. {k \in K : ord.materials[k].item = i} = {}
      BY <1>1, <1>10
    <3> QED
      BY <1>2, <3>1, SumEmpty
  <2>2. /\ OnHand(Live, i, "store")' = OnHand(Live, i, "store") + Put(O, i, "store")
                - Put(made, i, "store") - Put(rest, i, "store")
        /\ OnHand(Live, i, "store") \in Int
    BY <1>3, <1>5, <1>6, <1>7, <1>8, <2>1
  <2>3. MadeOf(Live, o, i) = Put(made, i, "store")
    <3>1. {m \in Live : m.order = o /\ m.what \in {"output", "receipt"} /\ m.item = i}
            = AtPlace(made, i, "store")
      BY <1>2, StoreSigns DEF AtPlace, MovesOf, Live
    <3>2. Put(made, i, "store") = Total(AtPlace(made, i, "store"))
      BY <1>4, PutIsTotal DEF RowSet
    <3> QED
      BY <3>1, <3>2 DEF MadeOf
  <2>4. MadeOf(Live', o, i) = Put(O, i, "store")
    <3>1. {m \in Live' : m.order = o /\ m.what \in {"output", "receipt"} /\ m.item = i}
            = AtPlace(O, i, "store")
      BY <1>1 DEF AtPlace, MovesOf, Live
    <3>2. Put(O, i, "store") = Total(AtPlace(O, i, "store"))
      BY <1>1, PutIsTotal DEF RowSet
    <3> QED
      BY <3>1, <3>2 DEF MadeOf
  <2>5. StoreKept(i) \/ MakesLess(o, d, i)
    BY <1>1, <1>7, <1>10, <2>2, <2>3, <2>4 DEF StoreKept, MakesLess
  <2>6. ASSUME MovesOf(o) = {} PROVE StoreKept(i)
    <3>1. /\ AtPlace(made, i, "store") = {} /\ AtPlace(rest, i, "store") = {}
      BY <1>2, <2>6 DEF AtPlace
    <3>2. Put(made, i, "store") = 0 /\ Put(rest, i, "store") = 0
      BY <1>4, <3>1, PutSign
    <3> QED
      BY <1>7, <2>2, <3>2 DEF StoreKept
  <2> QED
    BY <2>5, <2>6
<1> QED
  BY <1>9, <1>10

LEMMA LeaveKept ==
  ProductionInv /\ [ProductionNext]_productionVars => [OverdrawnWithLeave]_productionVars
<1> SUFFICES ASSUME ProductionInv, [ProductionNext]_productionVars PROVE OverdrawnWithLeave
  OBVIOUS
<1>0. ASSUME \A i \in Item : StoreKept(i) PROVE OverdrawnWithLeave
  BY <1>0 DEF OverdrawnWithLeave, Overdraws, StoreKept
<1>1. ASSUME UNCHANGED <<moves, mirrored, sold>> PROVE OverdrawnWithLeave
  BY <1>0, <1>1, OthersKeepStore
<1>2. ASSUME NEW o \in Order, NEW d \in Draft, Create(o, d) \/ Update(o, d) PROVE OverdrawnWithLeave
  BY <1>1, <1>2 DEF Create, Update
<1>3. ASSUME NEW o \in Order, NEW d \in Draft, NEW negative \in BOOLEAN,
             CreateDone(o, d, negative) \/ EditDone(o, d, negative)
      PROVE  OverdrawnWithLeave
  <2>1. CASE CreateDone(o, d, FALSE)
    <3>1. MovesOf(o) = {}
      BY <2>1, Standing DEF CreateDone
    <3> QED
      BY <1>0, <2>1, <3>1, AnewWithoutLeave
  <2>2. CASE CreateDone(o, d, TRUE) /\ ~ CreateDone(o, d, FALSE)
    BY <2>2 DEF OverdrawnWithLeave
  <2>3. CASE EditDone(o, d, negative)
    <3>1. EditDone(o, d, TRUE)
      BY <2>3 DEF EditDone, ExecuteWith, CanIssue
    <3>2. \A i \in Item : EditDone(o, d, FALSE) => StoreKept(i) \/ MakesLess(o, d, i)
      BY AnewWithoutLeave
    <3> QED
      BY <3>1, <3>2 DEF OverdrawnWithLeave, Overdraws, StoreKept
  <2> QED
    BY <1>3, <2>1, <2>2, <2>3
<1>4. ASSUME NEW o \in Order, Delete(o) \/ Confirm(o) PROVE OverdrawnWithLeave
  BY <1>1, <1>4 DEF Delete, Confirm
<1>5. ASSUME NEW o \in Order, Start(o) \/ IssueQuality(o) PROVE OverdrawnWithLeave
  BY <1>0, <1>5, StageKeepsStore
<1>6. ASSUME NEW o \in Order, NEW n \in Output, NEW l \in ProductLine, Receive(o, l, n)
      PROVE  OverdrawnWithLeave
  BY <1>0, <1>6, ReceiveKeepsStore
<1>7. ASSUME NEW o \in Order, NEW m \in moves, UndoReceipt(o, m) PROVE OverdrawnWithLeave
  BY <1>0, <1>7, UndoKeepsStore
<1>8. ASSUME NEW o \in Order, order[o] # Null, NEW named \in Named(o), Execute(o, named)
      PROVE  OverdrawnWithLeave
  BY <1>0, <1>8, ExecuteKeepsStore
<1>9. ASSUME NEW o \in Order, NEW r \in Order, ReverseOrder(o, r) PROVE OverdrawnWithLeave
  BY <1>0, <1>9, ReverseKeepsStore
<1>10. ASSUME NEW j \in Item, Sell(j) PROVE OverdrawnWithLeave
  BY <1>0, <1>10, OthersKeepStore
<1>11. ASSUME SwitchPerpetual \/ UNCHANGED productionVars PROVE OverdrawnWithLeave
  BY <1>1, <1>11 DEF SwitchPerpetual, productionVars
<1> QED
  BY <1>2, <1>3, <1>4, <1>5, <1>6, <1>7, <1>8, <1>9, <1>10, <1>11 DEF ProductionNext

(* Whatever other orders stand, the store goes below zero, or further below *)
(* it, only by an order executed or edited with leave to that it could not  *)
(* have done without, or by one edited to make less of an item it does not  *)
(* use: never by starting, receiving, undoing or reversing one              *)
(* (_issue_materials, edit_done_order, undo_receipt, reverse_order).        *)
THEOREM OverdrawnOnlyWithLeave ==
  ProductionInit /\ [][ProductionNext]_productionVars => OverdrawnStep
<1>1. ProductionInit /\ [][ProductionNext]_productionVars => []ProductionInv
  BY ProductionInvStarts, ProductionInvKept, PTL
<1>2. ProductionInit /\ [][ProductionNext]_productionVars => [][OverdrawnWithLeave]_productionVars
  BY <1>1, LeaveKept, PTL
<1> QED
  BY <1>2 DEF OverdrawnStep

-----------------------------------------------------------------------------
(* Salaries: runs as sequences, what the posted lines come to, and what     *)
(* drafts and posted lines read of advances and adjustments.                *)

RunRows == UNION {RunRow(E) : E \in SUBSET Employee}

(* A payment covers lines of its run, all of them paid by it.               *)
PaidWhole(r) ==
    \A e \in DOMAIN r.lines : r.lines[e].payment # {} =>
        /\ r.status = "posted" /\ e \in r.lines[e].payment
        /\ r.lines[e].payment \subseteq DOMAIN r.lines
        /\ \A q \in r.lines[e].payment : r.lines[q].payment = r.lines[e].payment

(* The runs of a month, in order.                                           *)
RunsHeld(s) ==
    /\ s \in Seq(RunRows) /\ Len(s) =< MaxRuns
    /\ \A k \in 1..Len(s) : (s[k].status # "reversed" => k = Len(s)) /\ PaidWhole(s[k])

PostedAt(s, k) == k \in 1..Len(s) /\ s[k].status = "posted"
PostedKept(s, t) ==
    \A k \in Nat : (PostedAt(t, k) <=> PostedAt(s, k)) /\ (PostedAt(s, k) => t[k] = s[k])

LEMMA RunParts ==
  ASSUME NEW r \in RunRows
  PROVE  /\ r.status \in {"draft", "posted", "reversed"} /\ r.excluded \in SUBSET Employee
         /\ DOMAIN r.lines \in SUBSET Employee /\ r.lines \in [DOMAIN r.lines -> LineRow]
         /\ r = [status |-> r.status, excluded |-> r.excluded, lines |-> r.lines]
<1>1. PICK E \in SUBSET Employee : r \in RunRow(E)
  BY DEF RunRows
<1> QED
  BY <1>1 DEF RunRow

LEMMA RunMade ==
  ASSUME NEW E \in SUBSET Employee, NEW lines \in [E -> LineRow], NEW x \in SUBSET Employee,
         NEW status \in {"draft", "posted", "reversed"}
  PROVE  [status |-> status, excluded |-> x, lines |-> lines] \in RunRows
<1>1. [status |-> status, excluded |-> x, lines |-> lines] \in RunRow(E)
  BY DEF RunRow
<1> QED
  BY <1>1 DEF RunRows

(* A run takes the place of the newest.                                     *)
Renewed(s, r) == [s EXCEPT ![Len(s)] = r]

LEMMA NewestReplaced ==
  ASSUME NEW s, RunsHeld(s), Len(s) > 0, NEW r \in RunRows, PaidWhole(r),
         NEW t, t = Renewed(s, r)
  PROVE  /\ RunsHeld(t) /\ Len(t) = Len(s) /\ t[Len(s)] = r
         /\ \A k \in 1..Len(s) : k # Len(s) => t[k] = s[k] /\ s[k].status = "reversed"
<1>1. s \in Seq(RunRows) /\ Len(s) \in 1..Len(s) /\ Len(s) \in Nat
  BY LenProperties DEF RunsHeld
<1>2. t \in Seq(RunRows) /\ Len(t) = Len(s) /\ \A k \in 1..Len(s) : t[k] = IF k = Len(s) THEN r ELSE s[k]
  BY <1>1, ExceptSeq DEF Renewed
<1> QED
  BY <1>1, <1>2 DEF RunsHeld

LEMMA DraftReplaced ==
  ASSUME NEW s, RunsHeld(s), Len(s) > 0, s[Len(s)].status = "draft", NEW r \in RunRows,
         r.status = "draft", \A e \in DOMAIN r.lines : r.lines[e].payment = {},
         NEW t, t = Renewed(s, r)
  PROVE  RunsHeld(t) /\ PostedKept(s, t) /\ Len(t) = Len(s) /\ t[Len(t)] = r
<1>1. PaidWhole(r)
  BY DEF PaidWhole
<1>2. /\ RunsHeld(t) /\ Len(t) = Len(s) /\ t[Len(s)] = r
      /\ \A k \in 1..Len(s) : k # Len(s) => t[k] = s[k] /\ s[k].status = "reversed"
  BY ONLY <1>1, RunsHeld(s), Len(s) > 0, r \in RunRows, t = Renewed(s, r), NewestReplaced
<1> QED
  BY <1>2 DEF PostedKept, PostedAt

LEMMA DraftAppended ==
  ASSUME NEW s, RunsHeld(s), Len(s) = 0 \/ s[Len(s)].status = "reversed", Len(s) < MaxRuns,
         NEW r \in RunRows, r.status = "draft", \A e \in DOMAIN r.lines : r.lines[e].payment = {},
         NEW t, t = Append(s, r)
  PROVE  RunsHeld(t) /\ PostedKept(s, t) /\ Len(t) = Len(s) + 1 /\ t[Len(t)] = r
<1>1. s \in Seq(RunRows) /\ Len(s) \in Nat /\ MaxRuns \in Nat
  BY LenProperties, PayrollAssumption DEF RunsHeld
<1>2. /\ t \in Seq(RunRows) /\ Len(t) = Len(s) + 1 /\ t[Len(s) + 1] = r
      /\ \A k \in 1..Len(s) : t[k] = s[k]
  BY <1>1, AppendProperties
<1>3. PaidWhole(r)
  BY DEF PaidWhole
<1>4. \A k \in 1..Len(s) : s[k].status = "reversed"
  BY <1>1 DEF RunsHeld
<1>5. RunsHeld(t)
  <2>1. ASSUME NEW k \in 1..Len(t) PROVE (t[k].status # "reversed" => k = Len(t)) /\ PaidWhole(t[k])
    <3>1. CASE k = Len(t)
      BY <1>2, <1>3, <3>1
    <3>2. CASE k # Len(t)
      <4>1. k \in 1..Len(s)
        BY <1>1, <1>2, <3>2
      <4> QED
        BY <1>2, <1>4, <4>1 DEF RunsHeld
    <3> QED
      BY <3>1, <3>2
  <2> QED
    BY <1>1, <1>2, <2>1 DEF RunsHeld
<1>6. PostedKept(s, t)
  BY <1>1, <1>2, <1>4 DEF PostedKept, PostedAt
<1> QED
  BY <1>2, <1>5, <1>6

LEMMA DraftDropped ==
  ASSUME NEW s, RunsHeld(s), Len(s) > 0, s[Len(s)].status = "draft",
         NEW t, t = Front(s)
  PROVE  RunsHeld(t) /\ PostedKept(s, t) /\ Len(t) = Len(s) - 1
         /\ \A k \in 1..Len(t) : t[k].status = "reversed"
<1>1. s \in Seq(RunRows) /\ Len(s) \in Nat /\ Len(s) - 1 \in Nat
  BY LenProperties DEF RunsHeld
<1>2. /\ t \in Seq(RunRows) /\ Len(t) = Len(s) - 1
      /\ \A k \in 1..(Len(s) - 1) : t[k] = s[k] /\ k \in 1..Len(s) /\ k # Len(s)
  <2>1. \A k \in 1..(Len(s) - 1) : s[k] \in RunRows /\ k \in 1..Len(s) /\ k # Len(s)
    BY <1>1, ElementOfSeq
  <2>2. t = SubSeq(s, 1, Len(s) - 1)
    BY DEF Front
  <2>3. Len(s) > 0 /\ Len(s) - 1 \in Int /\ 1 \in Int
    BY <1>1
  <2>4. PICK n \in Nat : n = Len(s) - 1
    BY <1>1
  <2>5. \A k \in 1..n : s[k] \in RunRows
    BY <2>1, <2>4
  <2>6. 1 \in Int /\ n \in Int /\ (IF 1 =< n THEN n - 1 + 1 ELSE 0) = n /\ n - 1 + 1 = n
    BY ONLY <2>4
  <2>7. t = SubSeq(s, 1, n)
    BY ONLY <2>2, <2>4
  <2>8. /\ t \in Seq(RunRows) /\ Len(t) = n
        /\ \A k \in 1..(n - 1 + 1) : t[k] = s[1 + k - 1]
    BY ONLY <2>5, <2>6, <2>7, SubSeqProperties
  <2>9. ASSUME NEW k \in 1..n PROVE t[k] = s[k]
    <3>1. k \in 1..(n - 1 + 1) /\ 1 + k - 1 = k
      BY ONLY <2>6, k \in 1..n, n \in Nat
    <3> QED
      BY <2>8, <3>1
  <2> QED
    BY ONLY <2>1, <2>4, <2>8, <2>9
<1>3. \A k \in 1..Len(t) : t[k].status = "reversed"
  BY <1>1, <1>2 DEF RunsHeld
<1>4. RunsHeld(t)
  BY <1>1, <1>2, <1>3, PayrollAssumption DEF RunsHeld
<1>5. PostedKept(s, t)
  BY <1>1, <1>2, <1>3 DEF PostedKept, PostedAt
<1> QED
  BY <1>2, <1>3, <1>4, <1>5

(* The lines of posted runs among rs, and the line of a reference.          *)
LinesPosted(rs) ==
    {r \in RefRow : /\ PostedAt(rs[r.month], r.run)
                    /\ r.employee \in DOMAIN rs[r.month][r.run].lines}
LineAt(rs, r) == rs[r.month][r.run].lines[r.employee]

AllRuns(rs) == rs = [m \in Month |-> rs[m]] /\ \A m \in Month : RunsHeld(rs[m])

DraftsOnly(rs, ts) == AllRuns(ts) /\ \A m \in Month : PostedKept(rs[m], ts[m])

LEMMA RefParts ==
  ASSUME NEW r \in RefRow
  PROVE  r.month \in Month /\ r.run \in 1..MaxRuns /\ r.employee \in Employee
         /\ r.run \in Nat /\ r = Ref(r.month, r.run, r.employee)
BY PayrollAssumption DEF RefRow, Ref

LEMMA RunAt ==
  ASSUME NEW s, RunsHeld(s), NEW k \in 1..Len(s)
  PROVE  s[k] \in RunRows
BY ElementOfSeq DEF RunsHeld

LEMMA PostedLineIs ==
  ASSUME NEW rs, AllRuns(rs), NEW r \in LinesPosted(rs)
  PROVE  LineAt(rs, r) \in LineRow
<1>1. r \in RefRow /\ r.month \in Month /\ PostedAt(rs[r.month], r.run)
      /\ r.employee \in DOMAIN rs[r.month][r.run].lines
  BY RefParts DEF LinesPosted
<1>2. RunsHeld(rs[r.month]) /\ r.run \in 1..Len(rs[r.month])
  BY <1>1 DEF AllRuns, PostedAt
<1>3. rs[r.month][r.run] \in RunRows
  BY <1>2, RunAt
<1> QED
  BY <1>1, <1>3, RunParts DEF LineAt

LEMMA LineParts ==
  ASSUME NEW l \in LineRow
  PROVE  /\ l.deducted \in Int /\ l.bonus \in Nat /\ l.penalty \in Nat /\ l.extra \in Int
         /\ l.net \in Int /\ l.payment \in SUBSET Employee
BY DEF LineRow

(* What only drafts know changes no posted line.                            *)
LEMMA PostedLinesStay ==
  ASSUME NEW rs, NEW ts, \A m \in Month : PostedKept(rs[m], ts[m])
  PROVE  /\ LinesPosted(ts) = LinesPosted(rs)
         /\ \A r \in LinesPosted(rs) : LineAt(ts, r) = LineAt(rs, r)
<1>1. ASSUME NEW r \in RefRow
      PROVE  /\ PostedAt(ts[r.month], r.run) <=> PostedAt(rs[r.month], r.run)
             /\ PostedAt(rs[r.month], r.run) => ts[r.month][r.run] = rs[r.month][r.run]
  BY RefParts DEF PostedKept
<1> QED
  BY <1>1 DEF LinesPosted, LineAt

LEMMA RefsFinite == IsFiniteSet(RefRow)
<1>1. IsFiniteSet(1..MaxRuns)
  <2>1. 1 \in Int /\ MaxRuns \in Int
    BY PayrollAssumption
  <2> QED
    BY <2>1, FS_Interval
<1>2. IsFiniteSet(Month \X (1..MaxRuns))
  BY <1>1, PayrollAssumption, FS_Product
<1>3. IsFiniteSet((Month \X (1..MaxRuns)) \X Employee)
  BY <1>2, PayrollAssumption, FS_Product
<1> DEFINE f == [t \in (Month \X (1..MaxRuns)) \X Employee |-> Ref(t[1][1], t[1][2], t[2])]
<1>4. f \in Surjection((Month \X (1..MaxRuns)) \X Employee, RefRow)
  <2>1. \A t \in (Month \X (1..MaxRuns)) \X Employee : f[t] \in RefRow
    BY DEF Ref, RefRow
  <2>2. ASSUME NEW r \in RefRow PROVE \E t \in (Month \X (1..MaxRuns)) \X Employee : f[t] = r
    <3>1. <<<<r.month, r.run>>, r.employee>> \in (Month \X (1..MaxRuns)) \X Employee
      BY RefParts
    <3>2. f[<<<<r.month, r.run>>, r.employee>>] = r
      BY <3>1, RefParts
    <3> QED
      BY <3>1, <3>2
  <2> QED
    BY <2>1, <2>2 DEF Surjection
<1> QED
  BY <1>3, <1>4, FS_Surjection

LEMMA PostedFinite ==
  ASSUME NEW rs
  PROVE  IsFiniteSet(LinesPosted(rs)) /\ LinesPosted(rs) \subseteq RefRow
<1>1. LinesPosted(rs) \subseteq RefRow
  BY DEF LinesPosted
<1> QED
  BY <1>1, RefsFinite, FS_Subset

(* References to the lines E of one run.                                    *)
RefsOf(m, k, E) == {Ref(m, k, e) : e \in E}

LEMMA RefDiffers ==
  /\ \A m, k, e : Ref(m, k, e).month = m /\ Ref(m, k, e).run = k /\ Ref(m, k, e).employee = e
  /\ \A m, k, e, q : Ref(m, k, e) = Ref(m, k, q) => e = q
<1>1. \A m, k, e : Ref(m, k, e).month = m /\ Ref(m, k, e).run = k /\ Ref(m, k, e).employee = e
  BY DEF Ref
<1> QED
  BY <1>1

(* References to lines of one run come to a set that they were not in: g is *)
(* f on A, and h on the new ones.                                           *)
Joined(A, f, m, k, E, g, h) ==
    /\ IsFiniteSet(A) /\ IsFiniteSet(E) /\ A \cap RefsOf(m, k, E) = {}
    /\ \A r \in A : f[r] \in Int /\ g[r] = f[r]
    /\ \A e \in E : h[e] \in Int /\ g[Ref(m, k, e)] = h[e]

LEMMA SumOfRefs ==
  ASSUME NEW A, NEW f, NEW m, NEW k, NEW E, NEW g, NEW h, Joined(A, f, m, k, E, g, h)
  PROVE  /\ SumFunctionOnSet(g, A \cup RefsOf(m, k, E))
              = SumFunctionOnSet(f, A) + SumFunctionOnSet(h, E)
         /\ SumFunctionOnSet(f, A) \in Int /\ SumFunctionOnSet(h, E) \in Int
<1>0. /\ IsFiniteSet(A) /\ IsFiniteSet(E) /\ A \cap RefsOf(m, k, E) = {}
      /\ \A r \in A : f[r] \in Int /\ g[r] = f[r]
      /\ \A e \in E : h[e] \in Int /\ g[Ref(m, k, e)] = h[e]
  BY DEF Joined
<1> DEFINE w == [e \in E |-> Ref(m, k, e)]
<1>1. \A e \in E : w[e] = Ref(m, k, e)
  OBVIOUS
<1>2. RefsOf(m, k, E) = {w[e] : e \in E}
  BY <1>1 DEF RefsOf
<1>3. w \in Surjection(E, RefsOf(m, k, E))
  BY <1>2 DEF Surjection
<1>4. (\A x, y \in E : w[x] = w[y] => x = y) /\ \A e \in E : g[w[e]] \in Int /\ h[e] = g[w[e]]
  BY <1>0, <1>1, RefDiffers
<1> HIDE DEF w
<1>5. IsFiniteSet(RefsOf(m, k, E))
  BY <1>0, <1>3, FS_Surjection
<1>6. SumFunctionOnSet(g, RefsOf(m, k, E)) = SumFunctionOnSet(h, E)
  BY <1>0, <1>2, <1>4, SumMapped
<1> DEFINE B == A \cup RefsOf(m, k, E)
<1>7. IsFiniteSet(B) /\ A \in SUBSET B /\ B \ A = RefsOf(m, k, E)
  BY <1>0, <1>5, FS_Union
<1>8. \A r \in B : g[r] \in Int
  BY <1>0 DEF RefsOf
<1> HIDE DEF B
<1>9. SumFunctionOnSet(g, B) = SumFunctionOnSet(g, A) + SumFunctionOnSet(g, B \ A)
  BY ONLY <1>7, <1>8, SumSplit
<1>10. SumFunctionOnSet(g, A) = SumFunctionOnSet(f, A)
  BY <1>0, SumSame
<1>11. SumFunctionOnSet(f, A) \in Int /\ SumFunctionOnSet(h, E) \in Int
  BY <1>0, SumInt
<1> QED
  BY <1>6, <1>7, <1>9, <1>10, <1>11 DEF B

(* What the books say, of given advances and runs.                          *)
Granted(adv) == {a \in Advance : adv[a] # Null}
Owing(adv) == SumFunctionOnSet([a \in Granted(adv) |-> Amount(adv[a])], Granted(adv))
HeldBack(rs) ==
    SumFunctionOnSet([r \in LinesPosted(rs) |-> LineAt(rs, r).deducted], LinesPosted(rs))
UnpaidLines(rs) == {r \in LinesPosted(rs) : LineAt(rs, r).payment = {}}
Payable(rs) == SumFunctionOnSet([r \in UnpaidLines(rs) |-> LineAt(rs, r).net], UnpaidLines(rs))
Insured(rs) == SumFunctionOnSet([r \in UnpaidLines(rs) |-> Insurance[r.employee]], UnpaidLines(rs))

BooksSay(bk, adv, rs) ==
    /\ bk \in [Accounts -> Int]
    /\ bk["advances"] = Owing(adv) - HeldBack(rs)
    /\ bk["payable"] = Payable(rs)
    /\ bk["insurance"] = Insured(rs)

LEMMA BooksStay ==
  ASSUME NEW rs, NEW ts, \A m \in Month : PostedKept(rs[m], ts[m])
  PROVE  HeldBack(ts) = HeldBack(rs) /\ Payable(ts) = Payable(rs) /\ Insured(ts) = Insured(rs)
<1>1. LinesPosted(ts) = LinesPosted(rs) /\ \A r \in LinesPosted(rs) : LineAt(ts, r) = LineAt(rs, r)
  BY PostedLinesStay
<1>2. UnpaidLines(ts) = UnpaidLines(rs) /\ IsFiniteSet(LinesPosted(rs))
  BY <1>1, PostedFinite DEF UnpaidLines
<1>3. HeldBack(ts) = HeldBack(rs)
  <2> DEFINE f == [r \in LinesPosted(rs) |-> LineAt(ts, r).deducted]
             g == [r \in LinesPosted(rs) |-> LineAt(rs, r).deducted]
  <2>1. \A r \in LinesPosted(rs) : f[r] = g[r]
    BY <1>1
  <2> HIDE DEF f, g
  <2>2. SumFunctionOnSet(f, LinesPosted(rs)) = SumFunctionOnSet(g, LinesPosted(rs))
    BY <1>2, <2>1, SumSame
  <2> QED
    BY <1>1, <2>2 DEF HeldBack, f, g
<1>4. Payable(ts) = Payable(rs)
  <2> DEFINE f == [r \in UnpaidLines(rs) |-> LineAt(ts, r).net]
             g == [r \in UnpaidLines(rs) |-> LineAt(rs, r).net]
  <2>1. \A r \in UnpaidLines(rs) : f[r] = g[r]
    BY <1>1 DEF UnpaidLines
  <2>2. IsFiniteSet(UnpaidLines(rs))
    BY <1>2, FS_Subset DEF UnpaidLines
  <2> HIDE DEF f, g
  <2>3. SumFunctionOnSet(f, UnpaidLines(rs)) = SumFunctionOnSet(g, UnpaidLines(rs))
    BY <2>1, <2>2, SumSame
  <2> QED
    BY <1>2, <2>3 DEF Payable, f, g
<1>5. Insured(ts) = Insured(rs)
  BY <1>2 DEF Insured
<1> QED
  BY <1>3, <1>4, <1>5

(* Lines E of one run come to be unpaid in ts, and none else.               *)
LEMMA UnpaidGains ==
  ASSUME NEW rs, AllRuns(rs), NEW ts, AllRuns(ts), NEW E \in SUBSET Employee, NEW m, NEW k,
         UnpaidLines(ts) = UnpaidLines(rs) \cup RefsOf(m, k, E), UnpaidLines(rs) \cap RefsOf(m, k, E) = {},
         \A r \in UnpaidLines(rs) : LineAt(ts, r).net = LineAt(rs, r).net,
         NEW net, \A e \in E : net[e] = LineAt(ts, Ref(m, k, e)).net
  PROVE  /\ Payable(ts) = Payable(rs) + SumFunctionOnSet(net, E)
         /\ Insured(ts) = Insured(rs) + SumFunctionOnSet(Insurance, E)
         /\ Payable(rs) \in Int /\ SumFunctionOnSet(net, E) \in Int
         /\ Insured(rs) \in Int /\ SumFunctionOnSet(Insurance, E) \in Int
<1> DEFINE A == UnpaidLines(rs)
           B == UnpaidLines(ts)
<1>1. IsFiniteSet(E) /\ IsFiniteSet(A) /\ IsFiniteSet(B)
  BY PayrollAssumption, PostedFinite, FS_Subset DEF UnpaidLines
<1>2. \A e \in E : Ref(m, k, e) \in B /\ Ref(m, k, e).employee = e
  BY RefDiffers DEF RefsOf
<1>3. (\A r \in A : LineAt(rs, r).net \in Int) /\ (\A r \in B : LineAt(ts, r).net \in Int)
  BY PostedLineIs, LineParts DEF UnpaidLines
<1>4. \A r \in B : Insurance[r.employee] \in Int
  BY PostedFinite, RefParts, PayrollAssumption DEF UnpaidLines
<1>5. B = A \cup RefsOf(m, k, E) /\ A \cap RefsOf(m, k, E) = {}
  OBVIOUS
<1>6. \A r \in A : LineAt(ts, r).net = LineAt(rs, r).net
  OBVIOUS
<1> DEFINE f == [r \in A |-> LineAt(rs, r).net]
           g == [r \in B |-> LineAt(ts, r).net]
           p == [r \in A |-> Insurance[r.employee]]
           q == [r \in B |-> Insurance[r.employee]]
<1>7. Payable(rs) = SumFunctionOnSet(f, A) /\ Payable(ts) = SumFunctionOnSet(g, B)
      /\ Insured(rs) = SumFunctionOnSet(p, A) /\ Insured(ts) = SumFunctionOnSet(q, B)
  BY DEF Payable, Insured
<1> HIDE DEF A, B
<1>8. /\ \A r \in A : f[r] \in Int /\ g[r] = f[r] /\ p[r] \in Int /\ q[r] = p[r]
      /\ \A e \in E : /\ net[e] \in Int /\ g[Ref(m, k, e)] = net[e]
                      /\ Insurance[e] \in Int /\ q[Ref(m, k, e)] = Insurance[e]
  BY <1>2, <1>3, <1>4, <1>5, <1>6
<1> HIDE DEF f, g, p, q
<1>9. /\ SumFunctionOnSet(g, B) = SumFunctionOnSet(f, A) + SumFunctionOnSet(net, E)
      /\ SumFunctionOnSet(f, A) \in Int /\ SumFunctionOnSet(net, E) \in Int
  <2>1. Joined(A, f, m, k, E, g, net)
    BY <1>1, <1>5, <1>8 DEF Joined
  <2> QED
    BY ONLY <1>5, <2>1, SumOfRefs
<1>10. /\ SumFunctionOnSet(q, B) = SumFunctionOnSet(p, A) + SumFunctionOnSet(Insurance, E)
       /\ SumFunctionOnSet(p, A) \in Int /\ SumFunctionOnSet(Insurance, E) \in Int
  <2>1. Joined(A, p, m, k, E, q, Insurance)
    BY <1>1, <1>5, <1>8 DEF Joined
  <2> QED
    BY ONLY <1>5, <2>1, SumOfRefs
<1> QED
  BY <1>7, <1>9, <1>10

(* The lines of a run come to be posted.                                    *)
LEMMA HeldBackGains ==
  ASSUME NEW rs, AllRuns(rs), NEW ts, AllRuns(ts), NEW E \in SUBSET Employee, NEW m, NEW k,
         LinesPosted(ts) = LinesPosted(rs) \cup RefsOf(m, k, E),
         LinesPosted(rs) \cap RefsOf(m, k, E) = {},
         \A r \in LinesPosted(rs) : LineAt(ts, r).deducted = LineAt(rs, r).deducted,
         NEW cut, \A e \in E : cut[e] = LineAt(ts, Ref(m, k, e)).deducted
  PROVE  /\ HeldBack(ts) = HeldBack(rs) + SumFunctionOnSet(cut, E)
         /\ HeldBack(rs) \in Int /\ SumFunctionOnSet(cut, E) \in Int
<1> DEFINE A == LinesPosted(rs)
           B == LinesPosted(ts)
<1>1. IsFiniteSet(E) /\ IsFiniteSet(A)
  BY PayrollAssumption, PostedFinite, FS_Subset
<1>2. \A e \in E : Ref(m, k, e) \in B
  BY DEF RefsOf
<1>3. (\A r \in A : LineAt(rs, r).deducted \in Int) /\ (\A r \in B : LineAt(ts, r).deducted \in Int)
  BY PostedLineIs, LineParts
<1>4. B = A \cup RefsOf(m, k, E) /\ A \cap RefsOf(m, k, E) = {}
  OBVIOUS
<1> DEFINE f == [r \in A |-> LineAt(rs, r).deducted]
           g == [r \in B |-> LineAt(ts, r).deducted]
<1>5. HeldBack(rs) = SumFunctionOnSet(f, A) /\ HeldBack(ts) = SumFunctionOnSet(g, B)
  BY DEF HeldBack
<1> HIDE DEF A, B
<1>6. /\ \A r \in A : f[r] \in Int /\ g[r] = f[r]
      /\ \A e \in E : cut[e] \in Int /\ g[Ref(m, k, e)] = cut[e]
  <2>1. \A r \in A : LineAt(ts, r).deducted = LineAt(rs, r).deducted
    BY DEF A
  <2> QED
    BY <1>2, <1>3, <1>4, <2>1
<1> HIDE DEF f, g
<1>7. /\ SumFunctionOnSet(g, B) = SumFunctionOnSet(f, A) + SumFunctionOnSet(cut, E)
      /\ SumFunctionOnSet(f, A) \in Int /\ SumFunctionOnSet(cut, E) \in Int
  <2>1. Joined(A, f, m, k, E, g, cut)
    BY <1>1, <1>4, <1>6 DEF Joined
  <2> QED
    BY ONLY <1>4, <2>1, SumOfRefs
<1> QED
  BY <1>5, <1>7

(* An advance whose taken instalments name lines of P.                      *)
AdvanceHeld(r, P) ==
    /\ \E M \in SUBSET Month : r \in AdvanceRow(M)
    /\ \A m \in DOMAIN r.taken : r.taken[m] # Null =>
          r.taken[m] \in P /\ r.taken[m].month = m /\ r.taken[m].employee = r.employee
    /\ r.status = "settled" => \A m \in DOMAIN r.taken : r.taken[m] # Null
    /\ r.status = "active" => \E m \in DOMAIN r.taken : r.taken[m] = Null
    /\ r.status = "cancelled" => DOMAIN r.taken = {}
AdvancesHeld(adv, P) ==
    /\ adv = [a \in Advance |-> adv[a]]
    /\ \A a \in Advance : adv[a] # Null => AdvanceHeld(adv[a], P)

AdjustmentHeld(r, P) ==
    /\ r \in AdjustmentRow
    /\ r.taken # Null => /\ r.taken \in P /\ r.status = "approved"
                         /\ r.taken.month = r.month /\ r.taken.employee = r.employee
AdjustmentsHeld(adj, P) ==
    /\ adj = [x \in Adjustment |-> adj[x]]
    /\ \A x \in Adjustment : adj[x] # Null => AdjustmentHeld(adj[x], P)

PayrollInv ==
    /\ AllRuns(runs)
    /\ AdvancesHeld(advance, LinesPosted(runs)) /\ AdjustmentsHeld(adjustment, LinesPosted(runs))
    /\ BooksSay(books, advance, runs)

LEMMA AdvanceParts ==
  ASSUME NEW P, NEW r, AdvanceHeld(r, P)
  PROVE  /\ r.employee \in Employee /\ r.status \in {"active", "settled", "cancelled"}
         /\ DOMAIN r.parts \in SUBSET Month /\ DOMAIN r.taken = DOMAIN r.parts
         /\ r.parts \in [DOMAIN r.parts -> Int]
         /\ r.taken \in [DOMAIN r.parts -> RefRow \cup {Null}]
         /\ r = [employee |-> r.employee, status |-> r.status, parts |-> r.parts, taken |-> r.taken]
         /\ IsFiniteSet(DOMAIN r.parts) /\ Amount(r) \in Int
<1>1. PICK M \in SUBSET Month : r \in AdvanceRow(M)
  BY DEF AdvanceHeld
<1>2. /\ r.employee \in Employee /\ r.status \in {"active", "settled", "cancelled"}
      /\ r.parts \in [M -> Int] /\ r.taken \in [M -> RefRow \cup {Null}]
      /\ r = [employee |-> r.employee, status |-> r.status, parts |-> r.parts, taken |-> r.taken]
  BY <1>1 DEF AdvanceRow
<1>3. IsFiniteSet(M)
  BY PayrollAssumption, FS_Subset
<1>4. Amount(r) \in Int
  <2>1. \A m \in DOMAIN r.parts : r.parts[m] \in Int
    BY <1>2
  <2> QED
    BY <1>2, <1>3, <2>1, SumInt DEF Amount
<1> QED
  BY <1>2, <1>3, <1>4

LEMMA AdvanceMade ==
  ASSUME NEW M \in SUBSET Month, NEW e \in Employee, NEW parts \in [M -> Int],
         NEW taken \in [M -> RefRow \cup {Null}], NEW status \in {"active", "settled", "cancelled"},
         NEW r, r = [employee |-> e, status |-> status, parts |-> parts, taken |-> taken]
  PROVE  /\ \E K \in SUBSET Month : r \in AdvanceRow(K)
         /\ r.employee = e /\ r.status = status /\ r.parts = parts /\ r.taken = taken
<1>1. r \in AdvanceRow(M)
  BY DEF AdvanceRow
<1> QED
  BY <1>1

Worth(r) == IF r = Null THEN 0 ELSE Amount(r)

LEMMA OwingIs ==
  ASSUME NEW adv, NEW P, AdvancesHeld(adv, P)
  PROVE  /\ \A a \in Advance : Worth(adv[a]) \in Int
         /\ Owing(adv) = SumFunctionOnSet([a \in Advance |-> Worth(adv[a])], Advance)
<1>1. \A a \in Granted(adv) : a \in Advance /\ Amount(adv[a]) \in Int /\ adv[a] # Null
  BY AdvanceParts DEF Granted, AdvancesHeld
<1>2. \A a \in Advance : Worth(adv[a]) = IF a \in Granted(adv) THEN Amount(adv[a]) ELSE 0
  BY DEF Worth, Granted
<1> DEFINE f == [a \in Granted(adv) |-> Amount(adv[a])]
           g == [a \in Advance |-> IF a \in Granted(adv) THEN f[a] ELSE 0]
           h == [a \in Advance |-> Worth(adv[a])]
<1>3. Granted(adv) \in SUBSET Advance /\ (\A a \in Granted(adv) : f[a] \in Int)
  BY <1>1
<1>4. g = h
  BY <1>2
<1>5. SumFunctionOnSet(f, Granted(adv)) = SumFunctionOnSet(g, Advance)
  <2> HIDE DEF f
  <2> QED
    BY <1>3, PayrollAssumption, SumExtended
<1> QED
  BY <1>1, <1>2, <1>4, <1>5 DEF Owing

LEMMA OwingInt ==
  ASSUME NEW adv, NEW P, AdvancesHeld(adv, P)
  PROVE  Owing(adv) \in Int
<1>1. IsFiniteSet(Advance) /\ \A a \in Advance : Worth(adv[a]) \in Int
  BY OwingIs, PayrollAssumption
<1> DEFINE f == [a \in Advance |-> Worth(adv[a])]
<1>2. \A a \in Advance : f[a] \in Int
  BY <1>1
<1> HIDE DEF f
<1>3. SumFunctionOnSet(f, Advance) \in Int
  BY <1>1, <1>2, SumInt
<1> QED
  BY <1>3, OwingIs DEF f

LEMMA OwingChanges ==
  ASSUME NEW adv, NEW P, AdvancesHeld(adv, P), NEW bdv, NEW Q, AdvancesHeld(bdv, Q),
         NEW a \in Advance, \A b \in Advance : b # a => bdv[b] = adv[b]
  PROVE  /\ Owing(bdv) = Owing(adv) + Worth(bdv[a]) - Worth(adv[a])
         /\ Owing(adv) \in Int /\ Worth(bdv[a]) \in Int /\ Worth(adv[a]) \in Int
<1> DEFINE f == [b \in Advance |-> Worth(adv[b])]
           g == [b \in Advance |-> Worth(bdv[b])]
<1>1. /\ \A b \in Advance : Worth(adv[b]) \in Int /\ Worth(bdv[b]) \in Int
      /\ Owing(adv) = SumFunctionOnSet(f, Advance) /\ Owing(bdv) = SumFunctionOnSet(g, Advance)
  BY OwingIs
<1>2. IsFiniteSet(Advance)
  BY PayrollAssumption
<1>3. /\ \A b \in Advance : f[b] \in Int
      /\ g[a] \in Int /\ \A b \in Advance \ {a} : g[b] = f[b]
      /\ f[a] = Worth(adv[a]) /\ g[a] = Worth(bdv[a])
  BY <1>1
<1> HIDE DEF f, g
<1>4. SumFunctionOnSet(g, Advance) = SumFunctionOnSet(f, Advance) + g[a] - f[a]
  BY <1>2, <1>3, SumChange
<1>5. SumFunctionOnSet(f, Advance) \in Int
  BY <1>2, <1>3, SumInt
<1> QED
  BY <1>1, <1>3, <1>4, <1>5

LEMMA OwingSame ==
  ASSUME NEW adv, NEW P, AdvancesHeld(adv, P), NEW bdv, NEW Q, AdvancesHeld(bdv, Q),
         \A b \in Advance : Worth(bdv[b]) = Worth(adv[b])
  PROVE  Owing(bdv) = Owing(adv)
<1>1. [b \in Advance |-> Worth(adv[b])] = [b \in Advance |-> Worth(bdv[b])]
  OBVIOUS
<1> QED
  BY <1>1, OwingIs

(* One advance is entered, changed or cancelled.                            *)
LEMMA AdvanceChanged ==
  ASSUME PayrollInv, NEW a \in Advance, NEW r, AdvanceHeld(r, LinesPosted(runs)),
         r # Null, advance' = [advance EXCEPT ![a] = r],
         books' = [books EXCEPT !["advances"] = @ + Worth(r) - Worth(advance[a])],
         UNCHANGED <<adjustment, runs>>
  PROVE  PayrollInv'
<1>1. /\ AllRuns(runs) /\ AdvancesHeld(advance, LinesPosted(runs))
      /\ AdjustmentsHeld(adjustment, LinesPosted(runs)) /\ BooksSay(books, advance, runs)
  BY DEF PayrollInv
<1>2. /\ advance' = [b \in Advance |-> advance'[b]] /\ advance'[a] = r
      /\ \A b \in Advance : b # a => advance'[b] = advance[b]
  BY <1>1 DEF AdvancesHeld
<1>3. AdvancesHeld(advance', LinesPosted(runs))
  BY <1>1, <1>2 DEF AdvancesHeld
<1>4. /\ Owing(advance') = Owing(advance) + Worth(r) - Worth(advance[a])
      /\ Owing(advance) \in Int /\ Worth(r) \in Int /\ Worth(advance[a]) \in Int
  BY <1>1, <1>2, <1>3, OwingChanges
<1>5. books' \in [Accounts -> Int] /\ books'["advances"] = books["advances"] + Worth(r) - Worth(advance[a])
      /\ books'["payable"] = books["payable"] /\ books'["insurance"] = books["insurance"]
      /\ books["advances"] \in Int
  BY <1>1, <1>4 DEF BooksSay, Accounts
<1>6. BooksSay(books', advance', runs)
  <2>1. books["advances"] = Owing(advance) - HeldBack(runs) /\ HeldBack(runs) \in Int
    <3>1. IsFiniteSet(LinesPosted(runs)) /\ \A q \in LinesPosted(runs) : LineAt(runs, q).deducted \in Int
      BY <1>1, PostedFinite, PostedLineIs, LineParts
    <3> DEFINE f == [q \in LinesPosted(runs) |-> LineAt(runs, q).deducted]
    <3>2. \A q \in LinesPosted(runs) : f[q] \in Int
      BY <3>1
    <3> HIDE DEF f
    <3>3. SumFunctionOnSet(f, LinesPosted(runs)) \in Int
      BY <3>1, <3>2, SumInt
    <3> QED
      BY <1>1, <3>3 DEF BooksSay, HeldBack, f
  <2> QED
    BY <1>1, <1>4, <1>5, <2>1 DEF BooksSay
<1> QED
  BY <1>1, <1>3, <1>6 DEF PayrollInv

(* What changed is not taken, before or after.                              *)
NothingTaken(r) == r = Null \/ \A m \in DOMAIN r.taken : r.taken[m] = Null
UntakenAdvances(adv, bdv) ==
    \A a \in Advance : bdv[a] = adv[a] \/ (NothingTaken(adv[a]) /\ NothingTaken(bdv[a]))
UntakenAdjustments(adj, bdj) ==
    \A x \in Adjustment : \/ bdj[x] = adj[x]
                          \/ /\ adj[x] = Null \/ adj[x].taken = Null
                             /\ bdj[x] # Null /\ bdj[x].taken = Null

LEMMA PlanParts ==
  ASSUME NEW plan \in Plan
  PROVE  /\ DOMAIN plan \in SUBSET Month /\ DOMAIN plan # {} /\ plan \in [DOMAIN plan -> Int]
         /\ [m \in DOMAIN plan |-> Null] \in [DOMAIN plan -> RefRow \cup {Null}]
BY PayrollAssumption

(* A row with nothing taken, of a plan.                                     *)
LEMMA PlannedHeld ==
  ASSUME NEW e \in Employee, NEW plan \in Plan, NEW P, NEW r,
         r = [employee |-> e, status |-> "active", parts |-> plan,
              taken |-> [m \in DOMAIN plan |-> Null]]
  PROVE  AdvanceHeld(r, P) /\ NothingTaken(r) /\ r # Null
<1>1. "active" \in {"active", "settled", "cancelled"}
  OBVIOUS
<1>2. /\ \E K \in SUBSET Month : r \in AdvanceRow(K)
      /\ r.status = "active" /\ r.taken = [m \in DOMAIN plan |-> Null]
  BY SMTT(30), <1>1, PlanParts, AdvanceMade
<1>3. \E m \in DOMAIN r.taken : r.taken[m] = Null
  BY <1>2, PlanParts
<1>4. r # Null
  BY <1>2, PayrollNull
<1> QED
  BY <1>2, <1>3, <1>4 DEF AdvanceHeld, NothingTaken

LEMMA GrantKeeps ==
  ASSUME PayrollInv, NEW a \in Advance, NEW e \in Employee, NEW plan \in Plan,
         GrantAdvance(a, e, plan)
  PROVE  PayrollInv' /\ UntakenAdvances(advance, advance')
<1> DEFINE r == [employee |-> e, status |-> "active", parts |-> plan,
                 taken |-> [m \in DOMAIN plan |-> Null]]
<1>1. AdvanceHeld(r, LinesPosted(runs)) /\ NothingTaken(r) /\ r # Null
  BY PlannedHeld
<1>2. /\ advance' = [advance EXCEPT ![a] = r] /\ UNCHANGED <<adjustment, runs>>
      /\ books' = [books EXCEPT !["advances"] = @ + Amount(advance'[a])] /\ advance[a] = Null
  BY DEF GrantAdvance
<1> HIDE DEF r
<1>3. advance'[a] = r /\ \A b \in Advance : b # a => advance'[b] = advance[b]
  BY <1>2 DEF PayrollInv, AdvancesHeld
<1>4. Worth(r) = Amount(r) /\ Worth(advance[a]) = 0 /\ Amount(r) \in Int
  BY <1>1, <1>2, AdvanceParts DEF Worth
<1>5. books' = [books EXCEPT !["advances"] = @ + Worth(r) - Worth(advance[a])]
  <2>1. books["advances"] \in Int
    BY DEF PayrollInv, BooksSay, Accounts
  <2>2. books["advances"] + Amount(r) = books["advances"] + Worth(r) - Worth(advance[a])
    BY <1>4, <2>1
  <2> QED
    BY <1>2, <1>3, <2>2
<1>6. PayrollInv'
  BY ONLY <1>1, <1>2, <1>5, PayrollInv, a \in Advance, AdvanceChanged
<1>7. UntakenAdvances(advance, advance')
  BY <1>1, <1>2, <1>3 DEF UntakenAdvances, NothingTaken
<1> QED
  BY <1>6, <1>7

(* A row as updating and cancelling write it.                               *)
WithPlan(w, p, t) == [w EXCEPT !.parts = p, !.taken = t]
WithStatus(w, s, p, t) == [w EXCEPT !.status = s, !.parts = p, !.taken = t]

LEMMA AdvanceRewritten ==
  ASSUME NEW x, NEW a, NEW b, NEW c, NEW d,
         x = [employee |-> a, status |-> b, parts |-> c, taken |-> d], NEW n
  PROVE  /\ [x EXCEPT !.taken = n] = [employee |-> a, status |-> b, parts |-> c, taken |-> n]
         /\ [x EXCEPT !.parts = n] = [employee |-> a, status |-> b, parts |-> n, taken |-> d]
         /\ [x EXCEPT !.status = n] = [employee |-> a, status |-> n, parts |-> c, taken |-> d]
OBVIOUS

LEMMA PlanRewritten ==
  ASSUME NEW w, NEW e, NEW s, NEW q, NEW u, NEW p, NEW t,
         w = [employee |-> e, status |-> s, parts |-> q, taken |-> u]
  PROVE  /\ WithPlan(w, p, t) = [employee |-> e, status |-> s, parts |-> p, taken |-> t]
<1> DEFINE v == [w EXCEPT !.parts = p]
<1>1. v = [employee |-> e, status |-> s, parts |-> p, taken |-> u]
  BY AdvanceRewritten
<1>2. WithPlan(w, p, t) = [v EXCEPT !.taken = t]
  BY DEF WithPlan
<1> HIDE DEF v
<1> QED
  BY ONLY <1>1, <1>2, AdvanceRewritten

LEMMA RowCancelled ==
  ASSUME NEW w, NEW e, NEW s, NEW q, NEW u, NEW n, NEW p, NEW t,
         w = [employee |-> e, status |-> s, parts |-> q, taken |-> u]
  PROVE  WithStatus(w, n, p, t) = [employee |-> e, status |-> n, parts |-> p, taken |-> t]
<1> DEFINE v == [w EXCEPT !.status = n]
           z == WithPlan(v, p, t)
<1>1. v = [employee |-> e, status |-> n, parts |-> q, taken |-> u]
  BY AdvanceRewritten
<1>2. WithStatus(w, n, p, t) = z
  BY DEF WithStatus, WithPlan
<1> HIDE DEF v
<1> QED
  BY ONLY <1>1, <1>2, PlanRewritten

LEMMA UpdateAdvanceKeeps ==
  ASSUME PayrollInv, NEW a \in Advance, NEW plan \in Plan, UpdateAdvance(a, plan)
  PROVE  PayrollInv' /\ UntakenAdvances(advance, advance')
<1> DEFINE r == [employee |-> advance[a].employee, status |-> "active", parts |-> plan,
                 taken |-> [m \in DOMAIN plan |-> Null]]
<1>1. AdvanceHeld(advance[a], LinesPosted(runs)) /\ advance[a].status = "active"
      /\ Unpaid(advance[a]) /\ advance[a] # Null
  BY DEF UpdateAdvance, PayrollInv, AdvancesHeld
<1>2. AdvanceHeld(r, LinesPosted(runs)) /\ NothingTaken(r) /\ r # Null
  BY <1>1, AdvanceParts, PlannedHeld
<1>3. advance[a] = [employee |-> advance[a].employee, status |-> "active",
                    parts |-> advance[a].parts, taken |-> advance[a].taken]
      /\ DOMAIN advance[a].taken = DOMAIN advance[a].parts /\ Amount(advance[a]) \in Int
  BY <1>1, AdvanceParts
<1>4. /\ advance' = [advance EXCEPT ![a] = r] /\ UNCHANGED <<adjustment, runs>>
      /\ books' = [books EXCEPT !["advances"] = @ - Amount(advance[a]) + Amount(advance'[a])]
  <2> DEFINE q == WithPlan(advance[a], plan, [m \in DOMAIN plan |-> Null])
  <2>1. q = r
    BY ONLY <1>3, PlanRewritten
  <2>2. /\ advance' = [advance EXCEPT ![a] = q] /\ UNCHANGED <<adjustment, runs>>
        /\ books' = [books EXCEPT !["advances"] = @ - Amount(advance[a]) + Amount(advance'[a])]
    <3>1. advance = [b \in Advance |-> advance[b]]
      BY DEF PayrollInv, AdvancesHeld
    <3> QED
      BY <3>1 DEF UpdateAdvance, WithPlan
  <2> QED
    BY <2>1, <2>2
<1> HIDE DEF r
<1>5. advance'[a] = r /\ \A b \in Advance : b # a => advance'[b] = advance[b]
  BY <1>4 DEF PayrollInv, AdvancesHeld
<1>6. Worth(r) = Amount(r) /\ Worth(advance[a]) = Amount(advance[a]) /\ Amount(r) \in Int
  BY <1>1, <1>2, AdvanceParts DEF Worth
<1>7. books' = [books EXCEPT !["advances"] = @ + Worth(r) - Worth(advance[a])]
  <2>1. books["advances"] \in Int
    BY DEF PayrollInv, BooksSay, Accounts
  <2>2. books["advances"] - Amount(advance[a]) + Amount(r)
          = books["advances"] + Worth(r) - Worth(advance[a])
    BY <1>3, <1>6, <2>1
  <2> QED
    BY <1>4, <1>5, <2>2
<1>8. PayrollInv'
  BY ONLY <1>2, <1>4, <1>7, PayrollInv, a \in Advance, AdvanceChanged
<1>9. UntakenAdvances(advance, advance')
  BY <1>1, <1>2, <1>3, <1>5 DEF UntakenAdvances, NothingTaken, Unpaid
<1> QED
  BY <1>8, <1>9

LEMMA NoneIsFunction ==
  /\ \A S : <<>> \in [{} -> S]
  /\ DOMAIN <<>> = {}
<1>1. ASSUME NEW S PROVE <<>> \in [{} -> S]
  <2>1. <<>> \in Seq(S) /\ Len(<<>>) = 0
    BY EmptySeq
  <2>2. <<>> \in [1..0 -> S] /\ 1..0 = {}
    BY <2>1, LenProperties
  <2> QED
    BY <2>2
<1> QED
  BY <1>1

LEMMA CancelAdvanceKeeps ==
  ASSUME PayrollInv, NEW a \in Advance, CancelAdvance(a)
  PROVE  PayrollInv' /\ UntakenAdvances(advance, advance')
<1> DEFINE r == [employee |-> advance[a].employee, status |-> "cancelled", parts |-> <<>>,
                 taken |-> <<>>]
<1>1. AdvanceHeld(advance[a], LinesPosted(runs)) /\ Unpaid(advance[a]) /\ advance[a] # Null
  BY DEF CancelAdvance, PayrollInv, AdvancesHeld
<1>2. advance[a] = [employee |-> advance[a].employee, status |-> advance[a].status,
                    parts |-> advance[a].parts, taken |-> advance[a].taken]
      /\ DOMAIN advance[a].taken = DOMAIN advance[a].parts /\ Amount(advance[a]) \in Int
      /\ advance[a].employee \in Employee
  BY <1>1, AdvanceParts
<1>3. /\ \E K \in SUBSET Month : r \in AdvanceRow(K)
      /\ r.status = "cancelled" /\ r.parts = <<>> /\ r.taken = <<>>
  <2>1. {} \in SUBSET Month /\ <<>> \in [{} -> Int] /\ <<>> \in [{} -> RefRow \cup {Null}]
    BY NoneIsFunction
  <2> QED
    BY <1>2, <2>1 DEF AdvanceRow
<1>4. AdvanceHeld(r, LinesPosted(runs)) /\ NothingTaken(r) /\ r # Null
  BY <1>3, NoneIsFunction, PayrollNull DEF AdvanceHeld, NothingTaken
<1>5. /\ advance' = [advance EXCEPT ![a] = r] /\ UNCHANGED <<adjustment, runs>>
      /\ books' = [books EXCEPT !["advances"] = @ - Amount(advance[a])]
  <2> DEFINE q == WithStatus(advance[a], "cancelled", <<>>, <<>>)
  <2>1. q = r
    BY ONLY <1>2, RowCancelled
  <2>2. /\ advance' = [advance EXCEPT ![a] = q] /\ UNCHANGED <<adjustment, runs>>
        /\ books' = [books EXCEPT !["advances"] = @ - Amount(advance[a])]
    <3>1. advance = [b \in Advance |-> advance[b]]
      BY DEF PayrollInv, AdvancesHeld
    <3> QED
      BY <3>1 DEF CancelAdvance, WithStatus
  <2> QED
    BY <2>1, <2>2
<1> HIDE DEF r
<1>6. advance'[a] = r /\ \A b \in Advance : b # a => advance'[b] = advance[b]
  BY <1>5 DEF PayrollInv, AdvancesHeld
<1>7. Worth(r) = 0 /\ Worth(advance[a]) = Amount(advance[a])
  BY <1>1, <1>3, <1>4, NoneIsFunction, SumEmpty DEF Worth, Amount
<1>8. books' = [books EXCEPT !["advances"] = @ + Worth(r) - Worth(advance[a])]
  <2>1. books["advances"] \in Int
    BY DEF PayrollInv, BooksSay, Accounts
  <2>2. books["advances"] - Amount(advance[a]) = books["advances"] + Worth(r) - Worth(advance[a])
    BY <1>2, <1>7, <2>1
  <2> QED
    BY <1>5, <2>2
<1>9. PayrollInv'
  BY ONLY <1>4, <1>5, <1>8, PayrollInv, a \in Advance, AdvanceChanged
<1>10. UntakenAdvances(advance, advance')
  BY <1>1, <1>2, <1>4, <1>6 DEF UntakenAdvances, NothingTaken, Unpaid
<1> QED
  BY <1>9, <1>10

(* What a line of e reads for month m, and a line that has read it.         *)
Reads(adv, adj, e, m) ==
    <<Owed(adv, e, m), Counted(adj, e, m, "bonus"), Counted(adj, e, m, "penalty")>>
FreshLine(adv, adj, e, m, l) == <<l.deducted, l.bonus, l.penalty>> = Reads(adv, adj, e, m)

Drafted(rs, m) == Len(rs[m]) > 0 /\ rs[m][Len(rs[m])].status = "draft"
NewestLines(rs, m) == rs[m][Len(rs[m])].lines
Fresh(adv, adj, rs) ==
    \A m \in Month : Drafted(rs, m) =>
        \A e \in DOMAIN NewestLines(rs, m) : FreshLine(adv, adj, e, m, NewestLines(rs, m)[e])

Tables(adv, adj) == \E P : AdvancesHeld(adv, P) /\ AdjustmentsHeld(adj, P)

LEMMA OwedInt ==
  ASSUME NEW adv, NEW adj, Tables(adv, adj), NEW e \in Employee, NEW m \in Month
  PROVE  Owed(adv, e, m) \in Int
<1>1. PICK P : AdvancesHeld(adv, P)
  BY DEF Tables
<1>2. IsFiniteSet(DueIn(adv, e, m))
  BY PayrollAssumption, FS_Subset DEF DueIn
<1> DEFINE f == [a \in DueIn(adv, e, m) |-> adv[a].parts[m]]
<1>3. \A a \in DueIn(adv, e, m) : f[a] \in Int
  <2>1. ASSUME NEW a \in DueIn(adv, e, m) PROVE adv[a].parts[m] \in Int
    <3>1. AdvanceHeld(adv[a], P) /\ m \in DOMAIN adv[a].parts
      BY <1>1 DEF DueIn, AdvancesHeld
    <3> QED
      BY <3>1, AdvanceParts
  <2> QED
    BY <2>1
<1> HIDE DEF f
<1>4. SumFunctionOnSet(f, DueIn(adv, e, m)) \in Int
  BY <1>2, <1>3, SumInt
<1> QED
  BY <1>4 DEF Owed, f

LEMMA CountedNat ==
  ASSUME NEW adj, NEW e, NEW m, NEW kind
  PROVE  Counted(adj, e, m, kind) \in Nat
<1>1. IsFiniteSet({x \in AdjustmentsIn(adj, e, m) : adj[x].kind = kind})
  BY PayrollAssumption, FS_Subset DEF AdjustmentsIn
<1> QED
  BY <1>1, FS_CardinalityType DEF Counted

LEMMA BuiltLine ==
  ASSUME NEW adv, NEW adj, Tables(adv, adj), NEW e \in Employee, NEW m \in Month,
         NEW extra \in Int, NEW l, l = BuildLine(adv, adj, e, m, extra)
  PROVE  l \in LineRow /\ l.payment = {} /\ FreshLine(adv, adj, e, m, l)
<1>1. Owed(adv, e, m) \in Int /\ Counted(adj, e, m, "bonus") \in Nat
      /\ Counted(adj, e, m, "penalty") \in Nat /\ Salary[e] \in Int /\ Insurance[e] \in Int
  BY OwedInt, CountedNat, PayrollAssumption
<1> DEFINE net == Salary[e] + Counted(adj, e, m, "bonus") - extra - Counted(adj, e, m, "penalty")
                    - Owed(adv, e, m) - Insurance[e]
<1>2. net \in Int
  BY <1>1
<1>3. l = [deducted |-> Owed(adv, e, m), bonus |-> Counted(adj, e, m, "bonus"),
           penalty |-> Counted(adj, e, m, "penalty"), extra |-> extra, payment |-> {}, net |-> net]
  BY DEF BuildLine
<1> HIDE DEF net
<1>4. l \in LineRow
  BY <1>1, <1>2, <1>3 DEF LineRow
<1>5. <<l.deducted, l.bonus, l.penalty>> = Reads(adv, adj, e, m) /\ l.payment = {}
  BY <1>3 DEF Reads
<1> QED
  BY <1>4, <1>5 DEF FreshLine

(* A draft: nothing of it is paid.                                          *)
IsDraft(r) ==
    r \in RunRows /\ r.status = "draft" /\ \A e \in DOMAIN r.lines : r.lines[e].payment = {}

LEMMA DraftIs ==
  ASSUME NEW rs, AllRuns(rs), NEW m \in Month, Drafted(rs, m)
  PROVE  /\ IsDraft(rs[m][Len(rs[m])]) /\ RunsHeld(rs[m]) /\ Len(rs[m]) \in 1..Len(rs[m])
         /\ NewestLines(rs, m) \in [DOMAIN NewestLines(rs, m) -> LineRow]
         /\ DOMAIN NewestLines(rs, m) \in SUBSET Employee
<1>1. RunsHeld(rs[m]) /\ Len(rs[m]) \in 1..Len(rs[m])
  BY LenProperties DEF AllRuns, RunsHeld, Drafted
<1>2. rs[m][Len(rs[m])] \in RunRows /\ PaidWhole(rs[m][Len(rs[m])])
  BY <1>1, RunAt DEF RunsHeld
<1> QED
  BY <1>1, <1>2, RunParts DEF IsDraft, PaidWhole, Drafted, NewestLines

(* The runs of some months change, and only what drafts know.               *)
LEMMA MonthsChange ==
  ASSUME NEW rs, AllRuns(rs), NEW ts, ts = [m \in Month |-> ts[m]],
         \A m \in Month : ts[m] = rs[m] \/ (RunsHeld(ts[m]) /\ PostedKept(rs[m], ts[m]))
  PROVE  DraftsOnly(rs, ts)
<1>1. \A m \in Month : PostedKept(rs[m], rs[m])
  BY DEF PostedKept
<1> QED
  BY <1>1 DEF DraftsOnly, AllRuns

LEMMA DraftsChange ==
  ASSUME NEW rs, AllRuns(rs), NEW ts, ts = [m \in Month |-> ts[m]],
         \A m \in Month : ts[m] = rs[m]
            \/ (Drafted(rs, m) /\ \E r : IsDraft(r) /\ ts[m] = Renewed(rs[m], r))
  PROVE  DraftsOnly(rs, ts)
<1>1. ASSUME NEW m \in Month, Drafted(rs, m), NEW r, IsDraft(r), ts[m] = Renewed(rs[m], r)
      PROVE  RunsHeld(ts[m]) /\ PostedKept(rs[m], ts[m])
  <2>1. RunsHeld(rs[m]) /\ Len(rs[m]) > 0 /\ rs[m][Len(rs[m])].status = "draft"
    BY <1>1 DEF AllRuns, Drafted
  <2>2. r \in RunRows /\ r.status = "draft" /\ \A e \in DOMAIN r.lines : r.lines[e].payment = {}
    BY <1>1 DEF IsDraft
  <2> QED
    BY ONLY <1>1, <2>1, <2>2, DraftReplaced
<1> QED
  BY <1>1, MonthsChange

(* The lines of a draft are written anew.                                   *)
LEMMA DraftWritten ==
  ASSUME NEW d, IsDraft(d), NEW E \in SUBSET Employee, NEW lines \in [E -> LineRow],
         \A e \in E : lines[e].payment = {}, NEW x \in SUBSET Employee,
         NEW r, r = [status |-> "draft", excluded |-> x, lines |-> lines]
  PROVE  IsDraft(r) /\ r.lines = lines
<1>1. "draft" \in {"draft", "posted", "reversed"}
  OBVIOUS
<1>2. r \in RunRows
  BY <1>1, RunMade
<1> QED
  BY <1>2 DEF IsDraft

(* What Refresh makes of the lines of one draft.                            *)
Renewal(lines, adv, adj, E, m) ==
    [e \in DOMAIN lines |-> IF e \in E THEN BuildLine(adv, adj, e, m, lines[e].extra) ELSE lines[e]]

LEMMA RefreshIs ==
  ASSUME NEW rs, AllRuns(rs), NEW adv, NEW adj, NEW E, NEW M, NEW ts, ts = Refresh(rs, adv, adj, E, M)
  PROVE  /\ ts = [m \in Month |-> ts[m]]
         /\ \A m \in Month : /\ ~(m \in M /\ Drafted(rs, m)) => ts[m] = rs[m]
                             /\ m \in M /\ Drafted(rs, m) =>
                                  ts[m] = Renewed(rs[m], [rs[m][Len(rs[m])] EXCEPT !.lines =
                                                     Renewal(rs[m][Len(rs[m])].lines, adv, adj, E, m)])
<1>1. ts = [m \in Month |-> ts[m]]
  BY DEF Refresh
<1>2. ASSUME NEW m \in Month
      PROVE  (rs[m] = <<>> <=> ~ Len(rs[m]) > 0) /\ Len(rs[m]) \in Nat /\ rs[m] = [k \in DOMAIN rs[m] |-> rs[m][k]]
             /\ Len(rs[m]) > 0 => Len(rs[m]) \in DOMAIN rs[m]
  BY EmptySeq, LenProperties DEF AllRuns, RunsHeld
<1>3. ASSUME NEW m \in Month, ~(m \in M /\ Drafted(rs, m)) PROVE ts[m] = rs[m]
  BY <1>2, <1>3 DEF Refresh, Drafted
<1>4. ASSUME NEW m \in Month, m \in M, Drafted(rs, m)
      PROVE  ts[m] = Renewed(rs[m], [rs[m][Len(rs[m])] EXCEPT !.lines =
                                  Renewal(rs[m][Len(rs[m])].lines, adv, adj, E, m)])
  BY <1>2, <1>4 DEF Refresh, Drafted, Renewed, Renewal
<1> QED
  BY <1>1, <1>3, <1>4

LEMMA RunRewritten ==
  ASSUME NEW d \in RunRows, NEW n
  PROVE  /\ [d EXCEPT !.lines = n] = [status |-> d.status, excluded |-> d.excluded, lines |-> n]
         /\ [d EXCEPT !.status = n] = [status |-> n, excluded |-> d.excluded, lines |-> d.lines]
BY RunParts

(* Each line of the new drafts was just read, or is an old one whose reading*)
(* would be the same.                                                       *)
Carried(rs, ts, adv, adj, bdv, bdj) ==
    \A m \in Month : Drafted(ts, m) => \A e \in DOMAIN NewestLines(ts, m) :
        \/ FreshLine(bdv, bdj, e, m, NewestLines(ts, m)[e])
        \/ /\ Drafted(rs, m) /\ e \in DOMAIN NewestLines(rs, m)
           /\ <<NewestLines(ts, m)[e].deducted, NewestLines(ts, m)[e].bonus, NewestLines(ts, m)[e].penalty>>
                = <<NewestLines(rs, m)[e].deducted, NewestLines(rs, m)[e].bonus, NewestLines(rs, m)[e].penalty>>
           /\ Reads(bdv, bdj, e, m) = Reads(adv, adj, e, m)

LEMMA FreshCarried ==
  ASSUME NEW rs, NEW ts, NEW adv, NEW adj, NEW bdv, NEW bdj,
         Fresh(adv, adj, rs), Carried(rs, ts, adv, adj, bdv, bdj)
  PROVE  Fresh(bdv, bdj, ts)
BY DEF Fresh, Carried, FreshLine

LEMMA RefreshKeeps ==
  ASSUME NEW rs, AllRuns(rs), NEW adv, NEW adj, NEW bdv, NEW bdj, Tables(bdv, bdj),
         NEW E, NEW M, NEW ts, ts = Refresh(rs, bdv, bdj, E, M)
  PROVE  /\ DraftsOnly(rs, ts)
         /\ (\A m \in Month, e \in Employee :
                (m \in M /\ e \in E) \/ Reads(bdv, bdj, e, m) = Reads(adv, adj, e, m))
              => Carried(rs, ts, adv, adj, bdv, bdj)
<1>1. /\ ts = [m \in Month |-> ts[m]]
      /\ \A m \in Month : /\ ~(m \in M /\ Drafted(rs, m)) => ts[m] = rs[m]
                          /\ m \in M /\ Drafted(rs, m) =>
                               ts[m] = Renewed(rs[m], [rs[m][Len(rs[m])] EXCEPT !.lines =
                                                Renewal(rs[m][Len(rs[m])].lines, bdv, bdj, E, m)])
  BY RefreshIs
<1>2. ASSUME NEW m \in Month, m \in M, Drafted(rs, m)
      PROVE  LET lines == Renewal(NewestLines(rs, m), bdv, bdj, E, m) IN
             \E r : IsDraft(r) /\ ts[m] = Renewed(rs[m], r) /\ r.lines = lines
  <2> DEFINE d == rs[m][Len(rs[m])]
             lines == Renewal(NewestLines(rs, m), bdv, bdj, E, m)
             r == [d EXCEPT !.lines = lines]
  <2>1. /\ IsDraft(d) /\ NewestLines(rs, m) \in [DOMAIN NewestLines(rs, m) -> LineRow]
        /\ DOMAIN NewestLines(rs, m) \in SUBSET Employee /\ NewestLines(rs, m) = d.lines
    BY <1>2, DraftIs DEF NewestLines
  <2>2. \A e \in DOMAIN NewestLines(rs, m) :
           /\ e \in Employee /\ NewestLines(rs, m)[e] \in LineRow /\ NewestLines(rs, m)[e].extra \in Int
           /\ NewestLines(rs, m)[e].payment = {}
    BY <2>1, LineParts DEF IsDraft
  <2>3. \A e \in DOMAIN NewestLines(rs, m) : lines[e] \in LineRow /\ lines[e].payment = {}
    BY <2>2, BuiltLine DEF Renewal
  <2>4. lines \in [DOMAIN NewestLines(rs, m) -> LineRow]
    BY <2>3 DEF Renewal
  <2>5. r = [status |-> "draft", excluded |-> d.excluded, lines |-> lines] /\ d.excluded \in SUBSET Employee
    <3> HIDE DEF lines
    <3> QED
      BY <2>1, RunRewritten, RunParts DEF IsDraft
  <2>6. IsDraft(r) /\ r.lines = lines
    <3> HIDE DEF d, lines, r
    <3> QED
      BY ONLY <2>1, <2>3, <2>4, <2>5, DraftWritten
  <2>7. ts[m] = Renewed(rs[m], r)
    BY <1>1, <1>2 DEF NewestLines
  <2> QED
    BY <2>6, <2>7
<1>3. DraftsOnly(rs, ts)
  <2>1. \A m \in Month : ts[m] = rs[m] \/ (Drafted(rs, m) /\ \E r : IsDraft(r) /\ ts[m] = Renewed(rs[m], r))
    BY <1>1, <1>2
  <2> QED
    BY <1>1, <2>1, DraftsChange
<1>4. ASSUME \A m \in Month, e \in Employee :
                (m \in M /\ e \in E) \/ Reads(bdv, bdj, e, m) = Reads(adv, adj, e, m)
      PROVE  Carried(rs, ts, adv, adj, bdv, bdj)
  <2> SUFFICES ASSUME NEW m \in Month, Drafted(ts, m), NEW e \in DOMAIN NewestLines(ts, m)
               PROVE  \/ FreshLine(bdv, bdj, e, m, NewestLines(ts, m)[e])
                      \/ /\ Drafted(rs, m) /\ e \in DOMAIN NewestLines(rs, m)
                         /\ NewestLines(ts, m)[e] = NewestLines(rs, m)[e]
                         /\ Reads(bdv, bdj, e, m) = Reads(adv, adj, e, m)
    BY DEF Carried
  <2>1. CASE ~(m \in M /\ Drafted(rs, m))
    <3>1. ts[m] = rs[m] /\ m \notin M
      BY <1>1, <2>1 DEF Drafted
    <3>2. e \in Employee
      BY <3>1, DraftIs DEF NewestLines, Drafted
    <3> QED
      BY <1>4, <3>1, <3>2 DEF Drafted, NewestLines
  <2>2. CASE m \in M /\ Drafted(rs, m)
    <3>1. PICK r : /\ IsDraft(r) /\ ts[m] = Renewed(rs[m], r)
                   /\ r.lines = Renewal(NewestLines(rs, m), bdv, bdj, E, m)
      BY <1>2, <2>2
    <3>2. RunsHeld(rs[m]) /\ Len(rs[m]) > 0 /\ rs[m][Len(rs[m])].status = "draft"
      BY <2>2 DEF AllRuns, Drafted
    <3>3. r \in RunRows /\ r.status = "draft" /\ \A q \in DOMAIN r.lines : r.lines[q].payment = {}
      BY <3>1 DEF IsDraft
    <3>4. Len(ts[m]) = Len(rs[m]) /\ ts[m][Len(ts[m])] = r
      BY ONLY <3>1, <3>2, <3>3, DraftReplaced
    <3>5. NewestLines(ts, m) = Renewal(NewestLines(rs, m), bdv, bdj, E, m)
      BY <3>1, <3>4 DEF NewestLines
    <3>6. /\ e \in DOMAIN NewestLines(rs, m)
          /\ NewestLines(ts, m)[e] = IF e \in E
                THEN BuildLine(bdv, bdj, e, m, NewestLines(rs, m)[e].extra) ELSE NewestLines(rs, m)[e]
      BY <3>5 DEF Renewal
    <3>7. e \in Employee /\ NewestLines(rs, m)[e].extra \in Int
      BY <2>2, <3>6, DraftIs, LineParts
    <3>8. e \in E => FreshLine(bdv, bdj, e, m, NewestLines(ts, m)[e])
      BY <3>6, <3>7, BuiltLine
    <3> QED
      BY <1>4, <2>2, <3>6, <3>7, <3>8
  <2> QED
    BY <2>1, <2>2
<1> QED
  BY <1>3, <1>4

(* An old row and a new one that no line of e and m reads.                  *)
AdvanceApart(r, e, m) == r = Null \/ r.employee # e \/ m \notin DOMAIN r.parts
AdjustmentApart(r, e, m) == r = Null \/ r.employee # e \/ r.month # m

LEMMA OwedSame ==
  ASSUME NEW adv, NEW bdv, NEW e, NEW m,
         \A a \in Advance : bdv[a] = adv[a] \/ (AdvanceApart(adv[a], e, m) /\ AdvanceApart(bdv[a], e, m))
  PROVE  Owed(bdv, e, m) = Owed(adv, e, m)
<1>1. DueIn(bdv, e, m) = DueIn(adv, e, m)
  BY DEF DueIn, AdvanceApart
<1>2. \A a \in DueIn(adv, e, m) : bdv[a] = adv[a]
  BY DEF DueIn, AdvanceApart
<1>3. [a \in DueIn(adv, e, m) |-> bdv[a].parts[m]] = [a \in DueIn(adv, e, m) |-> adv[a].parts[m]]
  BY <1>2
<1> QED
  BY <1>1, <1>3 DEF Owed

LEMMA CountedSame ==
  ASSUME NEW adj, NEW bdj, NEW e, NEW m,
         \A x \in Adjustment : bdj[x] = adj[x]
            \/ (AdjustmentApart(adj[x], e, m) /\ AdjustmentApart(bdj[x], e, m))
  PROVE  \A kind : Counted(bdj, e, m, kind) = Counted(adj, e, m, kind)
<1>1. AdjustmentsIn(bdj, e, m) = AdjustmentsIn(adj, e, m)
  BY DEF AdjustmentsIn, AdjustmentApart
<1>2. \A x \in AdjustmentsIn(adj, e, m) : bdj[x] = adj[x]
  BY DEF AdjustmentsIn, AdjustmentApart
<1>3. ASSUME NEW kind PROVE Counted(bdj, e, m, kind) = Counted(adj, e, m, kind)
  <2>1. {x \in AdjustmentsIn(adj, e, m) : bdj[x].kind = kind} = {x \in AdjustmentsIn(adj, e, m) : adj[x].kind = kind}
    BY <1>2
  <2> QED
    BY <1>1, <2>1 DEF Counted
<1> QED
  BY <1>3

(* What line r is recorded to have taken.                                   *)
HeldBy(adv, r) ==
    {a \in Advance : adv[a] # Null /\ r.month \in DOMAIN adv[a].taken /\ adv[a].taken[r.month] = r}
HeldSum(adv, r) == SumFunctionOnSet([a \in HeldBy(adv, r) |-> adv[a].parts[r.month]], HeldBy(adv, r))
CountedBy(adj, r, kind) ==
    Cardinality({x \in Adjustment : adj[x] # Null /\ adj[x].taken = r /\ adj[x].kind = kind})
Takes(adv, adj, r) == <<HeldSum(adv, r), CountedBy(adj, r, "bonus"), CountedBy(adj, r, "penalty")>>
Counts(adv, adj, rs) ==
    \A r \in LinesPosted(rs) :
        <<LineAt(rs, r).deducted, LineAt(rs, r).bonus, LineAt(rs, r).penalty>> = Takes(adv, adj, r)

LEMMA TakesSame ==
  ASSUME NEW adv, NEW bdv, UntakenAdvances(adv, bdv), NEW adj, NEW bdj, UntakenAdjustments(adj, bdj),
         NEW r \in RefRow
  PROVE  Takes(bdv, bdj, r) = Takes(adv, adj, r)
<1>1. r # Null
  BY PayrollNull
<1>2. HeldBy(bdv, r) = HeldBy(adv, r) /\ \A a \in HeldBy(adv, r) : bdv[a] = adv[a]
  BY <1>1 DEF HeldBy, UntakenAdvances, NothingTaken
<1>3. [a \in HeldBy(adv, r) |-> bdv[a].parts[r.month]] = [a \in HeldBy(adv, r) |-> adv[a].parts[r.month]]
  BY <1>2
<1>4. HeldSum(bdv, r) = HeldSum(adv, r)
  BY <1>2, <1>3 DEF HeldSum
<1>5. ASSUME NEW kind PROVE CountedBy(bdj, r, kind) = CountedBy(adj, r, kind)
  <2>1. {x \in Adjustment : bdj[x] # Null /\ bdj[x].taken = r /\ bdj[x].kind = kind}
          = {x \in Adjustment : adj[x] # Null /\ adj[x].taken = r /\ adj[x].kind = kind}
    BY <1>1 DEF UntakenAdjustments
  <2> QED
    BY <2>1 DEF CountedBy
<1> QED
  BY <1>4, <1>5 DEF Takes

LEMMA CountsKept ==
  ASSUME NEW adv, NEW bdv, UntakenAdvances(adv, bdv), NEW adj, NEW bdj, UntakenAdjustments(adj, bdj),
         NEW rs, NEW ts, DraftsOnly(rs, ts), Counts(adv, adj, rs)
  PROVE  Counts(bdv, bdj, ts)
<1>1. LinesPosted(ts) = LinesPosted(rs) /\ \A r \in LinesPosted(rs) : LineAt(ts, r) = LineAt(rs, r)
  BY PostedLinesStay DEF DraftsOnly
<1>2. \A r \in LinesPosted(rs) : Takes(bdv, bdj, r) = Takes(adv, adj, r)
  BY PostedFinite, TakesSame
<1> QED
  BY <1>1, <1>2 DEF Counts

(* Drafts change, and adjustments that are not taken.                       *)
LEMMA DraftsKeep ==
  ASSUME PayrollInv, DraftsOnly(runs, runs'), AdjustmentsHeld(adjustment', LinesPosted(runs)),
         UNCHANGED <<advance, books>>
  PROVE  PayrollInv'
<1>1. LinesPosted(runs') = LinesPosted(runs) /\ AllRuns(runs')
  BY PostedLinesStay DEF DraftsOnly
<1>2. HeldBack(runs') = HeldBack(runs) /\ Payable(runs') = Payable(runs) /\ Insured(runs') = Insured(runs)
  BY BooksStay DEF DraftsOnly
<1>3. BooksSay(books', advance', runs')
  BY <1>2 DEF PayrollInv, BooksSay
<1> QED
  BY <1>1, <1>3 DEF PayrollInv

LEMMA TablesHeld ==
  ASSUME PayrollInv
  PROVE  Tables(advance, adjustment)
BY DEF PayrollInv, Tables

(* Calculating a month makes a draft of what is due.                        *)
MayCalculate(rs) ==
    /\ RunsHeld(rs)
    /\ Len(rs) > 0 => rs[Len(rs)].status # "posted"
    /\ (Len(rs) > 0 /\ rs[Len(rs)].status = "draft") \/ Len(rs) < MaxRuns

LEMMA CalculatedIs ==
  ASSUME NEW rs, MayCalculate(rs), NEW adv, NEW adj, Tables(adv, adj), NEW m \in Month,
         NEW ts, ts = Calculated(rs, adv, adj, m)
  PROVE  /\ RunsHeld(ts) /\ PostedKept(rs, ts) /\ Len(ts) > 0 /\ IsDraft(ts[Len(ts)])
         /\ \A e \in DOMAIN ts[Len(ts)].lines : FreshLine(adv, adj, e, m, ts[Len(ts)].lines[e])
<1> DEFINE last == IF rs = <<>> THEN [lines |-> <<>>, excluded |-> {}] ELSE rs[Len(rs)]
           extra(e) == IF e \in DOMAIN last.lines THEN last.lines[e].extra ELSE 0
           lines == [e \in Employee \ last.excluded |-> BuildLine(adv, adj, e, m, extra(e))]
           r == [status |-> "draft", excluded |-> last.excluded, lines |-> lines]
<1>1. RunsHeld(rs) /\ rs \in Seq(RunRows) /\ Len(rs) \in Nat /\ (rs = <<>> <=> ~ Len(rs) > 0)
      /\ (Len(rs) > 0 => Len(rs) \in 1..Len(rs))
  BY EmptySeq, LenProperties DEF MayCalculate, RunsHeld
<1>2. last.excluded \in SUBSET Employee /\ \A e \in Employee : extra(e) \in Int
  <2>1. CASE rs = <<>>
    BY <2>1, NoneIsFunction
  <2>2. CASE rs # <<>>
    <3>1. last \in RunRows
      BY <1>1, <2>2, RunAt
    <3> HIDE DEF last
    <3>2. last.excluded \in SUBSET Employee /\ last.lines \in [DOMAIN last.lines -> LineRow]
      BY <3>1, RunParts
    <3> QED
      BY <3>2, LineParts
  <2> QED
    BY <2>1, <2>2
<1> HIDE DEF last, extra
<1>3. \A e \in Employee \ last.excluded :
         lines[e] \in LineRow /\ lines[e].payment = {} /\ FreshLine(adv, adj, e, m, lines[e])
  BY <1>2, BuiltLine
<1>4. lines \in [Employee \ last.excluded -> LineRow] /\ DOMAIN lines = Employee \ last.excluded
  BY <1>3
<1>5. r \in RunRows /\ r.status = "draft" /\ r.lines = lines
      /\ \A e \in DOMAIN r.lines : r.lines[e].payment = {} /\ FreshLine(adv, adj, e, m, r.lines[e])
  <2>1. "draft" \in {"draft", "posted", "reversed"} /\ Employee \ last.excluded \in SUBSET Employee
    OBVIOUS
  <2> HIDE DEF lines
  <2>2. r \in RunRows
    BY <1>2, <1>4, <2>1, RunMade
  <2> QED
    BY <1>3, <1>4, <2>2
<1>6. ts = IF rs # <<>> /\ rs[Len(rs)].status = "draft" THEN Renewed(rs, r) ELSE Append(rs, r)
  BY DEF Calculated, Renewed, last, extra
<1> HIDE DEF lines, r
<1>7. /\ RunsHeld(ts) /\ PostedKept(rs, ts) /\ Len(ts) > 0 /\ ts[Len(ts)] = r
  <2>1. CASE rs # <<>> /\ rs[Len(rs)].status = "draft"
    BY <1>1, <1>5, <1>6, <2>1, DraftReplaced
  <2>2. CASE ~(rs # <<>> /\ rs[Len(rs)].status = "draft")
    <3>1. Len(rs) < MaxRuns /\ (Len(rs) = 0 \/ rs[Len(rs)].status = "reversed")
      <4>1. Len(rs) > 0 => rs[Len(rs)].status \in {"draft", "posted", "reversed"}
        BY <1>1, RunAt, RunParts
      <4> QED
        BY <1>1, <2>2, <4>1 DEF MayCalculate
    <3>2. ts = Append(rs, r)
      BY <1>6, <2>2
    <3>3. /\ RunsHeld(ts) /\ PostedKept(rs, ts) /\ Len(ts) = Len(rs) + 1 /\ ts[Len(ts)] = r
      <4>1. r \in RunRows /\ r.status = "draft" /\ (\A e \in DOMAIN r.lines : r.lines[e].payment = {})
            /\ RunsHeld(rs)
        BY <1>1, <1>5
      <4> QED
        BY ONLY ZenonT(40), <4>1, <3>1, <3>2, DraftAppended
    <3> QED
      BY <1>1, <3>3
  <2> QED
    BY <2>1, <2>2
<1> QED
  BY <1>5, <1>7 DEF IsDraft

QuietInv == Fresh(advance, adjustment, runs) /\ Counts(advance, adjustment, runs)

LEMMA SameRuns ==
  ASSUME NEW rs, AllRuns(rs)
  PROVE  DraftsOnly(rs, rs)
BY DEF DraftsOnly, PostedKept

LEMMA SameAdvances ==
  ASSUME NEW adv, NEW adj
  PROVE  UntakenAdvances(adv, adv) /\ UntakenAdjustments(adj, adj)
BY DEF UntakenAdvances, UntakenAdjustments

LEMMA AdjustmentRewritten ==
  ASSUME NEW w \in AdjustmentRow, NEW s \in {"approved", "cancelled"}, NEW v,
         v = [w EXCEPT !.status = s]
  PROVE  /\ v \in AdjustmentRow /\ v.taken = w.taken /\ v.status = s
         /\ v.employee = w.employee /\ v.month = w.month /\ v # Null
<1>1. v \in AdjustmentRow /\ v.taken = w.taken /\ v.status = s /\ v.employee = w.employee /\ v.month = w.month
  BY DEF AdjustmentRow
<1> QED
  BY <1>1, PayrollNull

LEMMA ApprovedIs ==
  ASSUME NEW e \in Employee, NEW m \in Month, NEW kind \in {"bonus", "penalty"}
  PROVE  /\ Approved(e, m, kind) \in AdjustmentRow /\ Approved(e, m, kind).taken = Null
         /\ Approved(e, m, kind).employee = e /\ Approved(e, m, kind).month = m
         /\ Approved(e, m, kind) # Null
<1>1. /\ Approved(e, m, kind) \in AdjustmentRow /\ Approved(e, m, kind).taken = Null
      /\ Approved(e, m, kind).employee = e /\ Approved(e, m, kind).month = m
  BY DEF Approved, AdjustmentRow
<1> QED
  BY <1>1, PayrollNull

OnlyRow(adj, bdj, x) == \A y \in Adjustment : y # x => bdj[y] = adj[y]

(* A row comes in place of none, or of one that is not taken.               *)
LEMMA AdjustmentChanged ==
  ASSUME NEW adj, NEW P, AdjustmentsHeld(adj, P), NEW x \in Adjustment, NEW r \in AdjustmentRow,
         r.taken = Null, adj[x] = Null \/ adj[x].taken = Null, NEW bdj, bdj = [adj EXCEPT ![x] = r]
  PROVE  /\ AdjustmentsHeld(bdj, P) /\ UntakenAdjustments(adj, bdj)
         /\ bdj[x] = r /\ OnlyRow(adj, bdj, x)
<1>1. /\ bdj = [y \in Adjustment |-> bdj[y]] /\ bdj[x] = r
      /\ OnlyRow(adj, bdj, x)
  BY DEF AdjustmentsHeld, OnlyRow
<1>2. r # Null
  BY PayrollNull
<1>3. AdjustmentsHeld(bdj, P)
  BY <1>1 DEF AdjustmentsHeld, AdjustmentHeld, OnlyRow
<1>4. UntakenAdjustments(adj, bdj)
  BY <1>1, <1>2 DEF UntakenAdjustments, OnlyRow
<1> QED
  BY <1>1, <1>3, <1>4

LEMMA CreateKeeps ==
  ASSUME PayrollInv, NEW x \in Adjustment, NEW e \in Employee, NEW m \in Month,
         NEW kind \in {"bonus", "penalty"}, CreateAdjustment(x, e, m, kind)
  PROVE  PayrollInv' /\ UntakenAdjustments(adjustment, adjustment')
<1>1. AdjustmentsHeld(adjustment, LinesPosted(runs)) /\ AllRuns(runs)
  BY DEF PayrollInv
<1>2. AdjustmentsHeld(adjustment', LinesPosted(runs)) /\ UntakenAdjustments(adjustment, adjustment')
  <2>1. adjustment' = [adjustment EXCEPT ![x] = Approved(e, m, kind)] /\ adjustment[x] = Null
    BY DEF CreateAdjustment
  <2>2. Approved(e, m, kind) \in AdjustmentRow /\ Approved(e, m, kind).taken = Null
    BY ApprovedIs
  <2> QED
    BY ONLY <1>1, <2>1, <2>2, x \in Adjustment, AdjustmentChanged
<1>3. DraftsOnly(runs, runs') /\ UNCHANGED <<advance, books>>
  BY <1>1, SameRuns DEF CreateAdjustment
<1> QED
  BY <1>2, <1>3, DraftsKeep

LEMMA CancelKeeps ==
  ASSUME PayrollInv, NEW x \in Adjustment, CancelAdjustment(x)
  PROVE  PayrollInv' /\ UntakenAdjustments(adjustment, adjustment')
<1>1. AdjustmentsHeld(adjustment, LinesPosted(runs)) /\ AllRuns(runs)
  BY DEF PayrollInv
<1> DEFINE r == [adjustment[x] EXCEPT !.status = "cancelled"]
<1>2. r \in AdjustmentRow /\ r.taken = Null /\ adjustment[x].taken = Null
  <2>1. adjustment[x] \in AdjustmentRow /\ adjustment[x].taken = Null /\ "cancelled" \in {"approved", "cancelled"}
    BY <1>1 DEF CancelAdjustment, AdjustmentsHeld, AdjustmentHeld
  <2> QED
    BY <2>1, AdjustmentRewritten
<1>3. adjustment' = [adjustment EXCEPT ![x] = r]
  BY <1>1 DEF CancelAdjustment, AdjustmentsHeld
<1> HIDE DEF r
<1>4. AdjustmentsHeld(adjustment', LinesPosted(runs)) /\ UntakenAdjustments(adjustment, adjustment')
  BY ONLY <1>1, <1>2, <1>3, x \in Adjustment, AdjustmentChanged
<1>5. DraftsOnly(runs, runs') /\ UNCHANGED <<advance, books>>
  BY <1>1, SameRuns DEF CancelAdjustment
<1> QED
  BY <1>4, <1>5, DraftsKeep

(* One adjustment changes, and the drafts of those it concerns are          *)
(* refreshed.                                                               *)
LEMMA RefreshedFor ==
  ASSUME PayrollInv, AdjustmentsHeld(adjustment', LinesPosted(runs)),
         UntakenAdjustments(adjustment, adjustment'), NEW x \in Adjustment,
         OnlyRow(adjustment, adjustment', x),
         NEW E, NEW M,
         \A r \in {adjustment[x], adjustment'[x]} : r # Null => r.employee \in E /\ r.month \in M,
         runs' = Refresh(runs, advance, adjustment', E, M), UNCHANGED <<advance, books>>
  PROVE  PayrollInv' /\ (QuietInv => QuietInv')
<1>1. AllRuns(runs) /\ AdvancesHeld(advance, LinesPosted(runs)) /\ Tables(advance, adjustment')
  BY DEF PayrollInv, Tables
<1>2. ASSUME NEW m \in Month, NEW e \in Employee, ~(m \in M /\ e \in E)
      PROVE  Reads(advance, adjustment', e, m) = Reads(advance, adjustment, e, m)
  <2>1. AdjustmentApart(adjustment[x], e, m) /\ AdjustmentApart(adjustment'[x], e, m)
    BY <1>2 DEF AdjustmentApart
  <2>2. \A kind : Counted(adjustment', e, m, kind) = Counted(adjustment, e, m, kind)
    BY <2>1, CountedSame DEF OnlyRow
  <2> QED
    BY <2>2 DEF Reads
<1>3. \A m \in Month, e \in Employee :
         (m \in M /\ e \in E) \/ Reads(advance, adjustment', e, m) = Reads(advance, adjustment, e, m)
  BY <1>2
<1>4. DraftsOnly(runs, runs') /\ Carried(runs, runs', advance, adjustment, advance, adjustment')
  BY <1>1, <1>3, RefreshKeeps
<1>5. PayrollInv'
  BY <1>4, DraftsKeep
<1>6. ASSUME QuietInv PROVE QuietInv'
  <2>1. Fresh(advance, adjustment', runs')
    BY <1>4, <1>6, FreshCarried DEF QuietInv
  <2>2. Counts(advance, adjustment', runs')
    BY <1>4, <1>6, SameAdvances, CountsKept DEF QuietInv
  <2> QED
    BY <2>1, <2>2 DEF QuietInv
<1> QED
  BY <1>5, <1>6

LEMMA SaveKeeps ==
  ASSUME PayrollInv, NEW x \in Adjustment, NEW e \in Employee, NEW m \in Month,
         NEW kind \in {"bonus", "penalty"}, SaveAdjustment(x, e, m, kind)
  PROVE  PayrollInv' /\ (QuietInv => QuietInv')
<1>1. AdjustmentsHeld(adjustment, LinesPosted(runs))
  BY DEF PayrollInv
<1> DEFINE old == IF adjustment[x] = Null THEN {} ELSE {adjustment[x]}
           M == {m} \cup {r.month : r \in old}
           E == {e} \cup {r.employee : r \in old}
<1>2. /\ adjustment' = [adjustment EXCEPT ![x] = Approved(e, m, kind)]
      /\ runs' = Refresh(runs, advance, adjustment', E, M) /\ UNCHANGED <<advance, books>>
      /\ adjustment[x] = Null \/ adjustment[x].taken = Null
  BY DEF SaveAdjustment
<1>3. /\ AdjustmentsHeld(adjustment', LinesPosted(runs)) /\ UntakenAdjustments(adjustment, adjustment')
      /\ adjustment'[x] = Approved(e, m, kind)
      /\ OnlyRow(adjustment, adjustment', x)
  <2>1. adjustment' = [adjustment EXCEPT ![x] = Approved(e, m, kind)]
        /\ (adjustment[x] = Null \/ adjustment[x].taken = Null)
    BY <1>2
  <2>2. Approved(e, m, kind) \in AdjustmentRow /\ Approved(e, m, kind).taken = Null
    BY ApprovedIs
  <2>3. AdjustmentsHeld(adjustment', LinesPosted(runs)) /\ UntakenAdjustments(adjustment, adjustment')
    BY ONLY <1>1, <2>1, <2>2, x \in Adjustment, AdjustmentChanged
  <2> QED
    BY <1>1, <2>1, <2>3 DEF AdjustmentsHeld, OnlyRow
<1>4. \A r \in {adjustment[x], adjustment'[x]} : r # Null => r.employee \in E /\ r.month \in M
  BY <1>3, ApprovedIs
<1> HIDE DEF E, M
<1> QED
  BY <1>2, <1>3, <1>4, RefreshedFor

LEMMA DeleteKeeps ==
  ASSUME PayrollInv, NEW x \in Adjustment, DeleteAdjustment(x)
  PROVE  PayrollInv' /\ (QuietInv => QuietInv')
<1>1. AdjustmentsHeld(adjustment, LinesPosted(runs))
  BY DEF PayrollInv
<1> DEFINE r == [adjustment[x] EXCEPT !.status = "cancelled"]
           M == {adjustment[x].month}
           E == {adjustment[x].employee}
<1>2. /\ r \in AdjustmentRow /\ r.taken = Null /\ adjustment[x].taken = Null
      /\ r.employee = adjustment[x].employee /\ r.month = adjustment[x].month
  <2>1. adjustment[x] \in AdjustmentRow /\ adjustment[x].taken = Null /\ "cancelled" \in {"approved", "cancelled"}
    BY <1>1 DEF DeleteAdjustment, AdjustmentsHeld, AdjustmentHeld
  <2> QED
    BY <2>1, AdjustmentRewritten
<1>3. /\ adjustment' = [adjustment EXCEPT ![x] = r]
      /\ runs' = Refresh(runs, advance, adjustment', E, M) /\ UNCHANGED <<advance, books>>
  BY <1>1 DEF DeleteAdjustment, AdjustmentsHeld
<1> HIDE DEF r
<1>4. /\ AdjustmentsHeld(adjustment', LinesPosted(runs)) /\ UntakenAdjustments(adjustment, adjustment')
      /\ adjustment'[x] = r /\ OnlyRow(adjustment, adjustment', x)
  <2>1. adjustment' = [adjustment EXCEPT ![x] = r] /\ r \in AdjustmentRow /\ r.taken = Null
    BY <1>2, <1>3
  <2>2. AdjustmentsHeld(adjustment', LinesPosted(runs)) /\ UntakenAdjustments(adjustment, adjustment')
    BY ONLY <1>1, <1>2, <2>1, x \in Adjustment, AdjustmentChanged
  <2> QED
    BY <1>1, <2>1, <2>2 DEF AdjustmentsHeld, OnlyRow
<1>5. \A q \in {adjustment[x], adjustment'[x]} : q # Null => q.employee \in E /\ q.month \in M
  BY <1>2, <1>4
<1> HIDE DEF E, M
<1> QED
  BY <1>3, <1>4, <1>5, RefreshedFor

FreshRun(adv, adj, s, m) ==
    Len(s) > 0 /\ s[Len(s)].status = "draft" =>
        \A e \in DOMAIN s[Len(s)].lines : FreshLine(adv, adj, e, m, s[Len(s)].lines[e])

LEMMA FreshIs ==
  ASSUME NEW adv, NEW adj, NEW rs
  PROVE  Fresh(adv, adj, rs) <=> \A m \in Month : FreshRun(adv, adj, rs[m], m)
BY DEF Fresh, FreshRun, Drafted, NewestLines

(* Only the draft of one month changes, and nothing else.                   *)
LEMMA MonthChanged ==
  ASSUME PayrollInv, NEW m \in Month, NEW t, RunsHeld(t), PostedKept(runs[m], t),
         runs' = [runs EXCEPT ![m] = t], UNCHANGED <<advance, adjustment, books>>,
         QuietInv => FreshRun(advance, adjustment, t, m)
  PROVE  PayrollInv' /\ (QuietInv => QuietInv')
<1>1. AllRuns(runs) /\ AdjustmentsHeld(adjustment', LinesPosted(runs))
  BY DEF PayrollInv
<1>2. runs' = [q \in Month |-> runs'[q]] /\ runs'[m] = t /\ \A q \in Month : q # m => runs'[q] = runs[q]
  BY <1>1 DEF AllRuns
<1>3. DraftsOnly(runs, runs')
  BY <1>1, <1>2, MonthsChange
<1>4. PayrollInv'
  BY <1>1, <1>3, DraftsKeep
<1>5. ASSUME QuietInv PROVE QuietInv'
  <2>1. Fresh(advance, adjustment, runs')
    <3>1. \A q \in Month : FreshRun(advance, adjustment, runs[q], q)
      BY <1>5, FreshIs DEF QuietInv
    <3>2. \A q \in Month : FreshRun(advance, adjustment, runs'[q], q)
      BY <1>2, <1>5, <3>1
    <3> QED
      BY <3>2, FreshIs
  <2>2. Counts(advance, adjustment, runs')
    BY <1>3, <1>5, SameAdvances, CountsKept DEF QuietInv
  <2> QED
    BY <2>1, <2>2 DEF QuietInv
<1> QED
  BY <1>4, <1>5

LEMMA CurrentIs ==
  ASSUME PayrollInv, NEW m \in Month, Current(m) = "draft"
  PROVE  /\ Drafted(runs, m) /\ LinesOf(m) = NewestLines(runs, m) /\ RunsHeld(runs[m])
         /\ runs[m] \in Seq(RunRows) /\ Newest(m) = Len(runs[m]) /\ Newest(m) \in 1..Len(runs[m])
         /\ runs = [q \in Month |-> runs[q]]
<1>1. RunsHeld(runs[m]) /\ runs = [q \in Month |-> runs[q]]
  BY DEF PayrollInv, AllRuns
<1>2. "draft" # Null
  BY PayrollNull
<1> QED
  BY <1>1, <1>2, LenProperties DEF Current, Newest, LinesOf, NewestLines, Drafted, RunsHeld

(* The draft of a month is written anew; each line is just read or an old   *)
(* one.                                                                     *)
LEMMA DraftRenewed ==
  ASSUME PayrollInv, NEW m \in Month, Current(m) = "draft", NEW r, IsDraft(r),
         runs' = [runs EXCEPT ![m] = Renewed(runs[m], r)], UNCHANGED <<advance, adjustment, books>>,
         \A e \in DOMAIN r.lines : \/ FreshLine(advance, adjustment, e, m, r.lines[e])
                                  \/ (e \in DOMAIN LinesOf(m) /\ r.lines[e] = LinesOf(m)[e])
  PROVE  PayrollInv' /\ (QuietInv => QuietInv')
<1>1. /\ Drafted(runs, m) /\ LinesOf(m) = NewestLines(runs, m) /\ RunsHeld(runs[m])
      /\ Len(runs[m]) > 0 /\ runs[m][Len(runs[m])].status = "draft"
  BY CurrentIs DEF Drafted
<1>2. r \in RunRows /\ r.status = "draft" /\ \A e \in DOMAIN r.lines : r.lines[e].payment = {}
  BY DEF IsDraft
<1> DEFINE t == Renewed(runs[m], r)
<1>3. RunsHeld(t) /\ PostedKept(runs[m], t) /\ Len(t) = Len(runs[m]) /\ t[Len(t)] = r
  BY ONLY <1>1, <1>2, DraftReplaced
<1>4. ASSUME QuietInv PROVE FreshRun(advance, adjustment, t, m)
  <2>1. \A e \in DOMAIN LinesOf(m) : FreshLine(advance, adjustment, e, m, LinesOf(m)[e])
    BY <1>1, <1>4 DEF QuietInv, Fresh
  <2> HIDE DEF t
  <2> QED
    BY <1>3, <2>1 DEF FreshRun
<1>5. runs' = [runs EXCEPT ![m] = t]
  OBVIOUS
<1> HIDE DEF t
<1> QED
  BY <1>3, <1>4, <1>5, MonthChanged

LEMMA CalculateKeeps ==
  ASSUME PayrollInv, NEW m \in Month, Calculate(m)
  PROVE  PayrollInv' /\ (QuietInv => QuietInv')
<1> DEFINE t == Calculated(runs[m], advance, adjustment, m)
<1>1. runs' = [runs EXCEPT ![m] = t] /\ UNCHANGED <<advance, adjustment, books>>
  BY DEF PayrollInv, AllRuns, Calculate
<1>2. MayCalculate(runs[m])
  BY PayrollNull DEF MayCalculate, PayrollInv, AllRuns, Calculate, Current, Newest
<1>3. RunsHeld(t) /\ PostedKept(runs[m], t) /\ Len(t) > 0
      /\ \A e \in DOMAIN t[Len(t)].lines : FreshLine(advance, adjustment, e, m, t[Len(t)].lines[e])
  BY <1>2, TablesHeld, CalculatedIs
<1> HIDE DEF t
<1>4. FreshRun(advance, adjustment, t, m)
  BY <1>3 DEF FreshRun
<1> QED
  BY <1>1, <1>3, <1>4, MonthChanged

LEMMA DeleteDraftKeeps ==
  ASSUME PayrollInv, NEW m \in Month, DeleteDraft(m)
  PROVE  PayrollInv' /\ (QuietInv => QuietInv')
<1> DEFINE t == Front(runs[m])
<1>1. runs' = [runs EXCEPT ![m] = t] /\ UNCHANGED <<advance, adjustment, books>>
      /\ Drafted(runs, m) /\ RunsHeld(runs[m]) /\ Len(runs[m]) \in 1..Len(runs[m])
  BY CurrentIs DEF DeleteDraft
<1>2. RunsHeld(t) /\ PostedKept(runs[m], t) /\ Len(t) = Len(runs[m]) - 1
      /\ \A k \in 1..Len(t) : t[k].status = "reversed"
  BY <1>1, DraftDropped DEF Drafted
<1> HIDE DEF t
<1>3. FreshRun(advance, adjustment, t, m)
  BY <1>1, <1>2 DEF FreshRun
<1> QED
  BY <1>1, <1>2, <1>3, MonthChanged

(* A run as it is written, with lines and who is left out.                  *)
Written(d, lines, x) == [d EXCEPT !.lines = lines, !.excluded = x]

LEMMA WrittenIs ==
  ASSUME NEW d \in RunRows, NEW lines, NEW x
  PROVE  Written(d, lines, x) = [status |-> d.status, excluded |-> x, lines |-> lines]
<1>1. d = [status |-> d.status, excluded |-> d.excluded, lines |-> d.lines]
  BY RunParts
<1> DEFINE v == [d EXCEPT !.lines = lines]
<1>2. v = [status |-> d.status, excluded |-> d.excluded, lines |-> lines]
  BY <1>1
<1>3. Written(d, lines, x) = [v EXCEPT !.excluded = x]
  BY DEF Written
<1> HIDE DEF v
<1> QED
  BY <1>2, <1>3

LEMMA UpdateLineKeeps ==
  ASSUME PayrollInv, NEW m \in Month, NEW e \in Employee, NEW extra \in Extra, UpdateLine(m, e, extra)
  PROVE  PayrollInv' /\ (QuietInv => QuietInv')
<1> DEFINE d == runs[m][Newest(m)]
           l == BuildLine(advance, adjustment, e, m, extra)
           lines == [d.lines EXCEPT ![e] = l]
           r == [d EXCEPT !.lines = lines]
<1>1. /\ Drafted(runs, m) /\ LinesOf(m) = NewestLines(runs, m) /\ d.lines = LinesOf(m)
      /\ Newest(m) = Len(runs[m]) /\ Newest(m) \in 1..Len(runs[m]) /\ Current(m) = "draft"
      /\ runs = [q \in Month |-> runs[q]] /\ runs[m] \in Seq(RunRows) /\ e \in DOMAIN LinesOf(m)
      /\ UNCHANGED <<advance, adjustment, books>>
  BY CurrentIs DEF UpdateLine, NewestLines
<1>2. /\ IsDraft(d) /\ d.lines \in [DOMAIN d.lines -> LineRow] /\ DOMAIN d.lines \in SUBSET Employee
  BY <1>1, DraftIs DEF PayrollInv
<1>3. l \in LineRow /\ l.payment = {} /\ FreshLine(advance, adjustment, e, m, l)
  BY TablesHeld, BuiltLine, PayrollAssumption
<1>4. runs' = [runs EXCEPT ![m] = Renewed(runs[m], r)]
  BY <1>1 DEF UpdateLine, Renewed
<1> HIDE DEF l
<1>5. /\ lines \in [DOMAIN d.lines -> LineRow]
      /\ \A q \in DOMAIN d.lines : lines[q] = IF q = e THEN l ELSE d.lines[q]
  BY <1>2, <1>3
<1>6. \A q \in DOMAIN d.lines : lines[q].payment = {}
  BY <1>2, <1>3, <1>5 DEF IsDraft
<1>7. d \in RunRows /\ d.excluded \in SUBSET Employee /\ d.status = "draft"
  BY <1>2, RunParts DEF IsDraft
<1>8. IsDraft(r) /\ r.lines = lines
  <2> HIDE DEF d, lines
  <2>1. r = [status |-> "draft", excluded |-> d.excluded, lines |-> lines]
    BY <1>7, RunRewritten
  <2> HIDE DEF r
  <2> QED
    BY ONLY <1>2, <1>5, <1>6, <1>7, <2>1, DraftWritten
<1>9. \A q \in DOMAIN r.lines : \/ FreshLine(advance, adjustment, q, m, r.lines[q])
                                \/ (q \in DOMAIN LinesOf(m) /\ r.lines[q] = LinesOf(m)[q])
  <2> HIDE DEF d, lines, r
  <2> QED
    BY <1>1, <1>3, <1>5, <1>8
<1> HIDE DEF d, lines, r
<1> QED
  BY <1>1, <1>4, <1>8, <1>9, DraftRenewed

LEMMA RemoveLineKeeps ==
  ASSUME PayrollInv, NEW m \in Month, NEW e \in Employee, RemoveLine(m, e)
  PROVE  PayrollInv' /\ (QuietInv => QuietInv')
<1> DEFINE d == runs[m][Newest(m)]
           lines == [q \in DOMAIN d.lines \ {e} |-> d.lines[q]]
           x == d.excluded \cup {e}
           r == Written(d, lines, x)
<1>1. /\ Drafted(runs, m) /\ LinesOf(m) = NewestLines(runs, m) /\ d.lines = LinesOf(m)
      /\ Newest(m) = Len(runs[m]) /\ Newest(m) \in 1..Len(runs[m]) /\ Current(m) = "draft"
      /\ runs = [q \in Month |-> runs[q]] /\ runs[m] \in Seq(RunRows)
      /\ UNCHANGED <<advance, adjustment, books>>
  BY CurrentIs DEF RemoveLine, NewestLines
<1>2. /\ IsDraft(d) /\ d.lines \in [DOMAIN d.lines -> LineRow] /\ DOMAIN d.lines \in SUBSET Employee
  BY <1>1, DraftIs DEF PayrollInv
<1>3. d \in RunRows /\ x \in SUBSET Employee /\ d.status = "draft"
      /\ d = [status |-> d.status, excluded |-> d.excluded, lines |-> d.lines]
  BY <1>2, RunParts DEF IsDraft
<1>4. runs' = [runs EXCEPT ![m] = Renewed(runs[m], r)]
  BY <1>1, <1>3 DEF RemoveLine, Renewed, Written
<1>5. /\ lines \in [DOMAIN d.lines \ {e} -> LineRow] /\ DOMAIN d.lines \ {e} \in SUBSET Employee
      /\ \A q \in DOMAIN d.lines \ {e} : lines[q] = d.lines[q]
  BY <1>2
<1>6. \A q \in DOMAIN d.lines \ {e} : lines[q].payment = {}
  BY <1>2, <1>5 DEF IsDraft
<1>7. IsDraft(r) /\ r.lines = lines
  <2> HIDE DEF d, lines, x
  <2>1. r = [status |-> "draft", excluded |-> x, lines |-> lines]
    BY <1>3, WrittenIs
  <2> HIDE DEF r
  <2> QED
    BY ONLY <1>2, <1>3, <1>5, <1>6, <2>1, DraftWritten
<1>8. \A q \in DOMAIN r.lines : \/ FreshLine(advance, adjustment, q, m, r.lines[q])
                                \/ (q \in DOMAIN LinesOf(m) /\ r.lines[q] = LinesOf(m)[q])
  <2> HIDE DEF d, lines, x, r
  <2> QED
    BY <1>1, <1>5, <1>7
<1> HIDE DEF d, lines, x, r
<1> QED
  BY <1>1, <1>4, <1>7, <1>8, DraftRenewed

LEMMA AddLineKeeps ==
  ASSUME PayrollInv, NEW m \in Month, NEW e \in Employee, AddLine(m, e)
  PROVE  PayrollInv' /\ (QuietInv => QuietInv')
<1> DEFINE d == runs[m][Newest(m)]
           l == BuildLine(advance, adjustment, e, m, 0)
           lines == [q \in DOMAIN d.lines \cup {e} |-> IF q = e THEN l ELSE d.lines[q]]
           x == d.excluded \ {e}
           r == Written(d, lines, x)
<1>1. /\ Drafted(runs, m) /\ LinesOf(m) = NewestLines(runs, m) /\ d.lines = LinesOf(m)
      /\ Newest(m) = Len(runs[m]) /\ Newest(m) \in 1..Len(runs[m]) /\ Current(m) = "draft"
      /\ runs = [q \in Month |-> runs[q]] /\ runs[m] \in Seq(RunRows)
      /\ UNCHANGED <<advance, adjustment, books>>
  BY CurrentIs DEF AddLine, NewestLines
<1>2. /\ IsDraft(d) /\ d.lines \in [DOMAIN d.lines -> LineRow] /\ DOMAIN d.lines \in SUBSET Employee
  BY <1>1, DraftIs DEF PayrollInv
<1>3. d \in RunRows /\ x \in SUBSET Employee /\ d.status = "draft"
      /\ d = [status |-> d.status, excluded |-> d.excluded, lines |-> d.lines]
  BY <1>2, RunParts DEF IsDraft
<1>4. runs' = [runs EXCEPT ![m] = Renewed(runs[m], r)]
  BY <1>1, <1>3 DEF AddLine, Renewed, Written
<1>5. l \in LineRow /\ l.payment = {} /\ FreshLine(advance, adjustment, e, m, l)
  BY TablesHeld, BuiltLine
<1> HIDE DEF l
<1>6. /\ lines \in [DOMAIN d.lines \cup {e} -> LineRow] /\ DOMAIN d.lines \cup {e} \in SUBSET Employee
      /\ \A q \in DOMAIN d.lines \cup {e} : lines[q] = IF q = e THEN l ELSE d.lines[q]
  BY <1>2, <1>5
<1>7. \A q \in DOMAIN d.lines \cup {e} : lines[q].payment = {}
  BY <1>2, <1>5, <1>6 DEF IsDraft
<1>8. IsDraft(r) /\ r.lines = lines
  <2> HIDE DEF d, lines, x
  <2>1. r = [status |-> "draft", excluded |-> x, lines |-> lines]
    BY <1>3, WrittenIs
  <2> HIDE DEF r
  <2> QED
    BY ONLY <1>2, <1>3, <1>6, <1>7, <2>1, DraftWritten
<1>9. \A q \in DOMAIN r.lines : \/ FreshLine(advance, adjustment, q, m, r.lines[q])
                                \/ (q \in DOMAIN LinesOf(m) /\ r.lines[q] = LinesOf(m)[q])
  <2> HIDE DEF d, lines, x, r
  <2> QED
    BY <1>1, <1>5, <1>6, <1>8
<1> HIDE DEF d, lines, x, r
<1> QED
  BY <1>1, <1>4, <1>8, <1>9, DraftRenewed

(* What replacing the newest run of m by r does to references.              *)
Elsewhere(q, rs, m) == q.month # m \/ q.run # Len(rs[m])
Replaced(rs, ts, m, r) ==
    /\ AllRuns(ts) /\ Len(ts[m]) = Len(rs[m]) /\ ts[m][Len(rs[m])] = r
    /\ \A q \in Month : q # m => ts[q] = rs[q]
    /\ \A q \in RefRow : Elsewhere(q, rs, m) =>
          (q \in LinesPosted(ts) <=> q \in LinesPosted(rs)) /\ LineAt(ts, q) = LineAt(rs, q)
    /\ \A e \in Employee :
          /\ Ref(m, Len(rs[m]), e) \in RefRow /\ LineAt(ts, Ref(m, Len(rs[m]), e)) = r.lines[e]
          /\ Ref(m, Len(rs[m]), e) \in LinesPosted(ts) <=> (r.status = "posted" /\ e \in DOMAIN r.lines)

LEMMA RunReplaced ==
  ASSUME NEW rs, AllRuns(rs), NEW m \in Month, Len(rs[m]) > 0, NEW r \in RunRows, PaidWhole(r),
         NEW ts, ts = [rs EXCEPT ![m] = Renewed(rs[m], r)]
  PROVE  Replaced(rs, ts, m, r)
<1>1. RunsHeld(rs[m]) /\ Len(rs[m]) \in 1..Len(rs[m]) /\ Len(rs[m]) \in 1..MaxRuns
  BY LenProperties, PayrollAssumption DEF AllRuns, RunsHeld
<1>2. /\ ts = [q \in Month |-> ts[q]] /\ ts[m] = Renewed(rs[m], r)
      /\ \A q \in Month : q # m => ts[q] = rs[q]
  BY DEF AllRuns
<1>3. /\ RunsHeld(ts[m]) /\ Len(ts[m]) = Len(rs[m]) /\ ts[m][Len(rs[m])] = r
      /\ \A k \in 1..Len(rs[m]) : k # Len(rs[m]) => ts[m][k] = rs[m][k] /\ rs[m][k].status = "reversed"
  BY ONLY <1>1, <1>2, Len(rs[m]) > 0, r \in RunRows, PaidWhole(r), NewestReplaced
<1>4. AllRuns(ts)
  BY <1>2, <1>3 DEF AllRuns
<1>5. ASSUME NEW q \in RefRow, Elsewhere(q, rs, m)
      PROVE  (q \in LinesPosted(ts) <=> q \in LinesPosted(rs)) /\ LineAt(ts, q) = LineAt(rs, q)
  <2>1. CASE q.month # m
    <3>1. ts[q.month] = rs[q.month]
      BY <1>2, <2>1, RefParts
    <3> QED
      BY <3>1 DEF LinesPosted, LineAt
  <2>2. CASE q.month = m /\ q.run \in 1..Len(rs[m])
    <3>1. ts[q.month][q.run] = rs[q.month][q.run]
      BY <1>3, <1>5, <2>2 DEF Elsewhere
    <3> QED
      BY <1>3, <2>2, <3>1 DEF LinesPosted, LineAt, PostedAt
  <2>3. CASE q.month = m /\ q.run \notin 1..Len(rs[m])
    <3>1. q \notin LinesPosted(ts) /\ q \notin LinesPosted(rs)
      BY <1>3, <2>3 DEF LinesPosted, PostedAt
    <3>2. ts[m][q.run] = rs[m][q.run]
      <4>1. rs[m] \in Seq(RunRows) /\ q.run \notin DOMAIN rs[m] /\ q.run # Len(rs[m])
        BY <1>1, <2>3, LenProperties DEF RunsHeld
      <4> QED
        BY <1>2, <4>1 DEF Renewed
    <3> QED
      BY <2>3, <3>1, <3>2 DEF LineAt
  <2> QED
    BY <2>1, <2>2, <2>3
<1>6. ASSUME NEW e \in Employee
      PROVE  /\ Ref(m, Len(rs[m]), e) \in RefRow /\ LineAt(ts, Ref(m, Len(rs[m]), e)) = r.lines[e]
             /\ Ref(m, Len(rs[m]), e) \in LinesPosted(ts) <=> (r.status = "posted" /\ e \in DOMAIN r.lines)
  <2>1. Ref(m, Len(rs[m]), e) \in RefRow
    BY <1>1 DEF Ref, RefRow
  <2>2. /\ Ref(m, Len(rs[m]), e).month = m /\ Ref(m, Len(rs[m]), e).run = Len(rs[m])
        /\ Ref(m, Len(rs[m]), e).employee = e
    BY RefDiffers
  <2> QED
    BY <1>1, <1>3, <2>1, <2>2 DEF LinesPosted, LineAt, PostedAt
<1> QED
  BY <1>2, <1>3, <1>4, <1>5, <1>6 DEF Replaced

(* The same lines are posted, with the same amounts.                        *)
AlikeLines(l, k) ==
    l.deducted = k.deducted /\ l.bonus = k.bonus /\ l.penalty = k.penalty /\ l.net = k.net
Alike(rs, ts) ==
    /\ AllRuns(ts) /\ LinesPosted(ts) = LinesPosted(rs)
    /\ \A q \in LinesPosted(rs) : AlikeLines(LineAt(ts, q), LineAt(rs, q))

LEMMA AlikeKeeps ==
  ASSUME PayrollInv, Alike(runs, runs'), UNCHANGED <<advance, adjustment>>,
         books' \in [Accounts -> Int], books'["advances"] = books["advances"],
         books'["payable"] = Payable(runs'), books'["insurance"] = Insured(runs'),
         \A m \in Month : runs'[m] = runs[m] \/ ~ Drafted(runs', m)
  PROVE  PayrollInv' /\ (QuietInv => QuietInv')
<1>1. HeldBack(runs') = HeldBack(runs)
  <2> DEFINE f == [r \in LinesPosted(runs) |-> LineAt(runs', r).deducted]
             g == [r \in LinesPosted(runs) |-> LineAt(runs, r).deducted]
  <2>1. (\A r \in LinesPosted(runs) : f[r] = g[r]) /\ IsFiniteSet(LinesPosted(runs))
    BY PostedFinite DEF Alike, AlikeLines
  <2> HIDE DEF f, g
  <2>2. SumFunctionOnSet(f, LinesPosted(runs)) = SumFunctionOnSet(g, LinesPosted(runs))
    BY <2>1, SumSame
  <2> QED
    BY <2>2 DEF HeldBack, f, g, Alike
<1>2. BooksSay(books', advance', runs')
  BY <1>1 DEF BooksSay, PayrollInv
<1>3. PayrollInv'
  BY <1>2 DEF PayrollInv, Alike
<1>4. ASSUME QuietInv PROVE QuietInv'
  <2>1. Counts(advance, adjustment, runs')
    BY <1>4 DEF QuietInv, Counts, Alike, AlikeLines
  <2>2. Fresh(advance, adjustment, runs')
    BY <1>4 DEF QuietInv, Fresh, Drafted, NewestLines
  <2> QED
    BY <2>1, <2>2 DEF QuietInv
<1> QED
  BY <1>3, <1>4

LEMMA PostedIs ==
  ASSUME PayrollInv, NEW m \in Month, Current(m) = "posted"
  PROVE  LET d == runs[m][Newest(m)] IN
         /\ LinesOf(m) = d.lines /\ d \in RunRows /\ d.status = "posted" /\ PaidWhole(d)
         /\ Newest(m) = Len(runs[m]) /\ Newest(m) \in 1..Len(runs[m]) /\ Len(runs[m]) > 0
         /\ runs = [q \in Month |-> runs[q]] /\ RunsHeld(runs[m]) /\ AllRuns(runs)
         /\ runs[m] \in Seq(RunRows)
         /\ DOMAIN d.lines \in SUBSET Employee /\ d.lines \in [DOMAIN d.lines -> LineRow]
<1>1. RunsHeld(runs[m]) /\ runs = [q \in Month |-> runs[q]] /\ AllRuns(runs) /\ runs[m] \in Seq(RunRows)
  BY DEF PayrollInv, AllRuns, RunsHeld
<1>2. /\ Newest(m) = Len(runs[m]) /\ Newest(m) \in 1..Len(runs[m]) /\ Len(runs[m]) > 0
      /\ LinesOf(m) = runs[m][Newest(m)].lines /\ runs[m][Newest(m)].status = "posted"
  BY <1>1, PayrollNull, LenProperties DEF Current, Newest, LinesOf
<1>3. runs[m][Newest(m)] \in RunRows /\ PaidWhole(runs[m][Newest(m)])
  BY <1>1, <1>2, RunAt DEF RunsHeld
<1> QED
  BY <1>1, <1>2, <1>3, RunParts

LEMMA PaymentWritten ==
  ASSUME NEW l \in LineRow, NEW E \in SUBSET Employee, NEW k, k = [l EXCEPT !.payment = E]
  PROVE  k \in LineRow /\ AlikeLines(k, l) /\ k.payment = E
BY DEF LineRow, AlikeLines

(* The lines of a posted run get other payments.                            *)
LEMMA PaymentsChange ==
  ASSUME PayrollInv, NEW m \in Month, Current(m) = "posted",
         NEW lines \in [DOMAIN LinesOf(m) -> LineRow],
         \A e \in DOMAIN LinesOf(m) : AlikeLines(lines[e], LinesOf(m)[e]),
         NEW r, r = [runs[m][Newest(m)] EXCEPT !.lines = lines], PaidWhole(r),
         runs' = [runs EXCEPT ![m] = Renewed(runs[m], r)]
  PROVE  /\ Alike(runs, runs')
         /\ \A q \in Month : runs'[q] = runs[q] \/ ~ Drafted(runs', q)
         /\ \A q \in LinesPosted(runs) : Elsewhere(q, runs, m) => LineAt(runs', q) = LineAt(runs, q)
         /\ \A e \in DOMAIN LinesOf(m) :
              /\ Ref(m, Len(runs[m]), e) \in LinesPosted(runs)
              /\ LineAt(runs', Ref(m, Len(runs[m]), e)) = lines[e]
              /\ LineAt(runs, Ref(m, Len(runs[m]), e)) = LinesOf(m)[e]
         /\ \A q \in LinesPosted(runs) : ~ Elsewhere(q, runs, m) =>
              q.employee \in DOMAIN LinesOf(m) /\ q = Ref(m, Len(runs[m]), q.employee)
<1> DEFINE d == runs[m][Newest(m)]
           k == Len(runs[m])
<1>1. /\ LinesOf(m) = d.lines /\ d \in RunRows /\ d.status = "posted" /\ PaidWhole(d)
      /\ Newest(m) = k /\ k \in 1..k /\ k > 0 /\ AllRuns(runs) /\ RunsHeld(runs[m])
      /\ DOMAIN d.lines \in SUBSET Employee /\ k \in 1..MaxRuns
  BY PostedIs, PayrollAssumption DEF RunsHeld
<1>2. r \in RunRows /\ r.status = "posted" /\ r.lines = lines /\ DOMAIN lines = DOMAIN LinesOf(m)
  <2> HIDE DEF d
  <2>1. d.excluded \in SUBSET Employee /\ "posted" \in {"draft", "posted", "reversed"}
    BY <1>1, RunParts
  <2>2. r = [status |-> "posted", excluded |-> d.excluded, lines |-> lines]
    BY <1>1, RunRewritten DEF d
  <2>3. r \in RunRows
    BY ONLY <1>1, <2>1, <2>2, lines \in [DOMAIN LinesOf(m) -> LineRow], RunMade
  <2> QED
    BY <2>2, <2>3
<1>3. Replaced(runs, runs', m, r)
  BY <1>1, <1>2, RunReplaced
<1>4. ASSUME NEW e \in DOMAIN LinesOf(m)
      PROVE  /\ Ref(m, k, e) \in LinesPosted(runs) /\ Ref(m, k, e) \in LinesPosted(runs')
             /\ LineAt(runs', Ref(m, k, e)) = lines[e] /\ LineAt(runs, Ref(m, k, e)) = LinesOf(m)[e]
  <2>1. e \in Employee /\ Ref(m, k, e) \in RefRow
    BY <1>1, <1>3 DEF Replaced
  <2>2. Ref(m, k, e) \in LinesPosted(runs) /\ LineAt(runs, Ref(m, k, e)) = LinesOf(m)[e]
    BY <1>1, <2>1, RefDiffers DEF LinesPosted, LineAt, PostedAt
  <2> QED
    BY <1>2, <1>3, <2>1, <2>2 DEF Replaced
<1>5. ASSUME NEW q \in RefRow, ~ Elsewhere(q, runs, m)
      PROVE  /\ q = Ref(m, k, q.employee) /\ q.employee \in Employee
             /\ q \in LinesPosted(runs) => q.employee \in DOMAIN LinesOf(m)
             /\ q \in LinesPosted(runs') => q.employee \in DOMAIN LinesOf(m)
  <2>1. q.month = m /\ q.run = k /\ q = Ref(m, k, q.employee) /\ q.employee \in Employee
    BY <1>5, RefParts DEF Elsewhere
  <2>2. q \in LinesPosted(runs) => q.employee \in DOMAIN LinesOf(m)
    BY <1>1, <2>1 DEF LinesPosted
  <2>3. q \in LinesPosted(runs') => q.employee \in DOMAIN LinesOf(m)
    BY <1>2, <1>3, <2>1 DEF Replaced
  <2> QED
    BY <2>1, <2>2, <2>3
<1>6. LinesPosted(runs) \subseteq RefRow /\ LinesPosted(runs') \subseteq RefRow
  BY PostedFinite
<1> HIDE DEF k, d
<1>7. \A q \in RefRow : Elsewhere(q, runs, m) =>
         (q \in LinesPosted(runs') <=> q \in LinesPosted(runs)) /\ LineAt(runs', q) = LineAt(runs, q)
  BY <1>3 DEF Replaced
<1>8. LinesPosted(runs') = LinesPosted(runs)
  <2>1. ASSUME NEW q \in RefRow PROVE q \in LinesPosted(runs') <=> q \in LinesPosted(runs)
    BY <1>4, <1>5, <1>7
  <2> QED
    BY <1>6, <2>1
<1>9. ASSUME NEW q \in LinesPosted(runs) PROVE AlikeLines(LineAt(runs', q), LineAt(runs, q))
  <2>1. CASE Elsewhere(q, runs, m)
    BY <1>6, <1>7, <2>1 DEF AlikeLines
  <2>2. CASE ~ Elsewhere(q, runs, m)
    <3>1. q.employee \in DOMAIN LinesOf(m) /\ q = Ref(m, k, q.employee)
      BY <1>5, <1>6, <2>2
    <3>2. LineAt(runs', q) = lines[q.employee] /\ LineAt(runs, q) = LinesOf(m)[q.employee]
      BY <1>4, <3>1
    <3> QED
      BY <3>1, <3>2
  <2> QED
    BY <2>1, <2>2
<1>10. Alike(runs, runs')
  BY <1>3, <1>8, <1>9 DEF Alike, Replaced
<1>11. \A q \in Month : runs'[q] = runs[q] \/ ~ Drafted(runs', q)
  BY <1>2, <1>3 DEF Replaced, Drafted
<1> QED
  BY <1>4, <1>5, <1>6, <1>7, <1>10, <1>11 DEF k

(* The lines of E come to be paid together, or to be unpaid.                *)
Settled(lines, E, P) ==
    [e \in DOMAIN lines |-> IF e \in E THEN [lines[e] EXCEPT !.payment = P] ELSE lines[e]]

Repaid(t, D, lines, E, P) ==
    /\ t \in [D -> LineRow] /\ \A e \in D : AlikeLines(t[e], lines[e])
    /\ \A e \in D : t[e].payment = IF e \in E THEN P ELSE lines[e].payment

LEMMA SettledIs ==
  ASSUME NEW D \in SUBSET Employee, NEW lines \in [D -> LineRow], NEW E \in SUBSET D,
         NEW P \in SUBSET Employee, NEW t, t = Settled(lines, E, P)
  PROVE  Repaid(t, D, lines, E, P)
<1>1. \A e \in D : t[e] = IF e \in E THEN [lines[e] EXCEPT !.payment = P] ELSE lines[e]
  BY DEF Settled
<1>2. ASSUME NEW e \in D PROVE t[e] \in LineRow /\ AlikeLines(t[e], lines[e])
        /\ t[e].payment = IF e \in E THEN P ELSE lines[e].payment
  <2>1. CASE e \in E
    <3>1. lines[e] \in LineRow /\ t[e] = [lines[e] EXCEPT !.payment = P]
      BY <1>1, <2>1
    <3>2. t[e] \in LineRow /\ AlikeLines(t[e], lines[e]) /\ t[e].payment = P
      BY ONLY <3>1, P \in SUBSET Employee, PaymentWritten
    <3> QED
      BY <2>1, <3>2
  <2>2. CASE e \notin E
    BY <1>1, <2>2 DEF AlikeLines
  <2> QED
    BY <2>1, <2>2
<1>3. t = [e \in D |-> t[e]]
  BY DEF Settled
<1> QED
  BY <1>2, <1>3 DEF Repaid

(* One payment is made or undone: of the two, rs has the lines of E unpaid. *)
OnePayment(rs, ts, m, k, E) ==
    /\ Alike(rs, ts) /\ AllRuns(rs) /\ E \in SUBSET Employee
    /\ \A e \in E : /\ Ref(m, k, e) \in LinesPosted(rs)
                    /\ LineAt(rs, Ref(m, k, e)).payment = {} /\ LineAt(ts, Ref(m, k, e)).payment # {}
    /\ \A q \in LinesPosted(rs) : \/ q \in RefsOf(m, k, E)
                                  \/ LineAt(ts, q).payment = LineAt(rs, q).payment

LEMMA PaymentOnBooks ==
  ASSUME NEW rs, NEW ts, NEW m, NEW k, NEW E, OnePayment(rs, ts, m, k, E),
         NEW net, \A e \in E : net[e] = LineAt(rs, Ref(m, k, e)).net
  PROVE  /\ Payable(rs) = Payable(ts) + SumFunctionOnSet(net, E)
         /\ Insured(rs) = Insured(ts) + SumFunctionOnSet(Insurance, E)
         /\ Payable(ts) \in Int /\ SumFunctionOnSet(net, E) \in Int
         /\ Insured(ts) \in Int /\ SumFunctionOnSet(Insurance, E) \in Int
<1>1. AllRuns(rs) /\ AllRuns(ts) /\ LinesPosted(ts) = LinesPosted(rs) /\ E \in SUBSET Employee
  BY DEF OnePayment, Alike
<1>2. \A q \in RefsOf(m, k, E) : /\ q \in LinesPosted(rs) /\ LineAt(rs, q).payment = {}
                                 /\ LineAt(ts, q).payment # {}
  BY DEF OnePayment, RefsOf
<1>3. \A q \in LinesPosted(rs) : q \notin RefsOf(m, k, E) => LineAt(ts, q).payment = LineAt(rs, q).payment
  BY DEF OnePayment
<1>4. UnpaidLines(rs) = UnpaidLines(ts) \cup RefsOf(m, k, E) /\ UnpaidLines(ts) \cap RefsOf(m, k, E) = {}
  BY <1>1, <1>2, <1>3 DEF UnpaidLines
<1>5. \A q \in UnpaidLines(ts) : LineAt(rs, q).net = LineAt(ts, q).net
  BY <1>1 DEF UnpaidLines, OnePayment, Alike, AlikeLines
<1> QED
  BY ONLY <1>1, <1>4, <1>5, \A e \in E : net[e] = LineAt(rs, Ref(m, k, e)).net, UnpaidGains

LEMMA PayKeeps ==
  ASSUME PayrollInv, NEW m \in Month, NEW E \in SUBSET Employee, Pay(m, E)
  PROVE  PayrollInv' /\ (QuietInv => QuietInv')
<1> DEFINE d == runs[m][Newest(m)]
           k == Len(runs[m])
           lines == Settled(d.lines, E, E)
           r == [d EXCEPT !.lines = lines]
           net == [e \in E |-> LinesOf(m)[e].net]
<1>1. /\ Current(m) = "posted" /\ E # {} /\ E \in SUBSET DOMAIN d.lines
      /\ \A e \in E : d.lines[e].payment = {}
  BY PostedIs DEF Pay
<1>2. /\ LinesOf(m) = d.lines /\ d \in RunRows /\ d.status = "posted" /\ PaidWhole(d)
      /\ Newest(m) = k /\ k \in 1..k /\ runs = [q \in Month |-> runs[q]] /\ AllRuns(runs)
      /\ runs[m] \in Seq(RunRows)
      /\ DOMAIN d.lines \in SUBSET Employee /\ d.lines \in [DOMAIN d.lines -> LineRow]
  BY <1>1, PostedIs
<1>3. runs' = [runs EXCEPT ![m] = Renewed(runs[m], r)] /\ UNCHANGED <<advance, adjustment>>
  BY <1>2 DEF Pay, Renewed, Settled
<1>4. /\ lines \in [DOMAIN d.lines -> LineRow] /\ \A e \in DOMAIN d.lines : AlikeLines(lines[e], d.lines[e])
      /\ \A e \in DOMAIN d.lines : lines[e].payment = IF e \in E THEN E ELSE d.lines[e].payment
  <2>1. PICK D \in SUBSET Employee : D = DOMAIN d.lines
    BY <1>2
  <2>2. PICK w \in [D -> LineRow] : w = d.lines
    BY <1>2, <2>1
  <2>3. E \in SUBSET D /\ lines = Settled(w, E, E)
    BY <1>1, <2>1, <2>2
  <2> HIDE DEF d, lines
  <2>4. Repaid(lines, D, w, E, E)
    BY ONLY <2>3, D \in SUBSET Employee, w \in [D -> LineRow], E \in SUBSET Employee, SettledIs
  <2> QED
    BY <2>1, <2>2, <2>4 DEF Repaid
<1> HIDE DEF lines
<1>5. PaidWhole(r)
  <2>1. r.status = "posted" /\ r.lines = lines
    BY <1>2, RunRewritten
  <2> HIDE DEF d, r
  <2>2. ASSUME NEW e \in DOMAIN d.lines, lines[e].payment # {}
        PROVE  /\ e \in lines[e].payment /\ lines[e].payment \subseteq DOMAIN d.lines
               /\ \A q \in lines[e].payment : lines[q].payment = lines[e].payment
    <3>1. CASE e \in E
      BY <1>1, <1>4, <3>1
    <3>2. CASE e \notin E
      BY <1>1, <1>2, <1>4, <2>2, <3>2 DEF PaidWhole
    <3> QED
      BY <3>1, <3>2
  <2> QED
    BY <1>4, <2>1, <2>2 DEF PaidWhole
<1>6. /\ Alike(runs, runs')
      /\ \A q \in Month : runs'[q] = runs[q] \/ ~ Drafted(runs', q)
      /\ \A q \in LinesPosted(runs) : Elsewhere(q, runs, m) => LineAt(runs', q) = LineAt(runs, q)
      /\ \A e \in DOMAIN LinesOf(m) :
           /\ Ref(m, k, e) \in LinesPosted(runs)
           /\ LineAt(runs', Ref(m, k, e)) = lines[e]
           /\ LineAt(runs, Ref(m, k, e)) = LinesOf(m)[e]
      /\ \A q \in LinesPosted(runs) : ~ Elsewhere(q, runs, m) =>
           q.employee \in DOMAIN LinesOf(m) /\ q = Ref(m, k, q.employee)
  <2>1. lines \in [DOMAIN LinesOf(m) -> LineRow] /\ \A e \in DOMAIN LinesOf(m) : AlikeLines(lines[e], LinesOf(m)[e])
    BY <1>2, <1>4
  <2>2. r = [runs[m][Newest(m)] EXCEPT !.lines = lines]
    OBVIOUS
  <2> HIDE DEF d, r
  <2> QED
    BY <1>1, <1>3, <1>5, <2>1, <2>2, PaymentsChange
<1> HIDE DEF d, r, k
<1>7. OnePayment(runs, runs', m, k, E)
  <2>1. \A e \in E : /\ Ref(m, k, e) \in LinesPosted(runs)
                     /\ LineAt(runs, Ref(m, k, e)).payment = {} /\ LineAt(runs', Ref(m, k, e)).payment # {}
    BY ZenonT(40), <1>1, <1>2, <1>4, <1>6
  <2>2. ASSUME NEW q \in LinesPosted(runs), q \notin RefsOf(m, k, E)
        PROVE  LineAt(runs', q).payment = LineAt(runs, q).payment
    <3>1. CASE Elsewhere(q, runs, m)
      BY <1>6, <3>1
    <3>2. CASE ~ Elsewhere(q, runs, m)
      <4>1. q.employee \in DOMAIN LinesOf(m) /\ q = Ref(m, k, q.employee) /\ q.employee \notin E
        BY <1>6, <2>2, <3>2 DEF RefsOf
      <4> QED
        BY <1>2, <1>4, <1>6, <4>1
    <3> QED
      BY <3>1, <3>2
  <2> QED
    BY <1>1, <1>2, <1>6, <2>1, <2>2 DEF OnePayment
<1>8. /\ Payable(runs) = Payable(runs') + SumFunctionOnSet(net, E)
      /\ Insured(runs) = Insured(runs') + SumFunctionOnSet(Insurance, E)
      /\ Payable(runs') \in Int /\ SumFunctionOnSet(net, E) \in Int
      /\ Insured(runs') \in Int /\ SumFunctionOnSet(Insurance, E) \in Int
  <2>1. \A e \in E : net[e] = LineAt(runs, Ref(m, k, e)).net
    BY <1>1, <1>2, <1>6
  <2> HIDE DEF net
  <2> QED
    BY <1>7, <2>1, PaymentOnBooks
<1>9. /\ books' = [books EXCEPT !["payable"] = @ - SumFunctionOnSet(net, E),
                                !["insurance"] = @ - SumFunctionOnSet(Insurance, E)]
      /\ books \in [Accounts -> Int] /\ books["payable"] = Payable(runs) /\ books["insurance"] = Insured(runs)
  BY DEF Pay, NetOf, InsuranceOf, PayrollInv, BooksSay
<1> HIDE DEF net
<1>10. books' \in [Accounts -> Int] /\ books'["advances"] = books["advances"]
       /\ books'["payable"] = Payable(runs') /\ books'["insurance"] = Insured(runs')
  BY <1>8, <1>9 DEF Accounts
<1> QED
  BY <1>3, <1>6, <1>10, AlikeKeeps
LEMMA UnpayKeeps ==
  ASSUME PayrollInv, NEW m \in Month, NEW c \in Employee, Unpay(m, c)
  PROVE  PayrollInv' /\ (QuietInv => QuietInv')
<1> DEFINE d == runs[m][Newest(m)]
           k == Len(runs[m])
           E == d.lines[c].payment
           lines == Settled(d.lines, E, {})
           r == [d EXCEPT !.lines = lines]
           net == [e \in E |-> LinesOf(m)[e].net]
<1>1. Current(m) = "posted" /\ c \in DOMAIN LinesOf(m) /\ LinesOf(m)[c].payment # {}
  <2>1. c \in DOMAIN LinesOf(m) /\ LinesOf(m)[c].payment # {}
    BY DEF Unpay
  <2>2. Newest(m) > 0 /\ LinesOf(m) = d.lines /\ RunsHeld(runs[m]) /\ Newest(m) \in 1..Len(runs[m])
    <3>1. RunsHeld(runs[m])
      BY DEF PayrollInv, AllRuns
    <3> QED
      BY <2>1, <3>1, NoneIsFunction, LenProperties DEF LinesOf, Newest, RunsHeld
  <2>3. PaidWhole(d)
    BY <2>2 DEF RunsHeld
  <2> QED
    BY <2>1, <2>2, <2>3 DEF PaidWhole, Current
<1>2. /\ LinesOf(m) = d.lines /\ d \in RunRows /\ d.status = "posted" /\ PaidWhole(d)
      /\ Newest(m) = k /\ k \in 1..k /\ runs = [q \in Month |-> runs[q]] /\ AllRuns(runs)
      /\ runs[m] \in Seq(RunRows)
      /\ DOMAIN d.lines \in SUBSET Employee /\ d.lines \in [DOMAIN d.lines -> LineRow]
  BY <1>1, PostedIs
<1>0. /\ E \in SUBSET DOMAIN d.lines /\ E # {} /\ E = LinesOf(m)[c].payment /\ E \in SUBSET Employee
      /\ \A e \in E : d.lines[e].payment = E
  BY <1>1, <1>2 DEF PaidWhole
<1>3. runs' = [runs EXCEPT ![m] = Renewed(runs[m], r)] /\ UNCHANGED <<advance, adjustment>>
  BY <1>2 DEF Unpay, Renewed, Settled
<1> HIDE DEF E
<1>4. /\ lines \in [DOMAIN d.lines -> LineRow] /\ \A e \in DOMAIN d.lines : AlikeLines(lines[e], d.lines[e])
      /\ \A e \in DOMAIN d.lines : lines[e].payment = IF e \in E THEN {} ELSE d.lines[e].payment
  <2>1. PICK D \in SUBSET Employee : D = DOMAIN d.lines
    BY <1>2
  <2>2. PICK w \in [D -> LineRow] : w = d.lines
    BY <1>2, <2>1
  <2>3. E \in SUBSET D /\ lines = Settled(w, E, {})
    BY <1>0, <2>1, <2>2
  <2> HIDE DEF d, lines
  <2>4. Repaid(lines, D, w, E, {})
    <3>1. {} \in SUBSET Employee
      OBVIOUS
    <3> QED
      BY ONLY <2>3, <3>1, D \in SUBSET Employee, w \in [D -> LineRow], SettledIs
  <2> QED
    BY <2>1, <2>2, <2>4 DEF Repaid
<1> HIDE DEF lines
<1>5. PaidWhole(r)
  <2>1. r.status = "posted" /\ r.lines = lines
    BY <1>2, RunRewritten
  <2> HIDE DEF d, r
  <2>2. ASSUME NEW e \in DOMAIN d.lines, lines[e].payment # {}
        PROVE  /\ e \in lines[e].payment /\ lines[e].payment \subseteq DOMAIN d.lines
               /\ \A q \in lines[e].payment : lines[q].payment = lines[e].payment
    <3>1. e \notin E /\ lines[e].payment = d.lines[e].payment
      BY <1>4, <2>2
    <3>2. /\ e \in lines[e].payment /\ lines[e].payment \subseteq DOMAIN d.lines
          /\ \A q \in lines[e].payment : d.lines[q].payment = lines[e].payment
      BY <1>2, <2>2, <3>1 DEF PaidWhole
    <3>3. \A q \in lines[e].payment : q \notin E
      BY <1>0, <3>1, <3>2
    <3> QED
      BY <1>4, <3>2, <3>3
  <2> QED
    BY <1>4, <2>1, <2>2 DEF PaidWhole
<1>6. /\ Alike(runs, runs')
      /\ \A q \in Month : runs'[q] = runs[q] \/ ~ Drafted(runs', q)
      /\ \A q \in LinesPosted(runs) : Elsewhere(q, runs, m) => LineAt(runs', q) = LineAt(runs, q)
      /\ \A e \in DOMAIN LinesOf(m) :
           /\ Ref(m, k, e) \in LinesPosted(runs)
           /\ LineAt(runs', Ref(m, k, e)) = lines[e]
           /\ LineAt(runs, Ref(m, k, e)) = LinesOf(m)[e]
      /\ \A q \in LinesPosted(runs) : ~ Elsewhere(q, runs, m) =>
           q.employee \in DOMAIN LinesOf(m) /\ q = Ref(m, k, q.employee)
  <2>1. lines \in [DOMAIN LinesOf(m) -> LineRow] /\ \A e \in DOMAIN LinesOf(m) : AlikeLines(lines[e], LinesOf(m)[e])
    BY <1>2, <1>4
  <2>2. r = [runs[m][Newest(m)] EXCEPT !.lines = lines]
    OBVIOUS
  <2> HIDE DEF d, r
  <2> QED
    BY <1>1, <1>3, <1>5, <2>1, <2>2, PaymentsChange
<1> HIDE DEF d, r, k
<1>7. OnePayment(runs', runs, m, k, E)
  <2>1. \A e \in E : /\ Ref(m, k, e) \in LinesPosted(runs)
                     /\ LineAt(runs', Ref(m, k, e)).payment = {} /\ LineAt(runs, Ref(m, k, e)).payment # {}
    <3> SUFFICES ASSUME NEW e \in E
                 PROVE  /\ Ref(m, k, e) \in LinesPosted(runs)
                        /\ LineAt(runs', Ref(m, k, e)).payment = {} /\ LineAt(runs, Ref(m, k, e)).payment # {}
      OBVIOUS
    <3>1. e \in DOMAIN LinesOf(m) /\ e \in DOMAIN d.lines /\ LinesOf(m)[e].payment = E /\ E # {}
      BY <1>0, <1>2
    <3>2. lines[e].payment = {}
      BY <1>4, <3>1
    <3> QED
      BY <1>6, <3>1, <3>2
  <2>2. ASSUME NEW q \in LinesPosted(runs), q \notin RefsOf(m, k, E)
        PROVE  LineAt(runs', q).payment = LineAt(runs, q).payment
    <3>1. CASE Elsewhere(q, runs, m)
      BY <1>6, <3>1
    <3>2. CASE ~ Elsewhere(q, runs, m)
      <4>1. q.employee \in DOMAIN LinesOf(m) /\ q = Ref(m, k, q.employee) /\ q.employee \notin E
        BY <1>6, <2>2, <3>2 DEF RefsOf
      <4> QED
        BY <1>2, <1>4, <1>6, <4>1
    <3> QED
      BY <3>1, <3>2
  <2> QED
    BY <1>0, <1>2, <1>6, <2>1, <2>2 DEF OnePayment, Alike, AlikeLines
<1>8. /\ Payable(runs') = Payable(runs) + SumFunctionOnSet(net, E)
      /\ Insured(runs') = Insured(runs) + SumFunctionOnSet(Insurance, E)
      /\ Payable(runs) \in Int /\ SumFunctionOnSet(net, E) \in Int
      /\ Insured(runs) \in Int /\ SumFunctionOnSet(Insurance, E) \in Int
  <2>1. \A e \in E : net[e] = LineAt(runs', Ref(m, k, e)).net
    BY <1>0, <1>2, <1>4, <1>6 DEF AlikeLines
  <2> HIDE DEF net
  <2> QED
    BY <1>7, <2>1, PaymentOnBooks
<1>9. /\ books' = [books EXCEPT !["payable"] = @ + SumFunctionOnSet(net, E),
                                !["insurance"] = @ + SumFunctionOnSet(Insurance, E)]
      /\ books \in [Accounts -> Int] /\ books["payable"] = Payable(runs) /\ books["insurance"] = Insured(runs)
  BY <1>0 DEF Unpay, NetOf, InsuranceOf, PayrollInv, BooksSay
<1> HIDE DEF net
<1>10. books' \in [Accounts -> Int] /\ books'["advances"] = books["advances"]
       /\ books'["payable"] = Payable(runs') /\ books'["insurance"] = Insured(runs')
  BY <1>8, <1>9 DEF Accounts
<1> QED
  BY <1>3, <1>6, <1>10, AlikeKeeps

(* On the screen of advances, with nothing changed that a draft has read.   *)
LEMMA QuietScreen ==
  ASSUME QuietInv, PayrollInv, UntakenAdvances(advance, advance'), UntakenAdjustments(adjustment, adjustment'),
         runs' = runs, NoDraftRead
  PROVE  QuietInv'
<1>1. AllRuns(runs)
  BY DEF PayrollInv
<1>2. Counts(advance', adjustment', runs')
  BY <1>1, SameRuns, CountsKept DEF QuietInv
<1>3. ASSUME NEW m \in Month, Drafted(runs, m), NEW e \in DOMAIN NewestLines(runs, m)
      PROVE  Reads(advance', adjustment', e, m) = Reads(advance, adjustment, e, m)
  <2>1. ~ NoDraftOf(e, m)
    BY <1>3 DEF NoDraftOf, Current, LinesOf, Newest, Drafted, NewestLines
  <2>2. \A a \in Advance : advance'[a] = advance[a]
           \/ (AdvanceApart(advance[a], e, m) /\ AdvanceApart(advance'[a], e, m))
    BY <2>1 DEF NoDraftRead, AdvanceApart
  <2>3. \A x \in Adjustment : adjustment'[x] = adjustment[x]
           \/ (AdjustmentApart(adjustment[x], e, m) /\ AdjustmentApart(adjustment'[x], e, m))
    BY <2>1 DEF NoDraftRead, AdjustmentApart
  <2>4. Owed(advance', e, m) = Owed(advance, e, m)
    BY <2>2, OwedSame
  <2>5. \A kind : Counted(adjustment', e, m, kind) = Counted(adjustment, e, m, kind)
    BY <2>3, CountedSame
  <2> QED
    BY <2>4, <2>5 DEF Reads
<1>4. Carried(runs, runs', advance, adjustment, advance', adjustment')
  BY <1>3 DEF Carried
<1>5. Fresh(advance', adjustment', runs')
  BY <1>4, FreshCarried DEF QuietInv
<1> QED
  BY <1>2, <1>5 DEF QuietInv

(* What is due on a row, and the row with that part taken by a line.        *)
IsDue(r, e, m) ==
    r # Null /\ r.employee = e /\ r.status = "active" /\ m \in DOMAIN r.parts /\ r.taken[m] = Null
Marked(r, s, m, ref) ==
    /\ s # Null /\ s.employee = r.employee /\ s.parts = r.parts
    /\ s.taken = [r.taken EXCEPT ![m] = ref]
    /\ s.status = IF \A q \in DOMAIN r.parts : s.taken[q] # Null THEN "settled" ELSE "active"

LEMMA MarkedHeld ==
  ASSUME NEW P, NEW r, AdvanceHeld(r, P), NEW m \in Month, NEW e, IsDue(r, e, m),
         NEW Q, P \subseteq Q, NEW ref \in Q, ref \in RefRow, ref.month = m, ref.employee = r.employee,
         NEW s, s = [employee |-> r.employee, parts |-> r.parts, taken |-> [r.taken EXCEPT ![m] = ref],
                     status |-> IF \A q \in DOMAIN r.parts : [r.taken EXCEPT ![m] = ref][q] # Null
                                THEN "settled" ELSE "active"]
  PROVE  AdvanceHeld(s, Q) /\ Marked(r, s, m, ref)
<1> DEFINE t == [r.taken EXCEPT ![m] = ref]
           D == DOMAIN r.parts
<1>1. /\ r.employee \in Employee /\ D \in SUBSET Month /\ r.parts \in [D -> Int]
      /\ r.taken \in [D -> RefRow \cup {Null}] /\ m \in D
  BY AdvanceParts DEF IsDue
<1>2. t \in [D -> RefRow \cup {Null}] /\ \A q \in D : t[q] = IF q = m THEN ref ELSE r.taken[q]
  BY <1>1
<1>3. s.employee = r.employee /\ s.parts = r.parts /\ s.taken = t
      /\ s.status = IF \A q \in D : t[q] # Null THEN "settled" ELSE "active"
  OBVIOUS
<1>4. s.status \in {"active", "settled", "cancelled"} /\ s = [employee |-> r.employee, status |-> s.status,
                                                             parts |-> r.parts, taken |-> t]
  BY <1>3
<1> HIDE DEF t
<1>5. s \in AdvanceRow(D)
  BY <1>1, <1>2, <1>4 DEF AdvanceRow
<1>6. \A q \in D : t[q] # Null => t[q] \in Q /\ t[q].month = q /\ t[q].employee = s.employee
  BY <1>1, <1>2, <1>3 DEF AdvanceHeld
<1>7. AdvanceHeld(s, Q)
  BY <1>1, <1>2, <1>3, <1>5, <1>6 DEF AdvanceHeld
<1>8. s # Null
  BY <1>1, <1>5, PayrollNull
<1>9. Marked(r, s, m, ref)
  BY <1>3, <1>8 DEF Marked, t
<1> QED
  BY <1>7, <1>9

LEMMA HeldMore ==
  ASSUME NEW P, NEW r, AdvanceHeld(r, P), NEW Q, P \subseteq Q
  PROVE  AdvanceHeld(r, Q)
BY DEF AdvanceHeld

Consumed(adv, bdv, m, k, E) ==
    /\ bdv = [a \in Advance |-> bdv[a]]
    /\ \A a \in Advance :
          \/ \E e \in E : IsDue(adv[a], e, m) /\ Marked(adv[a], bdv[a], m, Ref(m, k, e))
          \/ (\A e \in E : ~ IsDue(adv[a], e, m)) /\ bdv[a] = adv[a]

LEMMA DueRows ==
  ASSUME NEW adv, NEW e, NEW m, NEW a \in Advance
  PROVE  a \in DueIn(adv, e, m) <=> IsDue(adv[a], e, m)
BY DEF DueIn, IsDue

LEMMA ConsumeRows ==
  ASSUME NEW P, AdvancesHeld(advance, P), NEW m \in Month, NEW k \in 1..MaxRuns, NEW E \in SUBSET Employee,
         E = DOMAIN runs[m][k].lines, NEW Q, P \subseteq Q, \A e \in E : Ref(m, k, e) \in Q, Consume(m, k)
  PROVE  AdvancesHeld(advance', Q) /\ Consumed(advance, advance', m, k, E)
<1> DEFINE taken(a) == \E e \in E : a \in DueIn(advance, e, m)
           marked(a) == IF taken(a) THEN [advance[a] EXCEPT !.taken[m] = Ref(m, k, advance[a].employee)]
                        ELSE advance[a]
           whole(r) == r # Null /\ r.status = "active" /\ \A q \in DOMAIN r.parts : r.taken[q] # Null
<1>1. advance' = [a \in Advance |->
            IF whole(marked(a)) THEN [marked(a) EXCEPT !.status = "settled"] ELSE marked(a)]
  BY DEF Consume
<1> HIDE DEF whole, marked, taken
<1>2. advance' = [a \in Advance |-> advance'[a]]
  BY <1>1
<1>3. ASSUME NEW a \in Advance
      PROVE  /\ advance'[a] # Null => AdvanceHeld(advance'[a], Q)
             /\ \/ \E e \in E : IsDue(advance[a], e, m) /\ Marked(advance[a], advance'[a], m, Ref(m, k, e))
                \/ (\A e \in E : ~ IsDue(advance[a], e, m)) /\ advance'[a] = advance[a]
  <2>1. advance'[a] = IF whole(marked(a)) THEN [marked(a) EXCEPT !.status = "settled"] ELSE marked(a)
    BY <1>1
  <2>2. CASE taken(a)
    <3>1. PICK e \in E : IsDue(advance[a], e, m)
      BY <2>2, DueRows DEF taken
    <3> DEFINE r == advance[a]
               t == [r.taken EXCEPT ![m] = Ref(m, k, e)]
               s == [employee |-> r.employee, parts |-> r.parts, taken |-> t,
                     status |-> IF \A q \in DOMAIN r.parts : t[q] # Null THEN "settled" ELSE "active"]
    <3>2. AdvanceHeld(r, P) /\ r.employee = e /\ r # Null /\ r.status = "active"
      BY <3>1 DEF AdvancesHeld, IsDue
    <3>3. r = [employee |-> r.employee, status |-> r.status, parts |-> r.parts, taken |-> r.taken]
      BY <3>2, AdvanceParts
    <3>4. marked(a) = [employee |-> r.employee, status |-> r.status, parts |-> r.parts, taken |-> t]
      <4>1. marked(a) = [r EXCEPT !.taken = t]
        BY <2>2, <3>2, <3>3 DEF marked
      <4> HIDE DEF r, t
      <4> QED
        BY <3>3, <4>1, AdvanceRewritten
    <3>5. /\ Ref(m, k, e) \in Q /\ Ref(m, k, e) \in RefRow /\ Ref(m, k, e).month = m
          /\ Ref(m, k, e).employee = r.employee
      BY <3>2 DEF Ref, RefRow
    <3> HIDE DEF r
    <3>6. AdvanceHeld(s, Q) /\ Marked(r, s, m, Ref(m, k, e))
      BY ONLY <3>1, <3>2, <3>5, P \subseteq Q, m \in Month, MarkedHeld DEF r
    <3>7. advance'[a] = s
      <4>0. marked(a) # Null
        <5>1. s.status \in {"settled", "active"} /\ s = [employee |-> r.employee, status |-> s.status,
                     parts |-> r.parts, taken |-> t]
          OBVIOUS
        <5>2. DOMAIN r.parts \in SUBSET Month /\ r.parts \in [DOMAIN r.parts -> Int] /\ r.employee \in Employee
              /\ r.status \in {"active", "settled", "cancelled"}
          BY <3>2, AdvanceParts
        <5>3. t \in [DOMAIN r.parts -> RefRow \cup {Null}]
          BY <3>2, <3>5, AdvanceParts
        <5>4. marked(a) \in AdvanceRow(DOMAIN r.parts)
          <6> HIDE DEF t
          <6> QED
            BY <3>4, <5>2, <5>3 DEF AdvanceRow
        <5> QED
          BY <5>2, <5>4, PayrollNull
      <4> HIDE DEF t
      <4>1. whole(marked(a)) <=> \A q \in DOMAIN r.parts : t[q] # Null
        BY <3>2, <3>4, <4>0 DEF whole
      <4>2. [marked(a) EXCEPT !.status = "settled"]
              = [employee |-> r.employee, status |-> "settled", parts |-> r.parts, taken |-> t]
        BY <3>4, AdvanceRewritten
      <4> QED
        BY <2>1, <3>2, <3>4, <4>1, <4>2
    <3> QED
      BY <3>1, <3>6, <3>7 DEF r
  <2>3. CASE ~ taken(a)
    <3>1. marked(a) = advance[a] /\ \A e \in E : ~ IsDue(advance[a], e, m)
      BY <2>3, DueRows DEF marked, taken
    <3>2. ~ whole(advance[a]) /\ (advance[a] # Null => AdvanceHeld(advance[a], Q))
      <4>1. CASE advance[a] = Null
        BY <4>1 DEF whole
      <4>2. CASE advance[a] # Null
        <5>1. AdvanceHeld(advance[a], P)
          BY <4>2 DEF AdvancesHeld
        <5>2. advance[a].status = "active" => \E q \in DOMAIN advance[a].parts : advance[a].taken[q] = Null
          BY <5>1, AdvanceParts DEF AdvanceHeld
        <5> QED
          BY <5>1, <5>2, HeldMore DEF whole
      <4> QED
        BY <4>1, <4>2
    <3> QED
      BY <2>1, <3>1, <3>2
  <2> QED
    BY <2>2, <2>3
<1> QED
  BY <1>2, <1>3 DEF AdvancesHeld, Consumed

IsCharged(r, e, m) ==
    r # Null /\ r.employee = e /\ r.month = m /\ r.status = "approved" /\ r.taken = Null
Charged(r, s, ref) ==
    /\ s \in AdjustmentRow /\ s.employee = r.employee /\ s.month = r.month
    /\ s.kind = r.kind /\ s.status = r.status /\ s.taken = ref
ConsumedToo(adj, bdj, m, k, E) ==
    /\ bdj = [x \in Adjustment |-> bdj[x]]
    /\ \A x \in Adjustment :
          \/ \E e \in E : IsCharged(adj[x], e, m) /\ Charged(adj[x], bdj[x], Ref(m, k, e))
          \/ (\A e \in E : ~ IsCharged(adj[x], e, m)) /\ bdj[x] = adj[x]

LEMMA ChargedRows ==
  ASSUME NEW adj, NEW e, NEW m, NEW x \in Adjustment
  PROVE  x \in AdjustmentsIn(adj, e, m) <=> IsCharged(adj[x], e, m)
BY DEF AdjustmentsIn, IsCharged

LEMMA ConsumeAdjustments ==
  ASSUME NEW P, AdjustmentsHeld(adjustment, P), NEW m \in Month, NEW k \in 1..MaxRuns,
         NEW E \in SUBSET Employee, E = DOMAIN runs[m][k].lines,
         NEW Q, P \subseteq Q, \A e \in E : Ref(m, k, e) \in Q, Consume(m, k)
  PROVE  AdjustmentsHeld(adjustment', Q) /\ ConsumedToo(adjustment, adjustment', m, k, E)
<1>1. adjustment' = [x \in Adjustment |->
            IF \E e \in E : x \in AdjustmentsIn(adjustment, e, m)
            THEN [adjustment[x] EXCEPT !.taken = Ref(m, k, adjustment[x].employee)]
            ELSE adjustment[x]]
  BY DEF Consume
<1>2. ASSUME NEW x \in Adjustment
      PROVE  /\ adjustment'[x] # Null => AdjustmentHeld(adjustment'[x], Q)
             /\ \/ \E e \in E : IsCharged(adjustment[x], e, m) /\ Charged(adjustment[x], adjustment'[x], Ref(m, k, e))
                \/ (\A e \in E : ~ IsCharged(adjustment[x], e, m)) /\ adjustment'[x] = adjustment[x]
  <2>1. CASE \E e \in E : x \in AdjustmentsIn(adjustment, e, m)
    <3>1. PICK e \in E : IsCharged(adjustment[x], e, m)
      BY <2>1, ChargedRows
    <3>2. adjustment'[x] = [adjustment[x] EXCEPT !.taken = Ref(m, k, e)]
      BY <1>1, <2>1, <3>1 DEF IsCharged
    <3>3. adjustment[x] \in AdjustmentRow /\ Ref(m, k, e) \in RefRow /\ Ref(m, k, e) \in Q
          /\ Ref(m, k, e).month = m /\ Ref(m, k, e).employee = e
      BY <3>1 DEF AdjustmentsHeld, AdjustmentHeld, IsCharged, Ref, RefRow
    <3> HIDE DEF Ref
    <3>4. Charged(adjustment[x], adjustment'[x], Ref(m, k, e))
      BY <3>2, <3>3 DEF Charged, AdjustmentRow
    <3>5. AdjustmentHeld(adjustment'[x], Q)
      BY <3>1, <3>3, <3>4 DEF AdjustmentHeld, Charged, IsCharged
    <3> QED
      BY <3>1, <3>4, <3>5
  <2>2. CASE ~ \E e \in E : x \in AdjustmentsIn(adjustment, e, m)
    <3>1. adjustment'[x] = adjustment[x] /\ \A e \in E : ~ IsCharged(adjustment[x], e, m)
      BY <1>1, <2>2, ChargedRows
    <3>2. adjustment[x] # Null => AdjustmentHeld(adjustment[x], Q)
      BY DEF AdjustmentsHeld, AdjustmentHeld
    <3> QED
      BY <3>1, <3>2
  <2> QED
    BY <2>1, <2>2
<1>3. adjustment' = [x \in Adjustment |-> adjustment'[x]]
  BY <1>1
<1> QED
  BY <1>2, <1>3 DEF AdjustmentsHeld, ConsumedToo

(* Some rows were due and are taken, or the other way round; nothing else   *)
(* changes.                                                                 *)
Swapped(adv, bdv, m, k, E) ==
    \A a \in Advance : bdv[a] = adv[a]
        \/ \E e \in E : IsDue(adv[a], e, m) /\ Marked(adv[a], bdv[a], m, Ref(m, k, e))
SwappedToo(adj, bdj, m, k, E) ==
    \A x \in Adjustment : bdj[x] = adj[x]
        \/ \E e \in E : IsCharged(adj[x], e, m) /\ Charged(adj[x], bdj[x], Ref(m, k, e))

LEMMA ConsumedSwapped ==
  ASSUME NEW adv, NEW bdv, NEW m, NEW k, NEW E, Consumed(adv, bdv, m, k, E),
         NEW adj, NEW bdj, ConsumedToo(adj, bdj, m, k, E)
  PROVE  Swapped(adv, bdv, m, k, E) /\ SwappedToo(adj, bdj, m, k, E)
BY DEF Consumed, ConsumedToo, Swapped, SwappedToo

(* What the other months read is as before.                                 *)
LEMMA SwappedElsewhere ==
  ASSUME NEW adv, NEW P, AdvancesHeld(adv, P), NEW bdv, NEW m \in Month, NEW k, NEW E, Swapped(adv, bdv, m, k, E),
         NEW adj, NEW bdj, SwappedToo(adj, bdj, m, k, E), NEW e, NEW n, n # m
  PROVE  Reads(bdv, bdj, e, n) = Reads(adv, adj, e, n)
<1>1. ASSUME NEW a \in Advance
      PROVE  (IsDue(bdv[a], e, n) <=> IsDue(adv[a], e, n)) /\ (IsDue(adv[a], e, n) => bdv[a].parts = adv[a].parts)
  <2>1. CASE bdv[a] = adv[a]
    BY <2>1
  <2>2. CASE \E q \in E : IsDue(adv[a], q, m) /\ Marked(adv[a], bdv[a], m, Ref(m, k, q))
    <3>1. PICK q \in E : IsDue(adv[a], q, m) /\ Marked(adv[a], bdv[a], m, Ref(m, k, q))
      BY <2>2
    <3>2. AdvanceHeld(adv[a], P)
      BY <3>1 DEF IsDue, AdvancesHeld
    <3>3. adv[a].taken = [y \in DOMAIN adv[a].parts |-> adv[a].taken[y]]
      BY <3>2, AdvanceParts
    <3>4. \A y \in DOMAIN adv[a].parts : y # m => bdv[a].taken[y] = adv[a].taken[y]
      BY <3>1, <3>3 DEF Marked
    <3>5. /\ adv[a] # Null /\ bdv[a] # Null /\ bdv[a].employee = adv[a].employee /\ bdv[a].parts = adv[a].parts
          /\ adv[a].status = "active"
          /\ bdv[a].status = IF \A y \in DOMAIN adv[a].parts : bdv[a].taken[y] # Null THEN "settled" ELSE "active"
      BY <3>1 DEF Marked, IsDue
    <3>6. n \in DOMAIN adv[a].parts /\ adv[a].taken[n] = Null => bdv[a].status = "active"
      BY <3>4, <3>5
    <3> QED
      BY <3>4, <3>5, <3>6 DEF IsDue
  <2> QED
    BY <2>1, <2>2 DEF Swapped
<1>2. DueIn(bdv, e, n) = DueIn(adv, e, n)
  BY <1>1, DueRows DEF DueIn
<1>3. [a \in DueIn(adv, e, n) |-> bdv[a].parts[n]] = [a \in DueIn(adv, e, n) |-> adv[a].parts[n]]
  <2>1. ASSUME NEW a \in DueIn(adv, e, n) PROVE bdv[a].parts = adv[a].parts
    BY <1>1, DueRows DEF DueIn
  <2> QED
    BY <2>1
<1>4. Owed(bdv, e, n) = Owed(adv, e, n)
  BY <1>2, <1>3 DEF Owed
<1>5. \A x \in Adjustment : bdj[x] = adj[x] \/ (AdjustmentApart(adj[x], e, n) /\ AdjustmentApart(bdj[x], e, n))
  <2>1. ASSUME NEW x \in Adjustment, bdj[x] # adj[x]
        PROVE  AdjustmentApart(adj[x], e, n) /\ AdjustmentApart(bdj[x], e, n)
    <3>1. PICK q \in E : IsCharged(adj[x], q, m) /\ Charged(adj[x], bdj[x], Ref(m, k, q))
      BY <2>1 DEF SwappedToo
    <3> QED
      BY <3>1 DEF IsCharged, Charged, AdjustmentApart
  <2> QED
    BY <2>1
<1>6. \A kind : Counted(bdj, e, n, kind) = Counted(adj, e, n, kind)
  BY <1>5, CountedSame
<1> QED
  BY <1>4, <1>6 DEF Reads

LEMMA SwappedWorth ==
  ASSUME NEW adv, NEW bdv, NEW m, NEW k, NEW E, Swapped(adv, bdv, m, k, E), NEW a \in Advance
  PROVE  Worth(bdv[a]) = Worth(adv[a])
<1>1. CASE bdv[a] = adv[a]
  BY <1>1
<1>2. CASE \E q \in E : IsDue(adv[a], q, m) /\ Marked(adv[a], bdv[a], m, Ref(m, k, q))
  <2>1. adv[a] # Null /\ bdv[a] # Null /\ bdv[a].parts = adv[a].parts
    BY <1>2 DEF IsDue, Marked
  <2> QED
    BY <2>1 DEF Worth, Amount
<1> QED
  BY <1>1, <1>2 DEF Swapped

LEMMA MarkedTaken ==
  ASSUME NEW P, NEW r, AdvanceHeld(r, P), NEW s, NEW m, NEW e, NEW ref, IsDue(r, e, m), Marked(r, s, m, ref)
  PROVE  /\ DOMAIN s.taken = DOMAIN r.taken /\ DOMAIN r.taken = DOMAIN r.parts /\ m \in DOMAIN r.taken
         /\ \A y \in DOMAIN r.taken : s.taken[y] = IF y = m THEN ref ELSE r.taken[y]
         /\ r # Null /\ s # Null /\ s.parts = r.parts /\ r.taken[m] = Null /\ r.employee = e
<1>1. r.taken = [y \in DOMAIN r.parts |-> r.taken[y]] /\ m \in DOMAIN r.parts
  BY AdvanceParts DEF IsDue
<1> QED
  BY <1>1 DEF Marked, IsDue

LEMMA TakesOld ==
  ASSUME NEW adv, NEW P, AdvancesHeld(adv, P), NEW bdv, NEW m, NEW k, NEW E, Swapped(adv, bdv, m, k, E),
         NEW adj, NEW bdj, SwappedToo(adj, bdj, m, k, E), NEW q \in RefRow, q.month # m \/ q.run # k
  PROVE  Takes(bdv, bdj, q) = Takes(adv, adj, q)
<1>0. q # Null /\ \A e : Ref(m, k, e) # q
  BY PayrollNull, RefDiffers
<1>1. ASSUME NEW a \in Advance
      PROVE  /\ a \in HeldBy(bdv, q) <=> a \in HeldBy(adv, q)
             /\ a \in HeldBy(adv, q) => bdv[a].parts = adv[a].parts
  <2>1. CASE bdv[a] = adv[a]
    BY <2>1 DEF HeldBy
  <2>2. CASE \E e \in E : IsDue(adv[a], e, m) /\ Marked(adv[a], bdv[a], m, Ref(m, k, e))
    <3>1. PICK e \in E : IsDue(adv[a], e, m) /\ Marked(adv[a], bdv[a], m, Ref(m, k, e))
      BY <2>2
    <3>2. AdvanceHeld(adv[a], P)
      BY <3>1 DEF IsDue, AdvancesHeld
    <3>3. /\ DOMAIN bdv[a].taken = DOMAIN adv[a].taken
          /\ \A y \in DOMAIN adv[a].taken : bdv[a].taken[y] = IF y = m THEN Ref(m, k, e) ELSE adv[a].taken[y]
          /\ adv[a] # Null /\ bdv[a] # Null /\ bdv[a].parts = adv[a].parts /\ adv[a].taken[m] = Null
      BY <3>1, <3>2, MarkedTaken
    <3> QED
      BY <1>0, <3>3 DEF HeldBy
  <2> QED
    BY <2>1, <2>2 DEF Swapped
<1>2. HeldBy(bdv, q) = HeldBy(adv, q)
  BY <1>1 DEF HeldBy
<1>3. [a \in HeldBy(adv, q) |-> bdv[a].parts[q.month]] = [a \in HeldBy(adv, q) |-> adv[a].parts[q.month]]
  <2>1. \A a \in HeldBy(adv, q) : bdv[a].parts = adv[a].parts
    BY <1>1 DEF HeldBy
  <2> QED
    BY <2>1
<1>4. HeldSum(bdv, q) = HeldSum(adv, q)
  BY <1>2, <1>3 DEF HeldSum
<1>5. ASSUME NEW kind PROVE CountedBy(bdj, q, kind) = CountedBy(adj, q, kind)
  <2>1. ASSUME NEW x \in Adjustment
        PROVE  (bdj[x] # Null /\ bdj[x].taken = q /\ bdj[x].kind = kind)
                 <=> (adj[x] # Null /\ adj[x].taken = q /\ adj[x].kind = kind)
    <3>1. CASE bdj[x] = adj[x]
      BY <3>1
    <3>2. CASE \E e \in E : IsCharged(adj[x], e, m) /\ Charged(adj[x], bdj[x], Ref(m, k, e))
      BY <1>0, <3>2 DEF IsCharged, Charged
    <3> QED
      BY <3>1, <3>2 DEF SwappedToo
  <2>2. {x \in Adjustment : bdj[x] # Null /\ bdj[x].taken = q /\ bdj[x].kind = kind}
          = {x \in Adjustment : adj[x] # Null /\ adj[x].taken = q /\ adj[x].kind = kind}
    BY <2>1
  <2> QED
    BY <2>2 DEF CountedBy
<1> QED
  BY <1>4, <1>5 DEF Takes

LEMMA TakesNew ==
  ASSUME NEW adv, NEW P, AdvancesHeld(adv, P), NEW bdv, NEW m, NEW k, NEW E, Consumed(adv, bdv, m, k, E),
         NEW adj, AdjustmentsHeld(adj, P), NEW bdj, ConsumedToo(adj, bdj, m, k, E), NEW e \in E,
         Ref(m, k, e) \in RefRow, Ref(m, k, e) \notin P
  PROVE  Takes(bdv, bdj, Ref(m, k, e)) = Reads(adv, adj, e, m)
<1>0. Ref(m, k, e) # Null /\ Ref(m, k, e).month = m /\ \A q : Ref(m, k, q) = Ref(m, k, e) => q = e
  BY PayrollNull, RefDiffers
<1>1. ASSUME NEW a \in Advance
      PROVE  /\ a \in HeldBy(bdv, Ref(m, k, e)) <=> IsDue(adv[a], e, m)
             /\ IsDue(adv[a], e, m) => bdv[a].parts = adv[a].parts
  <2>1. CASE (\A q \in E : ~ IsDue(adv[a], q, m)) /\ bdv[a] = adv[a]
    <3>1. a \notin HeldBy(bdv, Ref(m, k, e))
      <4>1. SUFFICES ASSUME adv[a] # Null, m \in DOMAIN adv[a].taken, adv[a].taken[m] = Ref(m, k, e)
                     PROVE  FALSE
        BY <1>0, <2>1 DEF HeldBy
      <4>2. AdvanceHeld(adv[a], P)
        BY <4>1 DEF AdvancesHeld
      <4> QED
        BY <1>0, <4>1, <4>2 DEF AdvanceHeld
    <3> QED
      BY <2>1, <3>1
  <2>2. CASE \E q \in E : IsDue(adv[a], q, m) /\ Marked(adv[a], bdv[a], m, Ref(m, k, q))
    <3>1. PICK q \in E : IsDue(adv[a], q, m) /\ Marked(adv[a], bdv[a], m, Ref(m, k, q))
      BY <2>2
    <3>2. AdvanceHeld(adv[a], P)
      BY <3>1 DEF IsDue, AdvancesHeld
    <3>3. /\ m \in DOMAIN bdv[a].taken /\ bdv[a].taken[m] = Ref(m, k, q) /\ bdv[a] # Null
          /\ bdv[a].parts = adv[a].parts /\ adv[a].employee = q
      BY <3>1, <3>2, MarkedTaken
    <3>4. IsDue(adv[a], e, m) <=> q = e
      BY <3>1, <3>3 DEF IsDue
    <3> QED
      BY <1>0, <3>3, <3>4 DEF HeldBy
  <2> QED
    BY <2>1, <2>2 DEF Consumed
<1>2. HeldBy(bdv, Ref(m, k, e)) = DueIn(adv, e, m)
  BY <1>1, DueRows DEF HeldBy, DueIn
<1>3. [a \in DueIn(adv, e, m) |-> bdv[a].parts[m]] = [a \in DueIn(adv, e, m) |-> adv[a].parts[m]]
  <2>1. \A a \in DueIn(adv, e, m) : bdv[a].parts = adv[a].parts
    BY <1>1, DueRows DEF DueIn
  <2> QED
    BY <2>1
<1>4. HeldSum(bdv, Ref(m, k, e)) = Owed(adv, e, m)
  BY <1>0, <1>2, <1>3 DEF HeldSum, Owed
<1>5. ASSUME NEW kind PROVE CountedBy(bdj, Ref(m, k, e), kind) = Counted(adj, e, m, kind)
  <2>1. ASSUME NEW x \in Adjustment
        PROVE  (bdj[x] # Null /\ bdj[x].taken = Ref(m, k, e) /\ bdj[x].kind = kind)
                 <=> (IsCharged(adj[x], e, m) /\ adj[x].kind = kind)
    <3>1. CASE (\A q \in E : ~ IsCharged(adj[x], q, m)) /\ bdj[x] = adj[x]
      BY <1>0, <3>1 DEF AdjustmentsHeld, AdjustmentHeld
    <3>2. CASE \E q \in E : IsCharged(adj[x], q, m) /\ Charged(adj[x], bdj[x], Ref(m, k, q))
      <4>1. PICK q \in E : IsCharged(adj[x], q, m) /\ Charged(adj[x], bdj[x], Ref(m, k, q))
        BY <3>2
      <4>2. bdj[x] # Null /\ bdj[x].taken = Ref(m, k, q) /\ bdj[x].kind = adj[x].kind
        BY <4>1, PayrollNull DEF Charged
      <4>3. IsCharged(adj[x], e, m) <=> q = e
        BY <4>1 DEF IsCharged
      <4> QED
        BY <1>0, <4>2, <4>3
    <3> QED
      BY <3>1, <3>2 DEF ConsumedToo
  <2>2. {x \in Adjustment : bdj[x] # Null /\ bdj[x].taken = Ref(m, k, e) /\ bdj[x].kind = kind}
          = {x \in AdjustmentsIn(adj, e, m) : adj[x].kind = kind}
    BY <2>1, ChargedRows DEF AdjustmentsIn
  <2> QED
    BY <2>2 DEF CountedBy, Counted
<1> QED
  BY <1>4, <1>5 DEF Takes, Reads

(* The draft d, newest of the runs of m, comes to be posted.                *)
Posts(rs, ts, m, d) ==
    /\ AllRuns(rs) /\ AllRuns(ts) /\ d = rs[m][Len(rs[m])] /\ IsDraft(d) /\ Len(rs[m]) \in 1..MaxRuns
    /\ LinesPosted(ts) = LinesPosted(rs) \cup RefsOf(m, Len(rs[m]), DOMAIN d.lines)
    /\ LinesPosted(rs) \cap RefsOf(m, Len(rs[m]), DOMAIN d.lines) = {}
    /\ \A q \in LinesPosted(rs) : LineAt(ts, q) = LineAt(rs, q) /\ (q.month # m \/ q.run # Len(rs[m]))
    /\ \A e \in DOMAIN d.lines : /\ Ref(m, Len(rs[m]), e) \in RefRow
                                 /\ LineAt(ts, Ref(m, Len(rs[m]), e)) = d.lines[e]
    /\ \A q \in Month : IF q = m THEN ~ Drafted(ts, q) ELSE ts[q] = rs[q]

LEMMA PostsIs ==
  ASSUME NEW rs, AllRuns(rs), NEW m \in Month, Drafted(rs, m), NEW d, d = rs[m][Len(rs[m])],
         NEW ts, ts = [rs EXCEPT ![m] = Renewed(rs[m], [d EXCEPT !.status = "posted"])]
  PROVE  Posts(rs, ts, m, d)
<1> DEFINE r == [d EXCEPT !.status = "posted"]
           k == Len(rs[m])
<1>1. /\ IsDraft(d) /\ RunsHeld(rs[m]) /\ k \in 1..k /\ k > 0 /\ d \in RunRows
      /\ DOMAIN d.lines \in SUBSET Employee
  <2>1. IsDraft(d) /\ RunsHeld(rs[m]) /\ k \in 1..k
    BY DraftIs
  <2> QED
    BY <2>1, RunParts DEF IsDraft, Drafted
<1>2. k \in 1..MaxRuns
  BY <1>1, PayrollAssumption DEF RunsHeld
<1>3. r = [status |-> "posted", excluded |-> d.excluded, lines |-> d.lines]
  BY <1>1, RunRewritten
<1>4. r \in RunRows /\ r.status = "posted" /\ r.lines = d.lines
  <2>1. "posted" \in {"draft", "posted", "reversed"} /\ d.excluded \in SUBSET Employee
        /\ d.lines \in [DOMAIN d.lines -> LineRow]
    BY <1>1, RunParts
  <2> HIDE DEF r
  <2>2. r \in RunRows
    BY ONLY <1>1, <1>3, <2>1, RunMade
  <2> QED
    BY <1>3, <2>2
<1> HIDE DEF r
<1>5. PaidWhole(r)
  BY <1>1, <1>4 DEF PaidWhole, IsDraft
<1>6. Replaced(rs, ts, m, r)
  BY <1>1, <1>4, <1>5, RunReplaced DEF r
<1>7. ASSUME NEW q \in RefRow, ~ Elsewhere(q, rs, m)
      PROVE  /\ q = Ref(m, k, q.employee) /\ q.employee \in Employee /\ q \notin LinesPosted(rs)
  BY <1>1, <1>7, RefParts DEF Elsewhere, LinesPosted, PostedAt, IsDraft
<1>8. ASSUME NEW e \in DOMAIN d.lines
      PROVE  /\ Ref(m, k, e) \in RefRow /\ LineAt(ts, Ref(m, k, e)) = d.lines[e]
             /\ Ref(m, k, e) \in LinesPosted(ts) /\ ~ Elsewhere(Ref(m, k, e), rs, m)
  <2>1. e \in Employee /\ e \in DOMAIN r.lines
    BY <1>1, <1>4
  <2>2. /\ Ref(m, k, e) \in RefRow /\ LineAt(ts, Ref(m, k, e)) = r.lines[e]
        /\ Ref(m, k, e) \in LinesPosted(ts) <=> (r.status = "posted" /\ e \in DOMAIN r.lines)
    BY <1>6, <2>1 DEF Replaced
  <2>3. Ref(m, k, e).month = m /\ Ref(m, k, e).run = k
    BY RefDiffers
  <2> QED
    BY <1>4, <2>1, <2>2, <2>3 DEF Elsewhere
<1>9. LinesPosted(rs) \subseteq RefRow /\ LinesPosted(ts) \subseteq RefRow
  BY PostedFinite
<1>10. LinesPosted(ts) = LinesPosted(rs) \cup RefsOf(m, k, DOMAIN d.lines)
       /\ LinesPosted(rs) \cap RefsOf(m, k, DOMAIN d.lines) = {}
  <2>1. ASSUME NEW q \in LinesPosted(ts) PROVE q \in LinesPosted(rs) \cup RefsOf(m, k, DOMAIN d.lines)
    <3>1. CASE Elsewhere(q, rs, m)
      BY <1>6, <1>9, <3>1 DEF Replaced
    <3>2. CASE ~ Elsewhere(q, rs, m)
      <4>1. q = Ref(m, k, q.employee) /\ q.employee \in Employee
        BY <1>7, <1>9, <3>2
      <4>2. q.employee \in DOMAIN d.lines
        BY <1>4, <1>6, <4>1 DEF Replaced
      <4> QED
        BY <4>1, <4>2 DEF RefsOf
    <3> QED
      BY <3>1, <3>2
  <2>2. ASSUME NEW q \in LinesPosted(rs) PROVE q \in LinesPosted(ts) /\ q \notin RefsOf(m, k, DOMAIN d.lines)
    <3>1. Elsewhere(q, rs, m)
      BY <1>7, <1>9
    <3> QED
      BY <1>6, <1>8, <1>9, <3>1 DEF Replaced, RefsOf
  <2>3. RefsOf(m, k, DOMAIN d.lines) \subseteq LinesPosted(ts)
    BY <1>8 DEF RefsOf
  <2> QED
    BY <2>1, <2>2, <2>3
<1>11. \A q \in LinesPosted(rs) : LineAt(ts, q) = LineAt(rs, q) /\ (q.month # m \/ q.run # k)
  <2>1. ASSUME NEW q \in LinesPosted(rs) PROVE Elsewhere(q, rs, m)
    BY <1>7, <1>9
  <2> QED
    BY <1>6, <1>9, <2>1 DEF Replaced, Elsewhere
<1>12. \A q \in Month : IF q = m THEN ~ Drafted(ts, q) ELSE ts[q] = rs[q]
  BY <1>4, <1>6 DEF Replaced, Drafted
<1>13. AllRuns(ts)
  BY <1>6 DEF Replaced
<1> QED
  BY <1>1, <1>2, <1>8, <1>10, <1>11, <1>12, <1>13 DEF Posts

(* The lines of d come to be posted, as the run k of m, none of them paid.  *)
LinesCome(rs, ts, m, k, d) ==
    /\ AllRuns(rs) /\ AllRuns(ts) /\ d \in RunRows
    /\ LinesPosted(ts) = LinesPosted(rs) \cup RefsOf(m, k, DOMAIN d.lines)
    /\ LinesPosted(rs) \cap RefsOf(m, k, DOMAIN d.lines) = {}
    /\ \A q \in LinesPosted(rs) : LineAt(ts, q) = LineAt(rs, q)
    /\ \A e \in DOMAIN d.lines :
          LineAt(ts, Ref(m, k, e)) = d.lines[e] /\ d.lines[e].payment = {}

LEMMA PostsCome ==
  ASSUME NEW rs, NEW ts, NEW m, NEW d, Posts(rs, ts, m, d)
  PROVE  LinesCome(rs, ts, m, Len(rs[m]), d)
BY DEF Posts, LinesCome, IsDraft

LEMMA ComeSums ==
  ASSUME NEW rs, NEW ts, NEW m, NEW k, NEW d, LinesCome(rs, ts, m, k, d)
  PROVE  LET E == DOMAIN d.lines IN
         /\ HeldBack(ts) = HeldBack(rs) - Accrual(d.lines)["advances"]
         /\ Payable(ts) = Payable(rs) + Accrual(d.lines)["payable"]
         /\ Insured(ts) = Insured(rs) + Accrual(d.lines)["insurance"]
         /\ HeldBack(rs) \in Int /\ Payable(rs) \in Int /\ Insured(rs) \in Int
         /\ \A c \in Accounts : Accrual(d.lines)[c] \in Int
<1> DEFINE E == DOMAIN d.lines
           cut == [e \in E |-> d.lines[e].deducted]
           net == [e \in E |-> d.lines[e].net]
<1>1. /\ AllRuns(rs) /\ AllRuns(ts) /\ d \in RunRows
      /\ LinesPosted(ts) = LinesPosted(rs) \cup RefsOf(m, k, E)
      /\ LinesPosted(rs) \cap RefsOf(m, k, E) = {}
      /\ \A q \in LinesPosted(rs) : LineAt(ts, q) = LineAt(rs, q)
      /\ \A e \in E : LineAt(ts, Ref(m, k, e)) = d.lines[e] /\ d.lines[e].payment = {}
  BY DEF LinesCome
<1>2. E \in SUBSET Employee
  BY <1>1, RunParts
<1>3. /\ \A e \in E : cut[e] = LineAt(ts, Ref(m, k, e)).deducted
      /\ \A e \in E : net[e] = LineAt(ts, Ref(m, k, e)).net
  BY <1>1
<1>4. /\ Accrual(d.lines)["advances"] = - SumFunctionOnSet(cut, E)
      /\ Accrual(d.lines)["payable"] = SumFunctionOnSet(net, E)
      /\ Accrual(d.lines)["insurance"] = SumFunctionOnSet(Insurance, E)
      /\ Accounts = {"advances", "payable", "insurance"}
  BY DEF Accrual, Accounts
<1> HIDE DEF cut, net, E
<1>5. \A q \in LinesPosted(rs) : LineAt(ts, q).deducted = LineAt(rs, q).deducted
  BY <1>1
<1>6. /\ HeldBack(ts) = HeldBack(rs) + SumFunctionOnSet(cut, E)
      /\ HeldBack(rs) \in Int /\ SumFunctionOnSet(cut, E) \in Int
  BY <1>1, <1>2, <1>3, <1>5, HeldBackGains
<1>7. \A q \in RefsOf(m, k, E) : LineAt(ts, q).payment = {}
  BY <1>1 DEF RefsOf
<1>8. UnpaidLines(ts) = UnpaidLines(rs) \cup RefsOf(m, k, E) /\ UnpaidLines(rs) \cap RefsOf(m, k, E) = {}
      /\ \A q \in UnpaidLines(rs) : LineAt(ts, q).net = LineAt(rs, q).net
  BY <1>1, <1>7 DEF UnpaidLines
<1>9. /\ Payable(ts) = Payable(rs) + SumFunctionOnSet(net, E)
      /\ Insured(ts) = Insured(rs) + SumFunctionOnSet(Insurance, E)
      /\ Payable(rs) \in Int /\ SumFunctionOnSet(net, E) \in Int
      /\ Insured(rs) \in Int /\ SumFunctionOnSet(Insurance, E) \in Int
  <2>1. AllRuns(rs) /\ AllRuns(ts) /\ \A e \in E : net[e] = LineAt(ts, Ref(m, k, e)).net
    BY <1>1, <1>3
  <2> QED
    BY ONLY <1>2, <1>8, <2>1, UnpaidGains
<1> QED
  BY <1>4, <1>6, <1>9

LEMMA PostKeeps ==
  ASSUME PayrollInv, NEW m \in Month, Post(m)
  PROVE  PayrollInv' /\ (QuietInv => QuietInv')
<1> DEFINE d == runs[m][Len(runs[m])]
           k == Len(runs[m])
           E == DOMAIN d.lines
           P == LinesPosted(runs)
           Q == LinesPosted(runs')
<1>1. /\ AllRuns(runs) /\ AdvancesHeld(advance, P) /\ AdjustmentsHeld(adjustment, P)
      /\ BooksSay(books, advance, runs)
  BY DEF PayrollInv
<1>2. /\ Drafted(runs, m) /\ LinesOf(m) = d.lines /\ Newest(m) = k /\ k \in 1..k
      /\ runs = [q \in Month |-> runs[q]] /\ runs[m] \in Seq(RunRows)
  <2>1. Current(m) = "draft"
    BY DEF Post
  <2> QED
    BY <2>1, CurrentIs DEF NewestLines
<1>3. runs' = [runs EXCEPT ![m] = Renewed(runs[m], [d EXCEPT !.status = "posted"])]
  BY <1>2 DEF Post, Renewed
<1>4. /\ books' = [c \in Accounts |-> books[c] + Accrual(d.lines)[c]] /\ Consume(m, k)
  BY <1>2 DEF Post
<1> HIDE DEF d
<1>5. Posts(runs, runs', m, d)
  BY ONLY <1>1, <1>2, <1>3, m \in Month, PostsIs DEF d
<1>6. /\ AllRuns(runs') /\ P \subseteq Q /\ k \in 1..MaxRuns /\ P \cap RefsOf(m, k, E) = {}
      /\ \A e \in E : Ref(m, k, e) \in Q /\ Ref(m, k, e) \in RefRow /\ Ref(m, k, e) \notin P
  BY <1>5 DEF Posts, RefsOf
<1>7. E \in SUBSET Employee /\ E = DOMAIN runs[m][k].lines
  <2>1. d \in RunRows
    BY <1>5 DEF Posts, IsDraft
  <2> QED
    BY <2>1, RunParts DEF d
<1> HIDE DEF E, P, Q, k
<1>8. AdvancesHeld(advance', Q) /\ Consumed(advance, advance', m, k, E)
  BY <1>1, <1>4, <1>6, <1>7, ConsumeRows
<1>9. AdjustmentsHeld(adjustment', Q) /\ ConsumedToo(adjustment, adjustment', m, k, E)
  BY <1>1, <1>4, <1>6, <1>7, ConsumeAdjustments
<1>10. Swapped(advance, advance', m, k, E) /\ SwappedToo(adjustment, adjustment', m, k, E)
  BY <1>8, <1>9, ConsumedSwapped
<1>11. Owing(advance') = Owing(advance)
  BY <1>1, <1>8, <1>10, SwappedWorth, OwingSame
<1>12. BooksSay(books', advance', runs')
  <2>1. /\ HeldBack(runs') = HeldBack(runs) - Accrual(d.lines)["advances"]
        /\ Payable(runs') = Payable(runs) + Accrual(d.lines)["payable"]
        /\ Insured(runs') = Insured(runs) + Accrual(d.lines)["insurance"]
        /\ HeldBack(runs) \in Int /\ Payable(runs) \in Int /\ Insured(runs) \in Int
        /\ \A c \in Accounts : Accrual(d.lines)[c] \in Int
    BY <1>5, PostsCome, ComeSums
  <2>2. /\ books["advances"] = Owing(advance) - HeldBack(runs) /\ books["advances"] \in Int
        /\ books["payable"] = Payable(runs) /\ books["insurance"] = Insured(runs)
        /\ "advances" \in Accounts /\ "payable" \in Accounts /\ "insurance" \in Accounts
        /\ Owing(advance) \in Int /\ \A c \in Accounts : books[c] \in Int
    BY <1>1, OwingInt DEF BooksSay, Accounts
  <2>3. books' \in [Accounts -> Int]
    BY <1>4, <2>1, <2>2
  <2>4. /\ books'["advances"] = books["advances"] + Accrual(d.lines)["advances"]
        /\ books'["payable"] = books["payable"] + Accrual(d.lines)["payable"]
        /\ books'["insurance"] = books["insurance"] + Accrual(d.lines)["insurance"]
    BY <1>4, <2>2
  <2>5. Accrual(d.lines)["advances"] \in Int
    BY <2>1, <2>2
  <2> QED
    BY <1>11, <2>1, <2>2, <2>3, <2>4, <2>5 DEF BooksSay
<1>13. PayrollInv'
  BY <1>6, <1>8, <1>9, <1>12 DEF PayrollInv, Q
<1>14. ASSUME QuietInv PROVE QuietInv'
  <2>1. Fresh(advance', adjustment', runs')
    <3>1. \A q \in Month : IF q = m THEN ~ Drafted(runs', q) ELSE runs'[q] = runs[q]
      BY <1>5 DEF Posts
    <3>2. ASSUME NEW q \in Month, Drafted(runs', q), NEW e \in DOMAIN NewestLines(runs', q)
          PROVE  /\ Drafted(runs, q) /\ e \in DOMAIN NewestLines(runs, q)
                 /\ NewestLines(runs', q)[e] = NewestLines(runs, q)[e]
                 /\ Reads(advance', adjustment', e, q) = Reads(advance, adjustment, e, q)
      <4>1. q # m /\ runs'[q] = runs[q]
        BY <3>1, <3>2
      <4>2. Reads(advance', adjustment', e, q) = Reads(advance, adjustment, e, q)
        BY <1>1, <1>10, <4>1, SwappedElsewhere
      <4> QED
        BY <3>2, <4>1, <4>2 DEF Drafted, NewestLines
    <3>3. Carried(runs, runs', advance, adjustment, advance', adjustment')
      BY <3>2 DEF Carried
    <3> QED
      BY <1>14, <3>3, FreshCarried DEF QuietInv
  <2>2. Counts(advance', adjustment', runs')
    <3> SUFFICES ASSUME NEW q \in LinesPosted(runs')
                 PROVE  <<LineAt(runs', q).deducted, LineAt(runs', q).bonus, LineAt(runs', q).penalty>>
                          = Takes(advance', adjustment', q)
      BY DEF Counts
    <3>1. q \in P \/ \E e \in E : q = Ref(m, k, e)
      BY <1>5 DEF Posts, RefsOf, P, E, k
    <3>2. CASE q \in P
      <4>1. LineAt(runs', q) = LineAt(runs, q) /\ (q.month # m \/ q.run # k) /\ q \in RefRow
        BY <1>5, <3>2, PostedFinite DEF Posts, P, k
      <4>2. Takes(advance', adjustment', q) = Takes(advance, adjustment, q)
        BY <1>1, <1>10, <4>1, TakesOld
      <4> QED
        BY <1>14, <3>2, <4>1, <4>2 DEF QuietInv, Counts, P
    <3>3. CASE \E e \in E : q = Ref(m, k, e)
      <4>1. PICK e \in E : q = Ref(m, k, e)
        BY <3>3
      <4>2. LineAt(runs', q) = d.lines[e]
        BY <1>5, <4>1 DEF Posts, E, k
      <4>3. FreshLine(advance, adjustment, e, m, d.lines[e])
        BY <1>2, <1>14 DEF QuietInv, Fresh, NewestLines, E, d
      <4>4. Takes(advance', adjustment', q) = Reads(advance, adjustment, e, m)
        BY <1>1, <1>6, <1>8, <1>9, <4>1, TakesNew
      <4> QED
        BY <4>2, <4>3, <4>4 DEF FreshLine
    <3> QED
      BY <3>1, <3>2, <3>3
  <2> QED
    BY <2>1, <2>2 DEF QuietInv
<1> QED
  BY <1>13, <1>14

(* The run d, newest of the runs of m, comes to be reversed.                *)
Unposts(rs, ts, m, d) ==
    /\ Len(rs[m]) \in 1..MaxRuns /\ DOMAIN d.lines \in SUBSET Employee
    /\ LinesCome(ts, rs, m, Len(rs[m]), d)
    /\ \A q \in LinesPosted(ts) : q.month # m
    /\ Len(ts[m]) = Len(rs[m]) /\ ts[m][Len(ts[m])].status = "reversed"
    /\ \A q \in Month : q # m => ts[q] = rs[q]

LEMMA UnpostsIs ==
  ASSUME NEW rs, AllRuns(rs), NEW m \in Month, Len(rs[m]) > 0, NEW d, d = rs[m][Len(rs[m])],
         d.status = "posted", \A e \in DOMAIN d.lines : d.lines[e].payment = {},
         NEW ts, ts = [rs EXCEPT ![m] = Renewed(rs[m], [d EXCEPT !.status = "reversed"])]
  PROVE  Unposts(rs, ts, m, d)
<1> DEFINE r == [d EXCEPT !.status = "reversed"]
           k == Len(rs[m])
<1>1. /\ RunsHeld(rs[m]) /\ k \in 1..k /\ k > 0 /\ d \in RunRows /\ k \in 1..MaxRuns
      /\ DOMAIN d.lines \in SUBSET Employee
  <2>1. RunsHeld(rs[m]) /\ k \in 1..k /\ k \in 1..MaxRuns
    BY LenProperties, PayrollAssumption DEF AllRuns, RunsHeld
  <2>2. d \in RunRows
    BY <2>1, RunAt
  <2> QED
    BY <2>1, <2>2, RunParts
<1>2. r = [status |-> "reversed", excluded |-> d.excluded, lines |-> d.lines]
  BY <1>1, RunRewritten
<1>3. r \in RunRows /\ r.status = "reversed" /\ r.lines = d.lines
  <2>1. "reversed" \in {"draft", "posted", "reversed"} /\ d.excluded \in SUBSET Employee
        /\ d.lines \in [DOMAIN d.lines -> LineRow]
    BY <1>1, RunParts
  <2> HIDE DEF r
  <2>2. r \in RunRows
    BY ONLY <1>1, <1>2, <2>1, RunMade
  <2> QED
    BY <1>2, <2>2
<1> HIDE DEF r
<1>4. PaidWhole(r)
  BY <1>1, <1>3 DEF PaidWhole
<1>5. Replaced(rs, ts, m, r)
  BY <1>1, <1>3, <1>4, RunReplaced DEF r
<1>6. LinesPosted(rs) \subseteq RefRow /\ LinesPosted(ts) \subseteq RefRow
  BY PostedFinite
<1>7. ASSUME NEW q \in LinesPosted(ts) PROVE q.month # m
  <2>1. SUFFICES ASSUME q.month = m PROVE FALSE
    OBVIOUS
  <2>2. q.run \in 1..Len(ts[m]) /\ ts[m][q.run].status = "posted" /\ RunsHeld(ts[m])
    BY <1>5, <2>1 DEF LinesPosted, PostedAt, Replaced, AllRuns
  <2>3. q.run = k
    BY <1>5, <2>2 DEF RunsHeld, Replaced
  <2> QED
    BY <1>3, <1>5, <2>2, <2>3 DEF Replaced
<1>8. ASSUME NEW q \in LinesPosted(ts)
      PROVE  q \in LinesPosted(rs) /\ LineAt(ts, q) = LineAt(rs, q) /\ q \notin RefsOf(m, k, DOMAIN d.lines)
  <2>1. Elsewhere(q, rs, m) /\ q \in RefRow
    BY <1>6, <1>7 DEF Elsewhere
  <2>2. q \notin RefsOf(m, k, DOMAIN d.lines)
    <3>1. q.month # m /\ \A e : Ref(m, k, e).month = m
      BY <1>7, RefDiffers
    <3> QED
      BY <3>1 DEF RefsOf
  <2> QED
    BY <1>5, <2>1, <2>2 DEF Replaced
<1>9. ASSUME NEW e \in DOMAIN d.lines
      PROVE  Ref(m, k, e) \in LinesPosted(rs) /\ LineAt(rs, Ref(m, k, e)) = d.lines[e]
  <2>1. Ref(m, k, e) \in RefRow
    BY <1>1, <1>5 DEF Replaced
  <2> QED
    BY <1>1, <2>1, RefDiffers DEF LinesPosted, LineAt, PostedAt
<1>10. ASSUME NEW q \in LinesPosted(rs) PROVE q \in LinesPosted(ts) \cup RefsOf(m, k, DOMAIN d.lines)
  <2>1. CASE Elsewhere(q, rs, m)
    BY <1>5, <1>6, <2>1 DEF Replaced
  <2>2. CASE ~ Elsewhere(q, rs, m)
    <3>1. q = Ref(m, k, q.employee)
      BY <1>6, <2>2, RefParts DEF Elsewhere
    <3>2. q.employee \in DOMAIN d.lines
      BY <2>2 DEF Elsewhere, LinesPosted
    <3> QED
      BY <3>1, <3>2 DEF RefsOf
  <2> QED
    BY <2>1, <2>2
<1>11. /\ LinesPosted(rs) = LinesPosted(ts) \cup RefsOf(m, k, DOMAIN d.lines)
       /\ LinesPosted(ts) \cap RefsOf(m, k, DOMAIN d.lines) = {}
  <2>1. RefsOf(m, k, DOMAIN d.lines) \subseteq LinesPosted(rs)
    BY <1>9 DEF RefsOf
  <2> QED
    BY <1>8, <1>10, <2>1
<1>12. AllRuns(ts) /\ Len(ts[m]) = k /\ ts[m][k] = r /\ \A q \in Month : q # m => ts[q] = rs[q]
  BY <1>5 DEF Replaced
<1>13. LinesCome(ts, rs, m, k, d)
  BY <1>1, <1>8, <1>9, <1>11, <1>12 DEF LinesCome
<1> QED
  BY <1>1, <1>3, <1>7, <1>12, <1>13 DEF Unposts

(* A row that names the run k of m is freed of it.                          *)
Names(r, m, k) == r # Null /\ m \in DOMAIN r.taken /\ r.taken[m] # Null /\ r.taken[m].run = k
Freed(r, m) ==
    [employee |-> r.employee, status |-> "active", parts |-> r.parts,
     taken |-> [r.taken EXCEPT ![m] = Null]]
(* What the run k of m is not in.                                           *)
Without(P, m, k) == {q \in P : q.month # m \/ q.run # k}

LEMMA FreedIs ==
  ASSUME NEW P, NEW r, AdvanceHeld(r, P), NEW m, NEW k, Names(r, m, k), NEW s, s = Freed(r, m)
  PROVE  /\ AdvanceHeld(s, Without(P, m, k)) /\ s # Null
         /\ r.taken[m] \in P /\ r.taken[m].month = m /\ r.taken[m].run = k /\ r.taken[m].employee = r.employee
         /\ IsDue(s, r.employee, m) /\ Marked(s, r, m, r.taken[m])
<1> DEFINE D == DOMAIN r.parts
           t == [r.taken EXCEPT ![m] = Null]
<1>1. /\ r.employee \in Employee /\ D \in SUBSET Month /\ r.parts \in [D -> Int]
      /\ r.taken \in [D -> RefRow \cup {Null}] /\ DOMAIN r.taken = D /\ m \in D
      /\ r.status \in {"active", "settled", "cancelled"}
  BY AdvanceParts DEF Names
<1>2. t \in [D -> RefRow \cup {Null}] /\ \A q \in D : t[q] = IF q = m THEN Null ELSE r.taken[q]
  BY <1>1
<1>3. s = [employee |-> r.employee, status |-> "active", parts |-> r.parts, taken |-> t]
  BY DEF Freed
<1> HIDE DEF t
<1>4. s.employee = r.employee /\ s.status = "active" /\ s.parts = r.parts /\ s.taken = t
  BY <1>3
<1>5. s \in AdvanceRow(D)
  BY <1>1, <1>2, <1>3 DEF AdvanceRow
<1>6. s # Null
  BY <1>1, <1>5, PayrollNull
<1>7. \A q \in D : r.taken[q] # Null => r.taken[q] \in P /\ r.taken[q].month = q /\ r.taken[q].employee = r.employee
  BY <1>1 DEF AdvanceHeld
<1>8. r.taken[m] # Null /\ r.taken[m].run = k
  BY DEF Names
<1>9. \A q \in D : t[q] # Null =>
         t[q] \in Without(P, m, k) /\ t[q].month = q /\ t[q].employee = s.employee
  BY <1>2, <1>4, <1>7 DEF Without
<1>10. AdvanceHeld(s, Without(P, m, k))
  BY <1>1, <1>2, <1>4, <1>5, <1>9 DEF AdvanceHeld
<1>11. IsDue(s, r.employee, m)
  BY <1>1, <1>2, <1>4, <1>6 DEF IsDue
<1>12. r.taken = [t EXCEPT ![m] = r.taken[m]]
  BY <1>1, <1>2
<1>13. r.status = IF \A q \in D : r.taken[q] # Null THEN "settled" ELSE "active"
  <2>1. r.status # "cancelled"
    BY <1>1 DEF AdvanceHeld
  <2>2. (r.status = "settled" => \A q \in D : r.taken[q] # Null) /\ (r.status = "active" => \E q \in D : r.taken[q] = Null)
    BY <1>1 DEF AdvanceHeld
  <2> QED
    BY <1>1, <2>1, <2>2
<1>14. r # Null
  BY DEF Names
<1>15. Marked(s, r, m, r.taken[m])
  BY <1>4, <1>12, <1>13, <1>14 DEF Marked
<1> QED
  BY <1>1, <1>6, <1>7, <1>8, <1>10, <1>11, <1>15

LEMMA KeptWithout ==
  ASSUME NEW P, NEW r, AdvanceHeld(r, P), NEW m, NEW k, ~ Names(r, m, k), r # Null
  PROVE  AdvanceHeld(r, Without(P, m, k))
BY DEF AdvanceHeld, Names, Without

(* A row as releasing it writes it.                                         *)
WithTaken(w, s, t) == [w EXCEPT !.status = s, !.taken = t]

LEMMA TakenRewritten ==
  ASSUME NEW w, NEW e, NEW s, NEW q, NEW u, NEW n, NEW t,
         w = [employee |-> e, status |-> s, parts |-> q, taken |-> u]
  PROVE  WithTaken(w, n, t) = [employee |-> e, status |-> n, parts |-> q, taken |-> t]
<1> DEFINE v == [w EXCEPT !.status = n]
<1>1. v = [employee |-> e, status |-> n, parts |-> q, taken |-> u]
  BY AdvanceRewritten
<1>2. WithTaken(w, n, t) = [v EXCEPT !.taken = t]
  BY DEF WithTaken
<1> HIDE DEF v
<1> QED
  BY ONLY <1>1, <1>2, AdvanceRewritten

LEMMA ReleasedIs ==
  ASSUME NEW P, NEW adv, AdvancesHeld(adv, P), NEW m, NEW k, NEW E,
         \A q \in P : q.month = m /\ q.run = k => q.employee \in E /\ q = Ref(m, k, q.employee),
         NEW bdv, bdv = Released(adv, m, k)
  PROVE  AdvancesHeld(bdv, Without(P, m, k)) /\ Swapped(bdv, adv, m, k, E)
<1>1. ASSUME NEW a \in Advance, Names(adv[a], m, k) PROVE bdv[a] = Freed(adv[a], m)
  <2> DEFINE r == adv[a]
             t == [q \in DOMAIN r.taken |->
                     IF r.taken[q] # Null /\ r.taken[q].month = m /\ r.taken[q].run = k THEN Null ELSE r.taken[q]]
             n == IF r.status = "settled" THEN "active" ELSE r.status
  <2>1. AdvanceHeld(r, P) /\ r # Null
    BY <1>1 DEF Names, AdvancesHeld
  <2>2. /\ r = [employee |-> r.employee, status |-> r.status, parts |-> r.parts, taken |-> r.taken]
        /\ r.taken = [q \in DOMAIN r.taken |-> r.taken[q]]
        /\ r.status \in {"active", "settled", "cancelled"}
    BY <2>1, AdvanceParts
  <2>3. /\ m \in DOMAIN r.taken /\ r.taken[m] # Null /\ r.taken[m].run = k
        /\ \A q \in DOMAIN r.taken : r.taken[q] # Null => r.taken[q].month = q
    BY <1>1, <2>1 DEF Names, AdvanceHeld
  <2>4. t = [r.taken EXCEPT ![m] = Null]
    BY <2>2, <2>3
  <2>5. n = "active"
    <3>1. r.status # "cancelled"
      BY <2>1, <2>3 DEF AdvanceHeld
    <3> QED
      BY <2>2, <3>1
  <2>6. bdv[a] = WithTaken(r, n, t)
    BY <2>1, <2>2, <2>3 DEF Released, WithTaken
  <2> HIDE DEF t, n
  <2>7. WithTaken(r, n, t) = [employee |-> r.employee, status |-> n, parts |-> r.parts, taken |-> t]
    BY ONLY <2>2, TakenRewritten
  <2> QED
    BY <2>4, <2>5, <2>6, <2>7 DEF Freed
<1>2. ASSUME NEW a \in Advance, ~ Names(adv[a], m, k) PROVE bdv[a] = adv[a]
  <2>1. CASE adv[a] = Null
    BY <2>1 DEF Released
  <2>2. CASE adv[a] # Null
    <3>1. \A q \in DOMAIN adv[a].taken : adv[a].taken[q] # Null => adv[a].taken[q].month = q
      BY <2>2 DEF AdvancesHeld, AdvanceHeld
    <3> QED
      BY <1>2, <2>2, <3>1 DEF Released, Names
  <2> QED
    BY <2>1, <2>2
<1>3. bdv = [a \in Advance |-> bdv[a]]
  BY DEF Released
<1>4. ASSUME NEW a \in Advance, bdv[a] # Null PROVE AdvanceHeld(bdv[a], Without(P, m, k))
  <2>1. CASE Names(adv[a], m, k)
    <3>1. AdvanceHeld(adv[a], P)
      BY <2>1 DEF AdvancesHeld, Names
    <3> QED
      BY <1>1, <2>1, <3>1, FreedIs
  <2>2. CASE ~ Names(adv[a], m, k)
    <3>1. AdvanceHeld(adv[a], P) /\ adv[a] # Null /\ bdv[a] = adv[a]
      BY <1>2, <1>4, <2>2 DEF AdvancesHeld
    <3> QED
      BY <2>2, <3>1, KeptWithout
  <2> QED
    BY <2>1, <2>2
<1>5. ASSUME NEW a \in Advance, bdv[a] # adv[a]
      PROVE  \E e \in E : IsDue(bdv[a], e, m) /\ Marked(bdv[a], adv[a], m, Ref(m, k, e))
  <2>1. Names(adv[a], m, k) /\ bdv[a] = Freed(adv[a], m)
    BY <1>1, <1>2, <1>5
  <2>2. AdvanceHeld(adv[a], P)
    BY <2>1 DEF AdvancesHeld, Names
  <2> DEFINE ref == adv[a].taken[m]
  <2>3. /\ ref \in P /\ ref.month = m /\ ref.run = k /\ ref.employee = adv[a].employee
        /\ IsDue(bdv[a], adv[a].employee, m) /\ Marked(bdv[a], adv[a], m, ref)
    BY <2>1, <2>2, FreedIs
  <2> QED
    BY <2>3
<1> QED
  BY <1>3, <1>4, <1>5 DEF AdvancesHeld, Swapped

(* The adjustments counted in the run k of m.                               *)
Free(adj, m, k) ==
    [x \in Adjustment |->
        IF adj[x] # Null /\ adj[x].taken # Null /\ adj[x].taken.month = m /\ adj[x].taken.run = k
        THEN [adj[x] EXCEPT !.taken = Null] ELSE adj[x]]

LEMMA FreeIs ==
  ASSUME NEW P, NEW adj, AdjustmentsHeld(adj, P), NEW m, NEW k, NEW E,
         \A q \in P : q.month = m /\ q.run = k => q.employee \in E /\ q = Ref(m, k, q.employee),
         NEW bdj, bdj = Free(adj, m, k)
  PROVE  AdjustmentsHeld(bdj, Without(P, m, k)) /\ SwappedToo(bdj, adj, m, k, E)
<1>1. bdj = [x \in Adjustment |-> bdj[x]]
  BY DEF Free
<1>2. ASSUME NEW x \in Adjustment
      PROVE  /\ bdj[x] # Null => AdjustmentHeld(bdj[x], Without(P, m, k))
             /\ \/ bdj[x] = adj[x]
                \/ \E e \in E : IsCharged(bdj[x], e, m) /\ Charged(bdj[x], adj[x], Ref(m, k, e))
  <2> DEFINE w == adj[x]
  <2>1. CASE w # Null /\ w.taken # Null /\ w.taken.month = m /\ w.taken.run = k
    <3>1. /\ w \in AdjustmentRow /\ w.taken \in P /\ w.status = "approved"
          /\ w.month = m /\ w.taken.employee = w.employee
      BY <2>1 DEF AdjustmentsHeld, AdjustmentHeld
    <3>2. w.employee \in E /\ w.taken = Ref(m, k, w.employee)
      BY <2>1, <3>1
    <3>3. bdj[x] = [w EXCEPT !.taken = Null]
      BY <2>1 DEF Free
    <3> HIDE DEF w
    <3>4. /\ bdj[x] \in AdjustmentRow /\ bdj[x].taken = Null /\ bdj[x].employee = w.employee
          /\ bdj[x].month = w.month /\ bdj[x].kind = w.kind /\ bdj[x].status = w.status
      BY ONLY <3>1, <3>3 DEF AdjustmentRow
    <3>5. bdj[x] # Null
      BY <3>4, PayrollNull
    <3>6. AdjustmentHeld(bdj[x], Without(P, m, k))
      BY <3>4 DEF AdjustmentHeld
    <3>7. IsCharged(bdj[x], w.employee, m) /\ Charged(bdj[x], w, Ref(m, k, w.employee))
      BY <3>1, <3>2, <3>4, <3>5 DEF IsCharged, Charged
    <3> QED
      BY <3>2, <3>6, <3>7 DEF w
  <2>2. CASE ~ (w # Null /\ w.taken # Null /\ w.taken.month = m /\ w.taken.run = k)
    <3>1. bdj[x] = adj[x]
      BY <2>2 DEF Free
    <3>2. adj[x] # Null => AdjustmentHeld(adj[x], Without(P, m, k))
      BY <2>2 DEF AdjustmentsHeld, AdjustmentHeld, Without
    <3> QED
      BY <3>1, <3>2
  <2> QED
    BY <2>1, <2>2
<1> QED
  BY <1>1, <1>2 DEF AdjustmentsHeld, SwappedToo

LEMMA UnpostsParts ==
  ASSUME NEW rs, NEW ts, NEW m, NEW d, Unposts(rs, ts, m, d)
  PROVE  LET P == LinesPosted(rs)
             k == Len(rs[m])
             E == DOMAIN d.lines
         IN
         /\ LinesPosted(ts) = Without(P, m, k)
         /\ \A q \in P : q.month = m /\ q.run = k => q.employee \in E /\ q = Ref(m, k, q.employee)
         /\ \A q \in LinesPosted(ts) :
              /\ q \in RefRow /\ q \in P /\ LineAt(ts, q) = LineAt(rs, q)
              /\ q.month # m \/ q.run # k
<1> DEFINE P == LinesPosted(rs)
           k == Len(rs[m])
           E == DOMAIN d.lines
<1>1. /\ P = LinesPosted(ts) \cup RefsOf(m, k, E) /\ \A q \in LinesPosted(ts) : q.month # m
      /\ \A q \in LinesPosted(ts) : LineAt(rs, q) = LineAt(ts, q)
  BY DEF Unposts, LinesCome
<1>2. \A q \in RefsOf(m, k, E) : q.month = m /\ q.run = k /\ q.employee \in E /\ q = Ref(m, k, q.employee)
  BY RefDiffers DEF RefsOf
<1>3. LinesPosted(ts) \subseteq RefRow
  BY PostedFinite
<1> HIDE DEF P, k, E
<1>4. LinesPosted(ts) = Without(P, m, k)
  BY <1>1, <1>2 DEF Without
<1>5. \A q \in P : q.month = m /\ q.run = k => q.employee \in E /\ q = Ref(m, k, q.employee)
  BY <1>1, <1>2
<1>6. \A q \in LinesPosted(ts) : /\ q \in RefRow /\ q \in P /\ LineAt(ts, q) = LineAt(rs, q)
                                 /\ q.month # m \/ q.run # k
  BY <1>1, <1>3
<1> QED
  BY <1>4, <1>5, <1>6 DEF P, k, E

LEMMA UnpostKeeps ==
  ASSUME PayrollInv, NEW m \in Month, Unpost(m)
  PROVE  PayrollInv' /\ (QuietInv => QuietInv')
<1> DEFINE d == runs[m][Len(runs[m])]
           k == Len(runs[m])
           E == DOMAIN d.lines
           P == LinesPosted(runs)
           s == Renewed(runs[m], [d EXCEPT !.status = "reversed"])
           us == [runs EXCEPT ![m] = s]
           Q == LinesPosted(us)
           t == Calculated(s, advance', adjustment', m)
<1>1. /\ AllRuns(runs) /\ AdvancesHeld(advance, P) /\ AdjustmentsHeld(adjustment, P)
      /\ BooksSay(books, advance, runs)
  BY DEF PayrollInv
<1>2. /\ LinesOf(m) = d.lines /\ d.status = "posted" /\ Newest(m) = k /\ k \in 1..k /\ k > 0
      /\ runs = [q \in Month |-> runs[q]] /\ runs[m] \in Seq(RunRows) /\ k < MaxRuns
  BY PostedIs DEF Unpost
<1>3. /\ \A e \in E : d.lines[e].payment = {}
      /\ books' = [c \in Accounts |-> books[c] - Accrual(d.lines)[c]]
      /\ advance' = Released(advance, m, k) /\ adjustment' = Free(adjustment, m, k)
  BY <1>2 DEF Unpost, Free
<1>4. runs' = [runs EXCEPT ![m] = t]
  BY <1>2 DEF Unpost, Renewed
<1> HIDE DEF d
<1>5. Unposts(runs, us, m, d)
  BY <1>1, <1>2, <1>3, UnpostsIs DEF d
<1>6. us[m] = s /\ us = [q \in Month |-> us[q]] /\ \A q \in Month : q # m => us[q] = runs[q]
  BY <1>2
<1> HIDE DEF t, us, s, E, P, Q, k
<1>7. /\ Q = Without(P, m, k)
      /\ \A q \in P : q.month = m /\ q.run = k => q.employee \in E /\ q = Ref(m, k, q.employee)
      /\ \A q \in Q : /\ q \in RefRow /\ q \in P /\ LineAt(us, q) = LineAt(runs, q)
                      /\ q.month # m \/ q.run # k
  BY <1>5, UnpostsParts DEF P, Q, E, k
<1>8. AdvancesHeld(advance', Q) /\ Swapped(advance', advance, m, k, E)
  BY <1>1, <1>3, <1>7, ReleasedIs
<1>9. AdjustmentsHeld(adjustment', Q) /\ SwappedToo(adjustment', adjustment, m, k, E)
  BY <1>1, <1>3, <1>7, FreeIs
<1>10. Tables(advance', adjustment')
  BY <1>8, <1>9 DEF Tables
<1>11. MayCalculate(s) /\ LinesCome(us, runs, m, k, d)
  BY <1>2, <1>5, <1>6 DEF MayCalculate, Unposts, LinesCome, AllRuns, k
<1>12. /\ RunsHeld(t) /\ PostedKept(s, t)
       /\ \A e \in DOMAIN t[Len(t)].lines : FreshLine(advance', adjustment', e, m, t[Len(t)].lines[e])
  BY <1>10, <1>11, CalculatedIs DEF t
<1>13. runs' = [q \in Month |-> runs'[q]] /\ runs'[m] = t /\ \A q \in Month : q # m => runs'[q] = runs[q]
  BY <1>2, <1>4
<1>14. DraftsOnly(us, runs')
  <2>1. \A q \in Month : runs'[q] = us[q] \/ (RunsHeld(runs'[q]) /\ PostedKept(us[q], runs'[q]))
    BY <1>6, <1>12, <1>13
  <2>2. AllRuns(us)
    BY <1>11 DEF LinesCome
  <2> QED
    BY <1>13, <2>1, <2>2, MonthsChange
<1>15. /\ AllRuns(runs') /\ LinesPosted(runs') = Q /\ \A q \in Q : LineAt(runs', q) = LineAt(us, q)
       /\ HeldBack(runs') = HeldBack(us) /\ Payable(runs') = Payable(us) /\ Insured(runs') = Insured(us)
  BY <1>14, PostedLinesStay, BooksStay DEF DraftsOnly, Q
<1>16. BooksSay(books', advance', runs')
  <2>1. /\ HeldBack(runs) = HeldBack(us) - Accrual(d.lines)["advances"]
        /\ Payable(runs) = Payable(us) + Accrual(d.lines)["payable"]
        /\ Insured(runs) = Insured(us) + Accrual(d.lines)["insurance"]
        /\ HeldBack(us) \in Int /\ Payable(us) \in Int /\ Insured(us) \in Int
        /\ \A c \in Accounts : Accrual(d.lines)[c] \in Int
    BY <1>11, ComeSums
  <2>2. Owing(advance) = Owing(advance')
    BY <1>1, <1>8, SwappedWorth, OwingSame
  <2>3. /\ books["advances"] = Owing(advance) - HeldBack(runs)
        /\ books["payable"] = Payable(runs) /\ books["insurance"] = Insured(runs)
        /\ "advances" \in Accounts /\ "payable" \in Accounts /\ "insurance" \in Accounts
        /\ Owing(advance) \in Int /\ \A c \in Accounts : books[c] \in Int
    BY <1>1, OwingInt DEF BooksSay, Accounts
  <2>4. books' \in [Accounts -> Int]
    BY <1>3, <2>1, <2>3
  <2>5. /\ books'["advances"] = books["advances"] - Accrual(d.lines)["advances"]
        /\ books'["payable"] = books["payable"] - Accrual(d.lines)["payable"]
        /\ books'["insurance"] = books["insurance"] - Accrual(d.lines)["insurance"]
    BY <1>3, <2>3
  <2>6. /\ Accrual(d.lines)["advances"] \in Int /\ Accrual(d.lines)["payable"] \in Int
        /\ Accrual(d.lines)["insurance"] \in Int
    BY <2>1, <2>3
  <2> QED
    BY <1>15, <2>1, <2>2, <2>3, <2>4, <2>5, <2>6 DEF BooksSay
<1>17. PayrollInv'
  BY <1>8, <1>9, <1>15, <1>16 DEF PayrollInv
<1>18. ASSUME QuietInv PROVE QuietInv'
  <2>1. Fresh(advance', adjustment', runs')
    <3>1. \A q \in Month : FreshRun(advance, adjustment, runs[q], q)
      BY <1>18, FreshIs DEF QuietInv
    <3>2. ASSUME NEW q \in Month PROVE FreshRun(advance', adjustment', runs'[q], q)
      <4>1. CASE q = m
        BY <1>12, <1>13, <4>1 DEF FreshRun
      <4>2. CASE q # m
        <5>1. \A e : Reads(advance', adjustment', e, q) = Reads(advance, adjustment, e, q)
          BY <1>8, <1>9, <4>2, SwappedElsewhere
        <5> QED
          BY <1>13, <3>1, <4>2, <5>1 DEF FreshRun, FreshLine
      <4> QED
        BY <4>1, <4>2
    <3> QED
      BY <3>2, FreshIs
  <2>2. Counts(advance', adjustment', runs')
    <3> SUFFICES ASSUME NEW q \in Q
                 PROVE  <<LineAt(runs', q).deducted, LineAt(runs', q).bonus, LineAt(runs', q).penalty>>
                          = Takes(advance', adjustment', q)
      BY <1>15 DEF Counts
    <3>1. LineAt(runs', q) = LineAt(runs, q) /\ q \in P /\ q \in RefRow /\ (q.month # m \/ q.run # k)
      BY <1>7, <1>15
    <3>2. Takes(advance, adjustment, q) = Takes(advance', adjustment', q)
      BY <1>8, <1>9, <3>1, TakesOld
    <3> QED
      BY <1>18, <3>1, <3>2 DEF QuietInv, Counts, P
  <2> QED
    BY <2>1, <2>2 DEF QuietInv
<1> QED
  BY <1>17, <1>18

LEMMA PayrollStarts == PayrollInit => PayrollInv /\ QuietInv
<1> SUFFICES ASSUME PayrollInit PROVE PayrollInv /\ QuietInv
  OBVIOUS
<1>1. /\ advance = [a \in Advance |-> Null] /\ adjustment = [x \in Adjustment |-> Null]
      /\ runs = [m \in Month |-> <<>>] /\ books = [c \in Accounts |-> 0]
  BY DEF PayrollInit
<1>2. RunsHeld(<<>>) /\ Len(<<>>) = 0
  BY EmptySeq, PayrollAssumption DEF RunsHeld
<1>3. AllRuns(runs) /\ \A m \in Month : runs[m] = <<>>
  BY <1>1, <1>2 DEF AllRuns
<1>4. LinesPosted(runs) = {}
  BY <1>2, <1>3, RefParts DEF LinesPosted, PostedAt
<1>5. Granted(advance) = {} /\ UnpaidLines(runs) = {}
  BY <1>1, <1>4 DEF Granted, UnpaidLines
<1>6. Owing(advance) = 0 /\ HeldBack(runs) = 0 /\ Payable(runs) = 0 /\ Insured(runs) = 0
  BY <1>4, <1>5, SumEmpty DEF Owing, HeldBack, Payable, Insured
<1>7. BooksSay(books, advance, runs)
  BY <1>1, <1>6 DEF BooksSay, Accounts
<1>8. AdvancesHeld(advance, LinesPosted(runs)) /\ AdjustmentsHeld(adjustment, LinesPosted(runs))
  BY <1>1 DEF AdvancesHeld, AdjustmentsHeld
<1>9. QuietInv
  BY <1>2, <1>3, <1>4 DEF QuietInv, Fresh, Drafted, Counts
<1> QED
  BY <1>3, <1>7, <1>8, <1>9 DEF PayrollInv

LEMMA PostedLinesAre ==
  ASSUME PayrollInv
  PROVE  PostedLines = LinesPosted(runs) /\ \A r : At(r) = LineAt(runs, r)
<1>1. ASSUME NEW r \in RefRow
      PROVE  r.run =< Newest(r.month) <=> r.run \in 1..Len(runs[r.month])
  <2>1. RunsHeld(runs[r.month]) /\ r.run \in 1..MaxRuns
    BY RefParts DEF PayrollInv, AllRuns
  <2>2. Len(runs[r.month]) \in Nat /\ r.run \in Nat /\ r.run >= 1
    BY <2>1, LenProperties, PayrollAssumption DEF RunsHeld
  <2> QED
    BY <2>2 DEF Newest
<1> QED
  BY <1>1 DEF PostedLines, LinesPosted, PostedAt, At, LineAt

LEMMA PayrollTyped ==
  ASSUME PayrollInv
  PROVE  PayrollTypeOK /\ OneLiveRun
<1>1. /\ AllRuns(runs) /\ AdvancesHeld(advance, LinesPosted(runs))
      /\ AdjustmentsHeld(adjustment, LinesPosted(runs)) /\ BooksSay(books, advance, runs)
  BY DEF PayrollInv
<1>2. ASSUME NEW m \in Month
      PROVE  /\ Newest(m) \in 0..MaxRuns /\ runs[m] = [k \in 1..Newest(m) |-> runs[m][k]]
             /\ \A k \in 1..Newest(m) : \E E \in SUBSET Employee : runs[m][k] \in RunRow(E)
             /\ \A k \in 1..Newest(m) : runs[m][k].status # "reversed" => k = Newest(m)
  <2>1. RunsHeld(runs[m])
    BY <1>1 DEF AllRuns
  <2>2. Len(runs[m]) \in 0..MaxRuns /\ runs[m] = [k \in 1..Len(runs[m]) |-> runs[m][k]]
    <3>1. /\ Len(runs[m]) \in Nat /\ Len(runs[m]) =< MaxRuns /\ MaxRuns \in Nat
          /\ runs[m] \in [1..Len(runs[m]) -> RunRows]
      BY <2>1, LenProperties, PayrollAssumption DEF RunsHeld
    <3> QED
      BY ONLY <3>1
  <2>3. \A k \in 1..Len(runs[m]) : \E E \in SUBSET Employee : runs[m][k] \in RunRow(E)
    <3>1. \A k \in 1..Len(runs[m]) : runs[m][k] \in RunRows
      BY <2>1, RunAt
    <3> QED
      BY <3>1 DEF RunRows
  <2> QED
    BY <2>1, <2>2, <2>3 DEF Newest, RunsHeld
<1>3. \A a \in Advance : advance[a] # Null => \E M \in SUBSET Month : advance[a] \in AdvanceRow(M)
  BY <1>1 DEF AdvancesHeld, AdvanceHeld
<1>4. adjustment \in [Adjustment -> AdjustmentRow \cup {Null}]
  <2>1. \A x \in Adjustment : adjustment[x] \in AdjustmentRow \cup {Null}
    BY <1>1 DEF AdjustmentsHeld, AdjustmentHeld
  <2> QED
    BY <1>1, <2>1 DEF AdjustmentsHeld
<1>5. /\ advance = [a \in Advance |-> advance[a]] /\ runs = [m \in Month |-> runs[m]]
      /\ books \in [Accounts -> Int]
  BY <1>1 DEF AdvancesHeld, AllRuns, BooksSay
<1>6. OneLiveRun
  BY <1>2 DEF OneLiveRun
<1> QED
  BY <1>2, <1>3, <1>4, <1>5, <1>6 DEF PayrollTypeOK

LEMMA PayrollSound ==
  ASSUME PayrollInv
  PROVE  BooksOfPayroll /\ TakenByPosted /\ (QuietInv => CountedIsTaken)
<1> DEFINE P == LinesPosted(runs)
<1>1. /\ AdvancesHeld(advance, P) /\ AdjustmentsHeld(adjustment, P) /\ BooksSay(books, advance, runs)
  BY DEF PayrollInv
<1>2. PostedLines = P /\ \A r : At(r) = LineAt(runs, r)
  BY PostedLinesAre
<1>3. BooksOfPayroll
  <2>1. {r \in PostedLines : At(r).payment = {}} = UnpaidLines(runs)
    BY <1>2 DEF UnpaidLines
  <2>2. /\ [r \in PostedLines |-> At(r).deducted] = [r \in P |-> LineAt(runs, r).deducted]
        /\ [r \in UnpaidLines(runs) |-> At(r).net] = [r \in UnpaidLines(runs) |-> LineAt(runs, r).net]
    BY <1>2
  <2>3. {a \in Advance : advance[a] # Null} = Granted(advance)
    BY DEF Granted
  <2> QED
    BY <1>1, <1>2, <2>1, <2>2, <2>3 DEF BooksOfPayroll, BooksSay, Owing, HeldBack, Payable, Insured
<1> HIDE DEF P
<1>4. TakenByPosted
  <2>1. ASSUME NEW a \in Advance, advance[a] # Null
        PROVE  /\ \A m \in DOMAIN advance[a].parts : advance[a].taken[m] # Null =>
                    /\ advance[a].taken[m] \in PostedLines
                    /\ advance[a].taken[m].employee = advance[a].employee
                    /\ advance[a].taken[m].month = m
               /\ advance[a].status = "settled" <=>
                    /\ advance[a].status # "cancelled"
                    /\ \A m \in DOMAIN advance[a].parts : advance[a].taken[m] # Null
    <3>1. AdvanceHeld(advance[a], P)
      BY <1>1, <2>1 DEF AdvancesHeld
    <3>2. DOMAIN advance[a].taken = DOMAIN advance[a].parts
          /\ advance[a].status \in {"active", "settled", "cancelled"}
      BY <3>1, AdvanceParts
    <3> QED
      BY <1>2, <3>1, <3>2 DEF AdvanceHeld
  <2>2. \A x \in Adjustment : adjustment[x] # Null /\ adjustment[x].taken # Null =>
           adjustment[x].taken \in PostedLines
    BY <1>1, <1>2 DEF AdjustmentsHeld, AdjustmentHeld
  <2> QED
    BY <2>1, <2>2 DEF TakenByPosted
<1>5. ASSUME QuietInv PROVE CountedIsTaken
  <2> SUFFICES ASSUME NEW r \in PostedLines
               PROVE  /\ At(r).deducted = HeldSum(advance, r)
                      /\ At(r).bonus = CountedBy(adjustment, r, "bonus")
                      /\ At(r).penalty = CountedBy(adjustment, r, "penalty")
    BY DEF CountedIsTaken, HeldSum, HeldBy, CountedBy
  <2>1. <<LineAt(runs, r).deducted, LineAt(runs, r).bonus, LineAt(runs, r).penalty>>
          = Takes(advance, adjustment, r)
    BY <1>2, <1>5 DEF QuietInv, Counts, P
  <2> QED
    BY <1>2, <2>1 DEF Takes
<1> QED
  BY <1>3, <1>4, <1>5

LEMMA AdvancesScreenKeeps ==
  ASSUME PayrollInv, ScreenOfAdvances
  PROVE  PayrollInv' /\ (QuietInv /\ NoDraftRead => QuietInv')
<1>1. ASSUME NEW a \in Advance, NEW e \in Employee, NEW plan \in Plan, GrantAdvance(a, e, plan)
      PROVE  PayrollInv' /\ UntakenAdvances(advance, advance')
             /\ adjustment' = adjustment /\ runs' = runs
  BY <1>1, GrantKeeps DEF GrantAdvance
<1>2. ASSUME NEW a \in Advance, NEW plan \in Plan, UpdateAdvance(a, plan)
      PROVE  PayrollInv' /\ UntakenAdvances(advance, advance')
             /\ adjustment' = adjustment /\ runs' = runs
  BY <1>2, UpdateAdvanceKeeps DEF UpdateAdvance
<1>3. ASSUME NEW a \in Advance, CancelAdvance(a)
      PROVE  PayrollInv' /\ UntakenAdvances(advance, advance')
             /\ adjustment' = adjustment /\ runs' = runs
  BY <1>3, CancelAdvanceKeeps DEF CancelAdvance
<1>4. ASSUME NEW x \in Adjustment, NEW e \in Employee, NEW m \in Month,
             NEW kind \in {"bonus", "penalty"}, CreateAdjustment(x, e, m, kind)
      PROVE  PayrollInv' /\ UntakenAdjustments(adjustment, adjustment')
             /\ advance' = advance /\ runs' = runs
  BY <1>4, CreateKeeps DEF CreateAdjustment
<1>5. ASSUME NEW x \in Adjustment, CancelAdjustment(x)
      PROVE  PayrollInv' /\ UntakenAdjustments(adjustment, adjustment')
             /\ advance' = advance /\ runs' = runs
  BY <1>5, CancelKeeps DEF CancelAdjustment
<1>6. /\ PayrollInv' /\ runs' = runs
      /\ UntakenAdvances(advance, advance') /\ UntakenAdjustments(adjustment, adjustment')
  BY <1>1, <1>2, <1>3, <1>4, <1>5, SameAdvances DEF ScreenOfAdvances
<1> QED
  BY <1>6, QuietScreen

LEMMA SalariesScreenKeeps ==
  ASSUME PayrollInv, ScreenOfSalaries
  PROVE  PayrollInv' /\ (QuietInv => QuietInv')
BY SaveKeeps, DeleteKeeps, CalculateKeeps, DeleteDraftKeeps, PostKeeps, UnpostKeeps,
   RemoveLineKeeps, AddLineKeeps, UnpayKeeps, UpdateLineKeeps, PayKeeps DEF ScreenOfSalaries

LEMMA PayrollUnchanged ==
  ASSUME PayrollInv, UNCHANGED payrollVars
  PROVE  PayrollInv' /\ (QuietInv => QuietInv')
BY DEF PayrollInv, QuietInv, payrollVars

BranchInv == PayrollInv /\ (world \in Quiet => QuietInv)

LEMMA BranchKept == BranchInv /\ [Next]_vars => BranchInv'
<1> SUFFICES ASSUME BranchInv, [Next]_vars PROVE BranchInv'
  OBVIOUS
<1>1. PayrollInv /\ (world \in Quiet => QuietInv) /\ world' = world
  BY DEF BranchInv, Next, vars
<1>2. CASE OnPayroll
  <2>1. CASE ScreenOfAdvances /\ (world \in Quiet => NoDraftRead)
    BY <1>1, <2>1, AdvancesScreenKeeps DEF BranchInv
  <2>2. CASE ScreenOfSalaries
    BY <1>1, <2>2, SalariesScreenKeeps DEF BranchInv
  <2> QED
    BY <1>2, <2>1, <2>2 DEF OnPayroll
<1>3. CASE UNCHANGED payrollVars
  BY <1>1, <1>3, PayrollUnchanged DEF BranchInv
<1> QED
  BY <1>2, <1>3 DEF Next, vars, OnProduction, OnInspections, OnLive, OnLogin

(* The debt of the employees, the salaries and the insurance due are on the *)
(* books what the posted lines and the advances say; each month has one     *)
(* live run; what was taken names a posted line, and, where no draft is     *)
(* left stale, was held back by it (payroll_service.py: post_run,           *)
(* reverse_run, _consume, _release; salary_service.py: calculate, pay).     *)
THEOREM SalariesAddUp == Spec => []PayrollAddsUp
<1>1. Init => BranchInv
  BY PayrollStarts DEF Init, BranchInv
<1>2. BranchInv => PayrollAddsUp
  BY PayrollTyped, PayrollSound DEF BranchInv, PayrollAddsUp
<1> QED
  BY <1>1, <1>2, BranchKept, PTL DEF Spec
=============================================================================
