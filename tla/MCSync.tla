-------------------------------- MODULE MCSync --------------------------------
(* Instances of StockLedger, OfflineSync and PunchAgent under fairness.  A  *)
(* behaviour takes place in one world.  In "stock" requests take locators   *)
(* in any order; in "phone" the sales application synchronises; in "agent"  *)
(* one run of the agent follows another, in "agents" two overlap on fewer   *)
(* punches, and in "month" a month begins.                                  *)
EXTENDS StockLedger, MCOfflineSync, PunchAgent

CONSTANTS World, shop, fresh, r1, r2, x1, x2

VARIABLE world

worldVars == <<world, vars, offlineVars, agentVars>>

MCOpening == [l \in Locator |-> IF l = shop THEN 2 ELSE 0]

P(no, at) == [no |-> no, at |-> at, way |-> "in"]
Few == {P(1, 1), P(2, 2)}
Three == Few \cup {P(1, 2)}
Four == Few \cup {P(1, 2), P(1, 3)}

-----------------------------------------------------------------------------
MCInit == world \in World /\ Init /\ OfflineInit /\ AgentInit

InStock ==
    /\ world = "stock" /\ Next
    /\ UNCHANGED <<offlineVars, agentVars>>

OnPhone ==
    /\ world = "phone" /\ OfflineNext
    /\ UNCHANGED <<vars, agentVars>>

OneAfterAnother == going'[x2] = Null
TwoAtOnce ==
    /\ punched' \subseteq Few
    /\ going[x1] = Null => going'[x2] \in {Null, going[x2]}

OnAgent ==
    /\ world \in {"agent", "agents", "month"}
    /\ AgentNext
    /\ \/ world = "agent" /\ OneAfterAnother /\ since' = since
       \/ world = "agents" /\ TwoAtOnce /\ since' = since
       \/ world = "month" /\ OneAfterAnother /\ cuts' = cuts /\ punched' \subseteq Few
    /\ UNCHANGED <<vars, offlineVars>>

MCNext == UNCHANGED world /\ (InStock \/ OnPhone \/ OnAgent)

(* The user keeps synchronising: the automatic task is started again and    *)
(* again; tasks and requests that have begun go on, and faults are finitely *)
(* many.                                                                    *)
Synchronise(p) == world = "phone" /\ \E plan \in Plan[p] : StartTask(p, plan)

PhoneFairness ==
    /\ \A p \in Pusher : WF_offlineVars(TaskStep(p))
    /\ \A p \in Tolerant : WF_offlineVars(Synchronise(p))
    /\ \A c \in Conn : WF_offlineVars(ServerStep(c))

(* The scheduler runs the agent every few minutes, and a run goes on until  *)
(* it is cut off.  Its steps follow one another, and one is enabled.        *)
RunGoesOn(r) ==
    world = "agent" /\ (Start(r) \/ Count(r) \/ Read(r) \/ BatchSent(r) \/ Finish(r))

AgentFairness == WF_agentVars(RunGoesOn(x1))

MCSpec == MCInit /\ [][MCNext]_worldVars
MCFairSpec == MCSpec /\ Fairness /\ PhoneFairness /\ AgentFairness

-----------------------------------------------------------------------------
(* Where runs follow one another, punches arrive in the end (zk_agent.py:   *)
(* run_sync).                                                               *)
PunchesArriveAlone == world = "agent" => PunchesArrive

(* The first run sends punches from the date of config.ini only             *)
(* (src/tools/zk_agent/config.ini:27): once a run has saved how far it      *)
(* came, no new month puts a punch the next run would send out of reach.    *)
FirstRunOnly ==
    [][file # Empty /\ file' = file =>
           \A p \in Unsent : p.at >= Cursor(file) => p.at >= Cursor(file)']_worldVars
=============================================================================
