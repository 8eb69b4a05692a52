--------------------------- MODULE OperatorProofs ---------------------------
(***************************************************************************)
(* Operator for any topics and any number of lost connections.  What it    *)
(* says of the topics and of the connection follows from the mutex of      *)
(* ProcessManager (Held) together with the order in which main and the     *)
(* ticker may come to KickOffMQTTClient: only one of them ever connects,   *)
(* and before that there is no client (KicksInOrder).                      *)
(***************************************************************************)
EXTENDS Operator, TLAPS

\* Whoever is in one of the functions of ProcessManager has its mutex.
Held == \A g \in Goroutines : pc[g] \in InKick \cup {"servicesUp", "stopping", "hung"} => pm = g

BeforeKick == {"services", "servicesUp", "daemons", "kick"}

\* The ticker exists only when main is past its own chance to connect; whoever
\* may still connect finds no client, and the topics that a kick off in progress
\* has not in the map it has still to subscribe to.
KicksInOrder ==
  /\ pc["ticker"] \in {"off", "gone"} \/ pc["main"] \notin BeforeKick \cup InKick
  /\ \A g \in Goroutines :
       /\ pc[g] \in BeforeKick \cup {"tick", "connect"} => made = started
       /\ pc[g] \in {"subscribe", "record"} => made = TRUE
       /\ pc[g] \in InKick => ~started /\ Topics \subseteq subs \cup left

OperatorInv == /\ OperatorTypeOK /\ Held /\ KicksInOrder
               /\ StartedMeansAll /\ NoStopInKickOff

\* The goroutines, one by one.
LEMMA GoroutineNames ==
  /\ Goroutines = {"main", "ticker", "signal", "http", "mqtt"}
  /\ Requests = {"http", "mqtt"}
  BY DEF Goroutines, Requests

LEMMA OperatorInitHolds == IotAssumption /\ OperatorAssumption /\ Init => OperatorInv
<1> SUFFICES ASSUME IotAssumption, OperatorAssumption, Init PROVE OperatorInv
  OBVIOUS
<1>0. IotInit
  BY DEF Init
<1>1. IotTypeOK
  <2>1. made \in BOOLEAN /\ online \in BOOLEAN
    BY <1>0 DEF IotInit
  <2>2. /\ conn = "none" /\ losses \in Connections /\ session = {} /\ subs = {}
        /\ handler \in [Connections -> {"none", "new", "loop"}]
        /\ todo \in [Connections -> SUBSET Topics]
    BY <1>0 DEF IotInit, Connections, IotAssumption
  <2>3. QED BY <2>1, <2>2 DEF IotTypeOK
<1>2. /\ pc["main"] = "services" /\ pc["ticker"] = "off" /\ pc["signal"] = "off"
      /\ \A g \in Requests : pc[g] = "idle"
  BY GoroutineNames DEF Init
<1>3. OperatorTypeOK
  <2>1. started \in BOOLEAN /\ isConnected \in BOOLEAN /\ alive \in BOOLEAN
    BY DEF Init, IotInit
  <2>2. /\ pm = Nobody /\ left = {} /\ asked = NoTopic /\ sent \in 0 .. MaxRequests
        /\ pc \in [Goroutines -> MainPcs \cup TickerPcs \cup SignalPcs \cup RequestPcs]
    BY <1>2, GoroutineNames
       DEF Init, MainPcs, TickerPcs, SignalPcs, RequestPcs, OperatorAssumption
  <2>3. QED
    BY <1>1, <1>2, <2>1, <2>2, GoroutineNames
       DEF OperatorTypeOK, MainPcs, TickerPcs, SignalPcs, RequestPcs
<1>4. Held /\ KicksInOrder /\ StartedMeansAll /\ NoStopInKickOff
  BY <1>2, GoroutineNames
     DEF Init, IotInit, Held, KicksInOrder, BeforeKick, InKick, StartedMeansAll, NoStopInKickOff
<1>5. QED BY <1>3, <1>4 DEF OperatorInv

\* The end of the process.
LEMMA DeathKeepsInv == ASSUME IotAssumption, OperatorAssumption, OperatorTypeOK, Dies PROVE OperatorInv'
<1>1. IotTypeOK'
  <2>1. made' \in BOOLEAN /\ online' \in BOOLEAN
    BY DEF Dies, IotGone, OperatorTypeOK, IotTypeOK
  <2>2. /\ conn' = "none" /\ losses' \in Connections /\ session' = {} /\ subs' = {}
        /\ handler' \in [Connections -> {"none", "new", "loop"}]
        /\ todo' \in [Connections -> SUBSET Topics]
    BY DEF Dies, IotGone, Connections, IotAssumption
  <2>3. QED BY <2>1, <2>2 DEF IotTypeOK
<1>2. OperatorTypeOK'
  <2>1. started' \in BOOLEAN /\ isConnected' \in BOOLEAN /\ alive' \in BOOLEAN
    BY DEF Dies
  <2>2. /\ pm' = Nobody /\ left' = {} /\ asked' = NoTopic /\ sent' \in 0 .. MaxRequests
        /\ pc' = [g \in Goroutines |-> "gone"]
    BY DEF Dies, OperatorAssumption
  <2>3. QED
    BY <1>1, <2>1, <2>2, GoroutineNames
       DEF OperatorTypeOK, MainPcs, TickerPcs, SignalPcs, RequestPcs
<1>3. (Held /\ KicksInOrder /\ StartedMeansAll /\ NoStopInKickOff)'
  BY GoroutineNames
     DEF Dies, IotGone, Held, KicksInOrder, BeforeKick, InKick, StartedMeansAll, NoStopInKickOff
<1>4. QED BY <1>2, <1>3 DEF OperatorInv

\* Steps of the client alone: handlers, reconnections, the network.
LEMMA ClientKeepsInv ==
  ASSUME IotAssumption, OperatorInv, UNCHANGED opVars,
         \/ \E k \in Connections : HandlerStep(k)
         \/ Reconnect \/ NetChange \/ Lose
  PROVE  OperatorInv'
<1> USE DEF OperatorInv, OperatorTypeOK, connVars, handlerVars
<1>1. IotTypeOK' /\ made' = made /\ subs' = subs /\ (conn' = "closed" => conn = "closed")
  <2>1. ASSUME NEW k \in Connections, HandlerBegins(k) \/ HandlerEnds(k)
        PROVE  IotTypeOK' /\ made' = made /\ subs' = subs /\ conn' = conn
    BY <2>1 DEF HandlerBegins, HandlerEnds, IotTypeOK
  <2>2. ASSUME NEW k \in Connections, NEW t \in Topics, Resubscribe(k, t) \/ ResubscribeFails(k, t)
        PROVE  IotTypeOK' /\ made' = made /\ subs' = subs /\ conn' = conn
    BY <2>2 DEF Resubscribe, ResubscribeFails, Visit, Acknowledge, IotTypeOK
  <2>3. ASSUME NetChange PROVE IotTypeOK' /\ made' = made /\ subs' = subs /\ conn' = conn
    BY <2>3 DEF NetChange, IotTypeOK
  <2>4. ASSUME Lose PROVE IotTypeOK' /\ made' = made /\ subs' = subs /\ conn' = "lost"
    BY <2>4 DEF Lose, IotTypeOK, Connections, IotAssumption
  <2>5. ASSUME Reconnect PROVE IotTypeOK' /\ made' = made /\ subs' = subs /\ conn' = "up"
    BY <2>5 DEF Reconnect, Connected, IotTypeOK
  <2>6. QED BY <2>1, <2>2, <2>3, <2>4, <2>5 DEF HandlerStep
<1>2. UNCHANGED <<pc, pm, started, left, asked, sent, isConnected, alive>>
  BY DEF opVars, kickVars, restVars
<1>3. OperatorTypeOK'
  BY <1>1, <1>2
<1>4. (Held /\ KicksInOrder /\ StartedMeansAll /\ NoStopInKickOff)'
  BY <1>1, <1>2 DEF Held, KicksInOrder, StartedMeansAll, NoStopInKickOff
<1>5. QED BY <1>3, <1>4

\* A step that leaves the client and KickOffMQTTClient alone, and the goroutines
\* where they may be.
Moves ==
  /\ UNCHANGED <<iotVars, kickVars>>
  /\ pc' \in [Goroutines -> MainPcs \cup TickerPcs \cup SignalPcs \cup RequestPcs]
  /\ pc'["main"] \in MainPcs /\ pc'["ticker"] \in TickerPcs /\ pc'["signal"] \in SignalPcs
  /\ \A g \in Requests : pc'[g] \in RequestPcs
  /\ \A g \in Goroutines : pc'[g] \in InKick => pc[g] = pc'[g]
  /\ pm' \in Goroutines \cup {Nobody} /\ sent' \in 0 .. MaxRequests
  /\ isConnected' \in BOOLEAN /\ alive' \in BOOLEAN

LEMMA MovesKeepInv ==
  ASSUME OperatorInv, Moves, Held', KicksInOrder' PROVE OperatorInv'
<1> USE DEF OperatorInv, OperatorTypeOK, Moves
<1>1. UNCHANGED <<made, conn, losses, session, subs, handler, todo, online, started, left, asked>>
  BY DEF iotVars, connVars, handlerVars, kickVars
<1>2. IotTypeOK'
  BY <1>1 DEF IotTypeOK
<1>3. \A g \in Goroutines : pc'[g] = "record" => asked' \in Topics
  BY <1>1 DEF InKick
<1>4. OperatorTypeOK'
  BY <1>1, <1>2, <1>3
<1>5. StartedMeansAll' /\ NoStopInKickOff'
  BY <1>1 DEF StartedMeansAll, NoStopInKickOff, InKick
<1>6. QED BY <1>4, <1>5

\* The steps of that kind: the boot, the ticker, the requests and the shutdown.
LEMMA MoveSteps ==
  ASSUME OperatorAssumption, OperatorInv,
         \/ KickOffServices \/ ServicesUp \/ AbortHangs \/ DaemonsUp \/ Listen \/ Tick
         \/ \E g \in Goroutines : KickIgnored(g) \/ StopEnds(g) \/ StopHangs(g) \/ SystemctlFails(g)
         \/ \E g \in Requests : Request(g)
         \/ \E g \in {"ticker", "signal"} : Quit(g)
  PROVE  OperatorInv'
<1> USE GoroutineNames DEF OperatorInv, OperatorTypeOK, restVars
<1> DEFINE Keeps == Moves /\ Held' /\ KicksInOrder'
<1>0. UNCHANGED <<iotVars, kickVars>> => UNCHANGED <<made, subs, started, left>>
  BY DEF iotVars, connVars, kickVars
<1>1. ASSUME KickOffServices PROVE Keeps
  <2>1. Moves
    BY <1>1 DEF KickOffServices, Lock, Goto, Moves, InKick, MainPcs, TickerPcs, SignalPcs, RequestPcs
  <2>2. Held' /\ KicksInOrder'
    BY <1>0, <1>1 DEF KickOffServices, Lock, Goto, Held, KicksInOrder, BeforeKick, InKick, MainPcs, TickerPcs, SignalPcs, RequestPcs
  <2>3. QED BY <2>1, <2>2
<1>2. ASSUME ServicesUp PROVE Keeps
  <2>1. Moves
    BY <1>2 DEF ServicesUp, Goto, Moves, InKick, MainPcs, TickerPcs, SignalPcs, RequestPcs
  <2>2. Held' /\ KicksInOrder'
    BY <1>0, <1>2 DEF ServicesUp, Goto, Held, KicksInOrder, BeforeKick, InKick, MainPcs, TickerPcs, SignalPcs, RequestPcs
  <2>3. QED BY <2>1, <2>2
<1>3. ASSUME DaemonsUp PROVE Keeps
  <2>1. Moves
    BY <1>3 DEF DaemonsUp, Goto, Moves, InKick, MainPcs, TickerPcs, SignalPcs, RequestPcs
  <2>2. Held' /\ KicksInOrder'
    BY <1>0, <1>3 DEF DaemonsUp, Goto, Held, KicksInOrder, BeforeKick, InKick, MainPcs, TickerPcs, SignalPcs, RequestPcs
  <2>3. QED BY <2>1, <2>2
<1>4. ASSUME Listen PROVE Keeps
  <2>1. Moves
    BY <1>4 DEF Listen, Goto, Moves, InKick, MainPcs, TickerPcs, SignalPcs, RequestPcs
  <2>2. Held' /\ KicksInOrder'
    BY <1>0, <1>4 DEF Listen, Goto, Held, KicksInOrder, BeforeKick, InKick, MainPcs, TickerPcs, SignalPcs, RequestPcs
  <2>3. QED BY <2>1, <2>2
<1>5. ASSUME Tick PROVE Keeps
  <2>1. Moves
    BY <1>5 DEF Tick, Goto, Moves, InKick, MainPcs, TickerPcs, SignalPcs, RequestPcs
  <2>2. Held' /\ KicksInOrder'
    BY <1>0, <1>5 DEF Tick, Goto, Held, KicksInOrder, BeforeKick, InKick, MainPcs, TickerPcs, SignalPcs, RequestPcs
  <2>3. QED BY <2>1, <2>2
<1>6. ASSUME NEW g \in Goroutines, KickIgnored(g) PROVE Keeps
  <2>1. Moves
    BY <1>6 DEF KickIgnored, AfterKick, Goto, Moves, InKick, MainPcs, TickerPcs, SignalPcs, RequestPcs
  <2>2. g \in {"main", "ticker"} /\ pc[g] = "kick" /\ pc' = [pc EXCEPT ![g] = AfterKick(g)]
        /\ UNCHANGED <<made, subs, started, left, pm>>
    BY <1>0, <1>6 DEF KickIgnored, Goto, SignalPcs, RequestPcs, InKick
  <2>3. Held'
    BY <2>2 DEF AfterKick, Held, InKick
  <2>4. KicksInOrder'
    <3>1. made = started
      BY <2>2 DEF KicksInOrder, BeforeKick
    <3>2. QED BY <2>2, <3>1 DEF AfterKick, KicksInOrder, BeforeKick, InKick
  <2>5. QED BY <2>1, <2>3, <2>4
<1>7. ASSUME NEW g \in Goroutines, StopEnds(g) PROVE Keeps
  <2>1. Moves
    BY <1>7 DEF StopEnds, Goto, Moves, InKick, MainPcs, TickerPcs, SignalPcs, RequestPcs
  <2>2. Held' /\ KicksInOrder'
    BY <1>0, <1>7 DEF StopEnds, Goto, Held, KicksInOrder, BeforeKick, InKick, MainPcs, TickerPcs, SignalPcs, RequestPcs
  <2>3. QED BY <2>1, <2>2
<1>8. ASSUME NEW g \in Goroutines, SystemctlFails(g) PROVE Keeps
  <2>1. Moves
    BY <1>8 DEF SystemctlFails, Goto, Moves, InKick, MainPcs, TickerPcs, SignalPcs, RequestPcs
  <2>2. Held' /\ KicksInOrder'
    BY <1>0, <1>8 DEF SystemctlFails, Goto, Held, KicksInOrder, BeforeKick, InKick, MainPcs, TickerPcs, SignalPcs, RequestPcs
  <2>3. QED BY <2>1, <2>2
<1>9. ASSUME NEW g \in Requests, Request(g) PROVE Keeps
  <2>1. Moves
    BY <1>9 DEF Request, Goto, Moves, InKick, MainPcs, TickerPcs, SignalPcs, RequestPcs
  <2>2. Held' /\ KicksInOrder'
    BY <1>0, <1>9 DEF Request, Goto, Held, KicksInOrder, BeforeKick, InKick, MainPcs, TickerPcs, SignalPcs, RequestPcs
  <2>3. QED BY <2>1, <2>2
<1>10. ASSUME NEW g \in {"ticker", "signal"}, Quit(g) PROVE Keeps
  <2>1. Moves
    BY <1>10 DEF Quit, Goto, Moves, InKick, MainPcs, TickerPcs, SignalPcs, RequestPcs
  <2>2. Held' /\ KicksInOrder'
    BY <1>0, <1>10 DEF Quit, Goto, Held, KicksInOrder, BeforeKick, InKick, MainPcs, TickerPcs, SignalPcs, RequestPcs
  <2>3. QED BY <2>1, <2>2
<1>11. ASSUME NEW g \in Goroutines, StopHangs(g) PROVE Keeps
  <2>1. Moves
    BY <1>11 DEF StopHangs, Goto, Moves, InKick, MainPcs, TickerPcs, SignalPcs, RequestPcs
  <2>2. Held' /\ KicksInOrder'
    BY <1>0, <1>11 DEF StopHangs, Goto, Held, KicksInOrder, BeforeKick, InKick, MainPcs, TickerPcs, SignalPcs, RequestPcs
  <2>3. QED BY <2>1, <2>2
<1>12. ASSUME AbortHangs PROVE Keeps
  <2>1. Moves
    BY <1>12 DEF AbortHangs, Goto, Moves, InKick, MainPcs, TickerPcs, SignalPcs, RequestPcs
  <2>2. Held' /\ KicksInOrder'
    BY <1>0, <1>12 DEF AbortHangs, Goto, Held, KicksInOrder, BeforeKick, InKick, MainPcs, TickerPcs, SignalPcs, RequestPcs
  <2>3. QED BY <2>1, <2>2
<1>13. QED
  BY <1>1, <1>2, <1>3, <1>4, <1>5, <1>6, <1>7, <1>8, <1>9, <1>10, <1>11, <1>12, MovesKeepInv

\* An error of KickOffMQTTClient, from wherever it is.
LEMMA KickErrorKeepsInv ==
  ASSUME IotAssumption, OperatorAssumption, OperatorInv,
         NEW g \in Goroutines, pc[g] \in InKick, KickError(g)
  PROVE  OperatorInv'
<1> USE GoroutineNames DEF OperatorInv, OperatorTypeOK, restVars
<1>1. CASE Dies
  BY <1>1, DeathKeepsInv
<1>2. CASE /\ g = "ticker" /\ pc' = [pc EXCEPT ![g] = "quit"] /\ pm' = Nobody
           /\ UNCHANGED <<iotVars, kickVars, restVars>>
  <2>1. Moves
    BY <1>2 DEF Moves, InKick, MainPcs, TickerPcs, SignalPcs, RequestPcs
  <2>2. UNCHANGED <<made, subs, started, left>>
    BY <1>2 DEF iotVars, connVars, kickVars
  <2>3. pm = g
    BY DEF Held
  <2>4. Held'
    BY <1>2, <2>3 DEF Held, InKick
  <2>5. KicksInOrder'
    BY <1>2, <2>2 DEF KicksInOrder, BeforeKick, InKick
  <2>6. QED BY <2>1, <2>4, <2>5, MovesKeepInv
<1>3. QED BY <1>1, <1>2 DEF KickError

\* The steps of KickOffMQTTClient.
LEMMA KickKeepsInv ==
  ASSUME IotAssumption, OperatorAssumption, OperatorInv,
         NEW g \in Goroutines, KickBegins(g) \/ KickStep(g)
  PROVE  OperatorInv'
<1> USE GoroutineNames DEF OperatorInv, OperatorTypeOK
<1>0. pc[g] \in InKick \cup {"kick"} => g \in {"main", "ticker"}
  BY DEF InKick, SignalPcs, RequestPcs
<1>1. ASSUME KickBegins(g) PROVE OperatorInv'
  <2>1. /\ pc[g] = "kick" /\ pc' = [pc EXCEPT ![g] = "connect"] /\ pm = Nobody /\ pm' = g
        /\ left' = Topics /\ ~started
        /\ UNCHANGED <<made, conn, losses, session, subs, handler, todo, online, started, asked, sent, isConnected, alive>>
    BY <1>1 DEF KickBegins, Goto, Lock, iotVars, connVars, handlerVars, restVars
  <2>2. \A h \in Goroutines : pc[h] \notin InKick \cup {"servicesUp", "stopping", "hung"}
    BY <2>1 DEF Held, OperatorAssumption
  <2>3. OperatorTypeOK'
    <3>1. IotTypeOK'
      BY <2>1 DEF IotTypeOK
    <3>2. QED BY <1>0, <2>1, <2>2, <3>1 DEF InKick, MainPcs, TickerPcs, SignalPcs, RequestPcs
  <2>4. Held' /\ StartedMeansAll' /\ NoStopInKickOff'
    BY <2>1, <2>2 DEF Held, StartedMeansAll, NoStopInKickOff, InKick
  <2>5. KicksInOrder'
    BY <1>0, <2>1, <2>2 DEF KicksInOrder, BeforeKick, InKick
  <2>6. QED BY <2>3, <2>4, <2>5
<1>2. ASSUME KickConnects(g) PROVE OperatorInv'
  <2>1. /\ pc[g] = "connect" /\ pc' = [pc EXCEPT ![g] = "subscribe"]
        /\ UNCHANGED <<losses, subs, online, pm, started, left, asked, sent, isConnected, alive>>
    BY <1>2 DEF KickConnects, Connect, Goto, kickVars, restVars
  <2>2. ~made /\ ~started /\ g \in {"main", "ticker"} /\ pm = g
    BY <1>0, <2>1 DEF KicksInOrder, BeforeKick, InKick, Held
  <2>3. made' = TRUE /\ Connected(losses)
    BY <1>2, <2>2 DEF KickConnects, Connect
  <2>4. IotTypeOK' /\ conn' = "up"
    BY <2>1, <2>3 DEF Connected, IotTypeOK
  <2>5. OperatorTypeOK'
    BY <2>1, <2>2, <2>4 DEF InKick, MainPcs, TickerPcs, SignalPcs, RequestPcs
  <2>6. Held' /\ StartedMeansAll' /\ NoStopInKickOff'
    BY <2>1, <2>2, <2>4 DEF Held, StartedMeansAll, NoStopInKickOff, InKick
  <2>7. KicksInOrder'
    <3>1. \A h \in Goroutines \ {g} : pc[h] \notin BeforeKick \cup InKick \cup {"tick"}
      BY <2>1, <2>2 DEF KicksInOrder, BeforeKick, InKick, MainPcs, TickerPcs, SignalPcs, RequestPcs
    <3>2. \A h \in Goroutines : pc'[h] \in InKick => h = g
      BY <2>1, <3>1 DEF InKick, BeforeKick
    <3>3. pc'["ticker"] \in {"off", "gone"} \/ pc'["main"] \notin BeforeKick \cup InKick
      BY <2>1, <2>2, <3>1 DEF KicksInOrder, BeforeKick, InKick
    <3>4. ~started' /\ Topics \subseteq subs' \cup left' /\ made' = TRUE
      BY <2>1, <2>2, <2>3 DEF KicksInOrder, InKick
    <3>5. \A h \in Goroutines : pc'[h] \notin BeforeKick \cup {"tick", "connect"}
      BY <2>1, <2>2, <3>1 DEF BeforeKick, InKick
    <3>6. QED BY <3>2, <3>3, <3>4, <3>5 DEF KicksInOrder
  <2>8. QED BY <2>5, <2>6, <2>7
<1>3. ASSUME ConnectFails(g) \/ SubscribeFails(g) PROVE OperatorInv'
  BY <1>3, KickErrorKeepsInv DEF ConnectFails, SubscribeFails, InKick
<1>4. ASSUME NEW t \in Topics, Subscribe(g, t) PROVE OperatorInv'
  <2>1. /\ pc[g] = "subscribe" /\ pc' = [pc EXCEPT ![g] = "record"] /\ asked' = t
        /\ conn = "up" /\ session' = session \cup {t}
        /\ UNCHANGED <<made, conn, losses, subs, handler, todo, online, pm, started, left, sent, isConnected, alive>>
    BY <1>4 DEF Subscribe, Acknowledge, Goto, handlerVars, restVars
  <2>2. g \in {"main", "ticker"} /\ pm = g
    BY <1>0, <2>1 DEF InKick, Held
  <2>3. IotTypeOK'
    BY <2>1 DEF IotTypeOK
  <2>4. OperatorTypeOK'
    BY <2>1, <2>2, <2>3 DEF InKick, MainPcs, TickerPcs, SignalPcs, RequestPcs
  <2>5. Held' /\ StartedMeansAll' /\ NoStopInKickOff'
    BY <2>1, <2>2 DEF Held, StartedMeansAll, NoStopInKickOff, InKick
  <2>6. KicksInOrder'
    BY <2>1, <2>2 DEF KicksInOrder, BeforeKick, InKick
  <2>7. QED BY <2>4, <2>5, <2>6
<1>5. ASSUME Record(g) PROVE OperatorInv'
  <2>1. pc[g] = "record" /\ asked \in Topics /\ g \in {"main", "ticker"} /\ pm = g
    BY <1>0, <1>5 DEF Record, InKick, Held
  <2>2. CASE asked \in subs
    BY <1>5, <2>1, <2>2, KickErrorKeepsInv DEF Record, InKick
  <2>3. CASE asked \notin subs
    <3>1. /\ pc' = [pc EXCEPT ![g] = "subscribe"] /\ left' = left \ {asked} /\ asked' = NoTopic
          /\ subs' = subs \cup {asked}
          /\ UNCHANGED <<made, conn, losses, session, handler, online, pm, started, sent, isConnected, alive>>
      BY <1>5, <2>3 DEF Record, Remember, Goto, connVars, restVars
    <3>2. todo' \in [Connections -> SUBSET Topics]
      BY <1>5, <2>1, <2>3 DEF Record, Remember, IotTypeOK
    <3>3. IotTypeOK'
      BY <2>1, <3>1, <3>2 DEF IotTypeOK
    <3>4. \A h \in Goroutines : h # g => pc[h] # "record"
      BY <2>1 DEF Held, InKick
    <3>5. OperatorTypeOK'
      BY <2>1, <3>1, <3>3, <3>4 DEF InKick, MainPcs, TickerPcs, SignalPcs, RequestPcs
    <3>6. StartedMeansAll' /\ Held' /\ NoStopInKickOff'
      BY <2>1, <3>1 DEF Held, StartedMeansAll, NoStopInKickOff, InKick
    <3>7. KicksInOrder'
      BY <2>1, <3>1 DEF KicksInOrder, BeforeKick, InKick
    <3>8. QED BY <3>5, <3>6, <3>7
  <2>4. QED BY <2>2, <2>3
<1>6. ASSUME RecordRaces(g) PROVE OperatorInv'
  BY <1>6, DeathKeepsInv DEF RecordRaces
<1>7. ASSUME KickSucceeds(g) PROVE OperatorInv'
  <2>1. /\ pc[g] = "subscribe" /\ pc' = [pc EXCEPT ![g] = AfterKick(g)] /\ left = {}
        /\ started' = TRUE /\ pm' = Nobody
        /\ UNCHANGED <<made, conn, losses, session, subs, handler, todo, online, left, asked, sent, isConnected, alive>>
    BY <1>7 DEF KickSucceeds, Goto, iotVars, connVars, handlerVars, restVars
  <2>2. /\ g \in {"main", "ticker"} /\ pm = g /\ Topics \subseteq subs
        /\ \A h \in Goroutines \ {g} : pc[h] \notin InKick \cup {"servicesUp", "stopping", "hung"}
    BY <1>0, <2>1 DEF InKick, Held, KicksInOrder
  <2>3. IotTypeOK'
    BY <2>1 DEF IotTypeOK
  <2>4. OperatorTypeOK'
    BY <2>1, <2>2, <2>3 DEF AfterKick, InKick, MainPcs, TickerPcs, SignalPcs, RequestPcs
  <2>5. Held' /\ NoStopInKickOff'
    BY <2>1, <2>2 DEF AfterKick, Held, NoStopInKickOff, InKick
  <2>6. StartedMeansAll'
    BY <2>1, <2>2 DEF StartedMeansAll, IotTypeOK
  <2>7. KicksInOrder'
    <3>1. /\ \A h \in Goroutines \ {g} : pc[h] \notin BeforeKick \cup InKick \cup {"tick"}
          /\ made' = TRUE
      BY <2>1, <2>2 DEF KicksInOrder, BeforeKick, InKick, MainPcs, TickerPcs, SignalPcs, RequestPcs
    <3>2. \A h \in Goroutines : pc'[h] \in InKick => FALSE
      BY <2>1, <3>1 DEF AfterKick, InKick
    <3>3. pc'["ticker"] \in {"off", "gone"} \/ pc'["main"] \notin BeforeKick \cup InKick
      BY <2>1, <2>2, <3>1 DEF AfterKick, BeforeKick, InKick
    <3>4. QED BY <2>1, <3>1, <3>2, <3>3 DEF KicksInOrder, InKick
  <2>8. QED BY <2>4, <2>5, <2>6, <2>7
<1>8. QED BY <1>1, <1>2, <1>3, <1>4, <1>5, <1>6, <1>7 DEF KickStep

\* Stop, by a request or by main: with the mutex, hence with nobody in
\* KickOffMQTTClient.
LEMMA StopKeepsInv ==
  ASSUME OperatorAssumption, OperatorInv, NEW g \in Goroutines, StopBegins(g)
  PROVE  OperatorInv'
<1> USE GoroutineNames DEF OperatorInv, OperatorTypeOK
<1>1. /\ pc[g] = "stop" /\ pc' = [pc EXCEPT ![g] = "stopping"] /\ pm = Nobody /\ pm' = g
      /\ conn' = IF made THEN "closed" ELSE conn
      /\ UNCHANGED <<made, losses, session, subs, handler, todo, online>>
      /\ UNCHANGED <<started, left, asked, sent, isConnected, alive>>
  BY DEF StopBegins, Goto, Lock, Disconnect, handlerVars, kickVars, restVars
<1>2. \A h \in Goroutines : pc[h] \notin InKick \cup {"servicesUp", "stopping", "hung"}
  BY <1>1 DEF Held, OperatorAssumption
<1>3. OperatorTypeOK'
  <2>1. IotTypeOK'
    BY <1>1 DEF IotTypeOK
  <2>2. QED BY <1>1, <1>2, <2>1 DEF InKick, MainPcs, TickerPcs, SignalPcs, RequestPcs
<1>4. Held' /\ StartedMeansAll' /\ NoStopInKickOff'
  BY <1>1, <1>2 DEF Held, StartedMeansAll, NoStopInKickOff, InKick
<1>5. KicksInOrder'
  BY <1>1, <1>2 DEF KicksInOrder, BeforeKick, InKick
<1>6. QED BY <1>3, <1>4, <1>5

\* The signal, from outside or from systemctl.
LEMMA SignalKeepsInv ==
  ASSUME IotAssumption, OperatorAssumption, OperatorInv,
         \/ Interrupt
         \/ \E g \in Goroutines : Systemctl(g)
  PROVE  OperatorInv'
<1> USE GoroutineNames DEF OperatorInv, OperatorTypeOK, restVars
<1>1. CASE Interrupt
  <2>1. CASE Dies
    BY <2>1, DeathKeepsInv
  <2>2. CASE ~Dies
    <3>1. /\ pc' = IF pc["signal"] = "idle" THEN [pc EXCEPT !["signal"] = "quit"] ELSE pc
          /\ UNCHANGED <<iotVars, pm, kickVars, restVars>>
      BY <1>1, <2>2 DEF Interrupt, Signal
    <3>2. UNCHANGED <<made, subs, started, left>>
      BY <3>1 DEF iotVars, connVars, kickVars
    <3>3. Moves
      BY <3>1 DEF Moves, InKick, MainPcs, TickerPcs, SignalPcs, RequestPcs
    <3>4. Held' /\ KicksInOrder'
      BY <3>1, <3>2 DEF Held, KicksInOrder, BeforeKick, InKick
    <3>5. QED BY <3>3, <3>4, MovesKeepInv
  <2>3. QED BY <2>1, <2>2
<1>2. ASSUME NEW g \in Goroutines, Systemctl(g) PROVE OperatorInv'
  <2>1. CASE Dies
    BY <2>1, DeathKeepsInv
  <2>2. CASE ~Dies
    <3>1. /\ pc[g] = "systemctl"
          /\ pc' = IF pc["signal"] = "idle"
                   THEN [[pc EXCEPT ![g] = "killed"] EXCEPT !["signal"] = "quit"]
                   ELSE [pc EXCEPT ![g] = "killed"]
          /\ UNCHANGED <<iotVars, pm, kickVars, restVars>>
      BY <1>2, <2>2 DEF Systemctl, Signal
    <3>2. UNCHANGED <<made, subs, started, left>>
      BY <3>1 DEF iotVars, connVars, kickVars
    <3>3. g \in Requests
      BY <3>1 DEF InKick, MainPcs, TickerPcs, SignalPcs
    <3>4. Moves
      BY <3>1, <3>3 DEF Moves, InKick, MainPcs, TickerPcs, SignalPcs, RequestPcs
    <3>5. Held' /\ KicksInOrder'
      BY <3>1, <3>2, <3>3 DEF Held, KicksInOrder, BeforeKick, InKick
    <3>6. QED BY <3>4, <3>5, MovesKeepInv
  <2>3. QED BY <2>1, <2>2
<1>3. QED BY <1>1, <1>2

\* The end of main: a failed boot, gracefullShutdown and the exit.
LEMMA EndKeepsInv ==
  ASSUME IotAssumption, OperatorAssumption, OperatorInv, BootFails \/ Shutdown \/ Exit
  PROVE  OperatorInv'
<1> USE GoroutineNames DEF OperatorInv, OperatorTypeOK, restVars
<1>1. CASE Dies
  BY <1>1, DeathKeepsInv
<1>2. CASE /\ Goto("main", "shutdown", "stop") /\ UNCHANGED <<iotVars, pm, kickVars, restVars>>
  <2>1. UNCHANGED <<made, subs, started, left>>
    BY <1>2 DEF iotVars, connVars, kickVars
  <2>2. Moves
    BY <1>2 DEF Goto, Moves, InKick, MainPcs, TickerPcs, SignalPcs, RequestPcs
  <2>3. Held' /\ KicksInOrder'
    BY <1>2, <2>1 DEF Goto, Held, KicksInOrder, BeforeKick, InKick
  <2>4. QED BY <2>2, <2>3, MovesKeepInv
<1>3. QED BY <1>1, <1>2 DEF BootFails, Shutdown, Exit

LEMMA StepKeepsInv ==
  ASSUME IotAssumption, OperatorAssumption, OperatorInv, [Next]_vars PROVE OperatorInv'
<1>1. ASSUME NEW g \in Goroutines, GoStep(g) PROVE OperatorInv'
  <2>1. CASE MainStep
    BY <2>1, GoroutineNames, MoveSteps, EndKeepsInv DEF MainStep
  <2>2. CASE Tick
    BY <2>2, MoveSteps
  <2>3. CASE KickIgnored(g) \/ StopEnds(g) \/ StopHangs(g) \/ SystemctlFails(g)
    BY <2>3, MoveSteps
  <2>4. CASE KickBegins(g) \/ KickStep(g)
    BY <2>4, KickKeepsInv
  <2>5. CASE StopBegins(g)
    BY <2>5, StopKeepsInv
  <2>6. CASE Systemctl(g)
    BY <2>6, SignalKeepsInv
  <2>7. QED BY <1>1, <2>1, <2>2, <2>3, <2>4, <2>5, <2>6 DEF GoStep
<1>2. CASE Interrupt
  BY <1>2, SignalKeepsInv
<1>3. ASSUME NEW g \in Requests, Request(g) PROVE OperatorInv'
  BY <1>3, MoveSteps
<1>4. CASE (NetChange \/ Lose) /\ UNCHANGED opVars
  BY <1>4, ClientKeepsInv
<1>5. ASSUME NEW k \in Connections, ClientStep(k) PROVE OperatorInv'
  BY <1>5, ClientKeepsInv DEF ClientStep
<1>6. CASE ReconnectStep
  BY <1>6, ClientKeepsInv DEF ReconnectStep
<1>7. CASE UNCHANGED vars
  <2>1. UNCHANGED <<iotVars, kickVars, pc, pm, sent, isConnected, alive>>
    BY <1>7 DEF vars, opVars, restVars
  <2>2. UNCHANGED <<made, subs, started, left>>
    BY <2>1 DEF iotVars, connVars, kickVars
  <2>3. Moves /\ Held' /\ KicksInOrder'
    BY <2>1, <2>2 DEF OperatorInv, OperatorTypeOK, Moves, Held, KicksInOrder
  <2>4. QED BY <2>3, MovesKeepInv
<1>8. QED BY <1>1, <1>2, <1>3, <1>4, <1>5, <1>6, <1>7 DEF Next

LEMMA OperatorInvariant == Spec => []OperatorInv
<1>1. IotAssumption /\ OperatorAssumption
  BY IotAssumption, OperatorAssumption
<1>2. Init => OperatorInv
  BY <1>1, OperatorInitHolds
<1>3. OperatorInv /\ [Next]_vars => OperatorInv'
  BY <1>1, StepKeepsInv
<1>4. QED BY <1>2, <1>3, PTL DEF Spec

\* The operator and its client keep their types through deaths, lost connections
\* and any order of requests, boot and shutdown.
THEOREM OperatorTypeCorrect == Spec => []OperatorTypeOK
<1>1. OperatorInv => OperatorTypeOK
  BY DEF OperatorInv
<1>2. QED BY <1>1, OperatorInvariant, PTL

\* The connection never counts as started with a topic missing in the map that a
\* reconnection goes by.
THEOREM NoTopicForgotten == Spec => []StartedMeansAll
<1>1. OperatorInv => StartedMeansAll
  BY DEF OperatorInv
<1>2. QED BY <1>1, OperatorInvariant, PTL

\* No Stop closes the connection under a KickOffMQTTClient that is subscribing.
THEOREM KickOffUndisturbed == Spec => []NoStopInKickOff
<1>1. OperatorInv => NoStopInKickOff
  BY DEF OperatorInv
<1>2. QED BY <1>1, OperatorInvariant, PTL

\* Two connections are never made for one operator: at most one goroutine is in
\* KickOffMQTTClient, and the one about to connect finds no client, so that the
\* early return of Connect (iot.go:71-73) is never taken there.
ConnectsOnce ==
  /\ \A g, h \in Goroutines : pc[g] \in InKick /\ pc[h] \in InKick => g = h
  /\ \A g \in Goroutines : pc[g] = "connect" => ~made

THEOREM OneConnectionEver == Spec => []ConnectsOnce
<1>1. OperatorInv => ConnectsOnce
  <2> SUFFICES ASSUME OperatorInv PROVE ConnectsOnce
    OBVIOUS
  <2>1. \A g, h \in Goroutines : pc[g] \in InKick /\ pc[h] \in InKick => g = h
    BY DEF OperatorInv, Held
  <2>2. ASSUME NEW g \in Goroutines, pc[g] = "connect" PROVE ~made
    BY <2>2 DEF OperatorInv, KicksInOrder, InKick, BeforeKick
  <2>3. QED BY <2>1, <2>2 DEF ConnectsOnce
<1>2. QED BY <1>1, OperatorInvariant, PTL
=============================================================================
