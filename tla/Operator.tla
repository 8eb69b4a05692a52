------------------------------ MODULE Operator ------------------------------
(***************************************************************************)
(* main.go from the web server on, with ProcessManager: the boot, the      *)
(* ticker that connects later when there is no internet, the requests that *)
(* stop everything and restart the operator, the signal and the shutdown.  *)
(* They share the mutex of ProcessManager and the channel quit, which has  *)
(* no buffer.                                                              *)
(*                                                                         *)
(* What the services and daemons do meanwhile is in ServiceStore and       *)
(* DaemonStore: here their loops end or fail, or, where they stop          *)
(* services, never come back: a Stop that waits for an exit which another  *)
(* Stop was given (command.go:158) keeps the mutex for good.               *)
(***************************************************************************)
EXTENDS IotClient

CONSTANTS RestartTopics,  \* update and restart: their handlers stop everything
          MaxRequests,    \* bound: requests in one behaviour
          Nobody, NoTopic

Requests == {"http", "mqtt"}
Goroutines == {"main", "ticker", "signal"} \cup Requests

ASSUME OperatorAssumption == /\ RestartTopics \subseteq Topics /\ NoTopic \notin Topics
                             /\ Nobody \notin Goroutines /\ MaxRequests \in Nat

VARIABLES pc,       \* pc[g]: where goroutine g is
          pm,       \* holder of the mutex of ProcessManager
          started,  \* mqttConnectionStarted
          left,     \* KickOffMQTTClient: topics it has still to subscribe to,
          asked,    \*   and the one the broker has just acknowledged
          sent,     \* requests so far
          isConnected,  \* local of main
          alive     \* the process exists

kickVars == <<started, left, asked>>
restVars == <<sent, isConnected, alive>>
opVars == <<pc, pm, kickVars, restVars>>
vars == <<iotVars, opVars>>

Init == /\ IotInit
        /\ pc = [g \in Goroutines |-> CASE g = "main" -> "services"
                                        [] g \in {"ticker", "signal"} -> "off"
                                        [] g \in Requests -> "idle"]
        /\ pm = Nobody
        /\ started = FALSE /\ left = {} /\ asked = NoTopic
        /\ isConnected = online
        /\ sent = 0 /\ alive = TRUE

Goto(g, from, to) == pc[g] = from /\ pc' = [pc EXCEPT ![g] = to]
Lock(g) == pm = Nobody /\ pm' = g

\* The process ends, and all its goroutines and variables with it.
Dies == /\ alive' = FALSE /\ IotGone
        /\ pc' = [g \in Goroutines |-> "gone"] /\ pm' = Nobody
        /\ started' = FALSE /\ left' = {} /\ asked' = NoTopic /\ sent' = 0 /\ isConnected' = FALSE
-----------------------------------------------------------------------------
\* KickOffServices holds the mutex while the services are bootstrapped and started.
KickOffServices == /\ Goto("main", "services", "servicesUp") /\ Lock("main")
                   /\ UNCHANGED <<iotVars, kickVars, restVars>>

ServicesUp == /\ Goto("main", "servicesUp", "daemons")
              /\ pm' = Nobody
              /\ UNCHANGED <<iotVars, kickVars, restVars>>

\* A boot that fails stops the services it has started, which may hang.
AbortHangs == /\ Goto("main", "servicesUp", "hung")
              /\ UNCHANGED <<iotVars, pm, kickVars, restVars>>

DaemonsUp == /\ pc["main"] = "daemons"
             /\ pc' = IF isConnected THEN [pc EXCEPT !["main"] = "kick"]
                      ELSE [pc EXCEPT !["main"] = "listen", !["ticker"] = "tick"]
             /\ UNCHANGED <<iotVars, pm, kickVars, restVars>>

\* check: log.Fatal, which ends the process as it is.
BootFails == /\ pc["main"] \in {"servicesUp", "daemons"}
             /\ Dies

Listen == /\ pc["main"] = "listen"
          /\ pc' = [pc EXCEPT !["main"] = "wait", !["signal"] = "idle"]
          /\ UNCHANGED <<iotVars, pm, kickVars, restVars>>

\* Mutant: the ticker goes when it finds no connection.
TickGivesUp == /\ Goto("ticker", "tick", IF online THEN "kick" ELSE "done")
               /\ UNCHANGED <<iotVars, pm, kickVars, restVars>>

\* The ticker looks for a connection every 30 seconds, also after it has one.
Tick == /\ online /\ Goto("ticker", "tick", "kick")
        /\ UNCHANGED <<iotVars, pm, kickVars, restVars>>
-----------------------------------------------------------------------------
\* KickOffMQTTClient, called by main or by the ticker.
AfterKick(g) == IF g = "main" THEN "listen" ELSE "tick"

\* Mutant: the early return keeps the mutex.
KickIgnoredKeeps(g) == /\ started /\ Goto(g, "kick", AfterKick(g)) /\ Lock(g)
                       /\ UNCHANGED <<iotVars, kickVars, restVars>>

KickIgnored(g) == /\ started /\ pm = Nobody /\ Goto(g, "kick", AfterKick(g))
                  /\ UNCHANGED <<iotVars, pm, kickVars, restVars>>

KickBegins(g) == /\ ~started /\ Goto(g, "kick", "connect") /\ Lock(g)
                 /\ left' = Topics
                 /\ UNCHANGED <<iotVars, started, asked, restVars>>

\* Mutant: the error goes to the channel quit, whoever has called.
KickErrorToQuit(g) == /\ pm' = Nobody /\ pc' = [pc EXCEPT ![g] = "quit"]
                      /\ UNCHANGED <<iotVars, kickVars, restVars>>

\* Mutant: the mutex is not given back on an error.
KickErrorLocked(g) == \/ g = "main" /\ Dies
                      \/ /\ g = "ticker" /\ pc' = [pc EXCEPT ![g] = "quit"]
                         /\ UNCHANGED <<iotVars, pm, kickVars, restVars>>

\* Mutant: the ticker logs the error and tries again.
KickErrorRetried(g) == \/ g = "main" /\ Dies
                       \/ /\ g = "ticker" /\ pc' = [pc EXCEPT ![g] = "tick"] /\ pm' = Nobody
                          /\ UNCHANGED <<iotVars, kickVars, restVars>>

\* The caller gets an error: fatal for main, while the ticker asks main to quit.
KickError(g) == \/ g = "main" /\ Dies
                \/ /\ g = "ticker" /\ pc' = [pc EXCEPT ![g] = "quit"] /\ pm' = Nobody
                   /\ UNCHANGED <<iotVars, kickVars, restVars>>

KickConnects(g) == /\ Goto(g, "connect", "subscribe") /\ Connect
                   /\ UNCHANGED <<pm, kickVars, restVars>>

ConnectFails(g) == pc[g] = "connect" /\ KickError(g)

Subscribe(g, t) == /\ Goto(g, "subscribe", "record") /\ t \in left
                   /\ Acknowledge(t) /\ asked' = t
                   /\ UNCHANGED <<subs, handlerVars, online, pm, started, left, restVars>>

\* Mutant: the error of one topic is passed over.
SubscribeFailsOn(g) == /\ Goto(g, "subscribe", "subscribe") /\ conn # "up"
                       /\ \E t \in left : left' = left \ {t}
                       /\ UNCHANGED <<iotVars, pm, started, asked, restVars>>

SubscribeFails(g) == /\ pc[g] = "subscribe" /\ left # {} /\ conn # "up"
                     /\ KickError(g)

\* The topic goes to the map, unless it is there.
Record(g) == /\ pc[g] = "record"
             /\ IF asked \in subs
                THEN KickError(g)
                ELSE /\ Remember(asked)
                     /\ left' = left \ {asked} /\ asked' = NoTopic
                     /\ Goto(g, "record", "subscribe")
                     /\ UNCHANGED <<pm, started, restVars>>

\* The runtime may end a program that writes a map while a loop goes over it.
RecordRaces(g) == /\ pc[g] = "record" /\ \E k \in Connections : handler[k] = "loop"
                  /\ Dies

KickSucceeds(g) == /\ left = {} /\ Goto(g, "subscribe", AfterKick(g))
                   /\ started' = TRUE /\ pm' = Nobody
                   /\ UNCHANGED <<iotVars, left, asked, restVars>>

KickStep(g) == \/ KickConnects(g) \/ ConnectFails(g) \/ SubscribeFails(g)
               \/ Record(g) \/ RecordRaces(g) \/ KickSucceeds(g)
               \/ \E t \in Topics : Subscribe(g, t)
-----------------------------------------------------------------------------
\* A request to update or restart the operator: by HTTP from the start of the
\* boot until the server is shut down, by MQTT while there is a topic for it.
Request(g) ==
  /\ \/ g = "http" /\ pc["main"] \notin {"stop", "stopping", "exit"}
     \/ g = "mqtt" /\ conn = "up" /\ session \cap RestartTopics # {}
  /\ sent < MaxRequests /\ sent' = sent + 1
  /\ Goto(g, "idle", "stop")
  /\ UNCHANGED <<iotVars, pm, kickVars, isConnected, alive>>

\* Mutant: Stop does without the mutex.
StopUnlocked(g) == /\ Goto(g, "stop", "stopping") /\ pm' = g
                   /\ Disconnect
                   /\ UNCHANGED <<kickVars, restVars>>

\* ProcessManager.Stop: the broker first, then the services.
StopBegins(g) == /\ Goto(g, "stop", "stopping") /\ Lock(g)
                 /\ Disconnect
                 /\ UNCHANGED <<kickVars, restVars>>

StopEnds(g) == /\ Goto(g, "stopping", IF g = "main" THEN "exit" ELSE "systemctl")
               /\ pm' = Nobody
               /\ UNCHANGED <<iotVars, kickVars, restVars>>

\* The exit of a service went to another Stop (command.go:158), and this one keeps
\* the mutex for ever.  ServiceStore tells when; here it may always happen.
StopHangs(g) == /\ Goto(g, "stopping", "hung")
                /\ UNCHANGED <<iotVars, pm, kickVars, restVars>>

\* A signal ends the process before main listens to it; then one is enough.
Signal(p) == \/ pc["signal"] = "off" /\ Dies
             \/ /\ pc["signal"] # "off"
                /\ pc' = IF pc["signal"] = "idle" THEN [p EXCEPT !["signal"] = "quit"] ELSE p
                /\ UNCHANGED <<iotVars, pm, kickVars, restVars>>

Interrupt == Signal(pc)

\* systemctl restart operator sends one, and the handler waits for its own end;
\* if systemctl fails, nobody looks at it.
Systemctl(g) == pc[g] = "systemctl" /\ Signal([pc EXCEPT ![g] = "killed"])

SystemctlFails(g) == /\ Goto(g, "systemctl", "idle")
                     /\ UNCHANGED <<iotVars, pm, kickVars, restVars>>

\* main waits for the first of those who send to quit; the other one stays there.
Quit(g) == /\ pc["main"] = "wait" /\ pc[g] = "quit"
           /\ pc' = [pc EXCEPT !["main"] = "shutdown", ![g] = "done"]
           /\ UNCHANGED <<iotVars, pm, kickVars, restVars>>

\* gracefullShutdown: Shutdown of the server, given a nil context, panics when a
\* request is in progress.
Shutdown == \/ pc["main"] = "shutdown" /\ pc["http"] # "idle" /\ Dies
            \/ /\ pc["http"] = "idle" /\ Goto("main", "shutdown", "stop")
               /\ UNCHANGED <<iotVars, pm, kickVars, restVars>>

Exit == pc["main"] = "exit" /\ Dies
-----------------------------------------------------------------------------
MainStep == \/ KickOffServices \/ ServicesUp \/ AbortHangs \/ DaemonsUp \/ BootFails \/ Listen \/ Shutdown \/ Exit
            \/ \E g \in {"ticker", "signal"} : Quit(g)

GoStep(g) == alive /\ (\/ g = "main" /\ MainStep
                       \/ g = "ticker" /\ Tick
                       \/ KickIgnored(g) \/ KickBegins(g) \/ KickStep(g)
                       \/ StopBegins(g) \/ StopEnds(g) \/ StopHangs(g)
                       \/ Systemctl(g) \/ SystemctlFails(g))

ClientStep(k) == alive /\ HandlerStep(k) /\ UNCHANGED opVars

ReconnectStep == alive /\ Reconnect /\ UNCHANGED opVars

Next == \/ \E g \in Goroutines : GoStep(g)
        \/ alive /\ (Interrupt \/ \E g \in Requests : Request(g))
        \/ \E k \in Connections : ClientStep(k)
        \/ ReconnectStep
        \/ alive /\ (NetChange \/ Lose) /\ UNCHANGED opVars

Spec == Init /\ [][Next]_vars

\* Goroutines are scheduled, but nothing says that a Stop under the mutex comes
\* back (StopHangs is as fair as StopEnds); the broker answers and the library tries to connect
\* again.  The mutex is free again and again for ever only when requests stop coming.
Fairness == /\ \A g \in Goroutines \ {"signal"} : WF_vars(GoStep(g))
            /\ WF_vars(ReconnectStep \/ \E k \in Connections : ClientStep(k))

FairSpec == Spec /\ Fairness
-----------------------------------------------------------------------------
InKick == {"connect", "subscribe", "record"}

\* Where each goroutine can be.
MainPcs == InKick \cup {"services", "servicesUp", "daemons", "kick", "listen", "wait", "shutdown",
                        "stop", "stopping", "hung", "exit", "gone"}
TickerPcs == InKick \cup {"off", "tick", "kick", "quit", "done", "gone"}
SignalPcs == {"off", "idle", "quit", "done", "gone"}
RequestPcs == {"idle", "stop", "stopping", "hung", "systemctl", "killed", "gone"}

\* Type invariant of the operator and its client.
OperatorTypeOK ==
  /\ IotTypeOK
  /\ pc \in [Goroutines -> MainPcs \cup TickerPcs \cup SignalPcs \cup RequestPcs]
  /\ pc["main"] \in MainPcs /\ pc["ticker"] \in TickerPcs /\ pc["signal"] \in SignalPcs
  /\ \A g \in Requests : pc[g] \in RequestPcs
  /\ pm \in Goroutines \cup {Nobody}
  /\ started \in BOOLEAN /\ left \subseteq Topics /\ asked \in Topics \cup {NoTopic}
  /\ \A g \in Goroutines : pc[g] = "record" => asked \in Topics
  /\ sent \in 0 .. MaxRequests /\ isConnected \in BOOLEAN /\ alive \in BOOLEAN

\* The connection counts as started only with all the topics of the README in the
\* map that reconnections go by, although each of them may fail and the ticker
\* calls again and again (process_manager.go:51-71, 109-143).
StartedMeansAll == started => subs = Topics

\* Nobody closes the connection under a KickOffMQTTClient that is subscribing,
\* although requests and the shutdown may stop everything at any time
\* (process_manager.go:55-56, 74-80).
NoStopInKickOff == \A g \in Goroutines : pc[g] \in {"subscribe", "record"} => conn # "closed"

\* After a reconnection the broker gets back every topic that was known when the
\* connection came up, unless that goes too (iot.go:110-125, 175-181).
ReconnectRestores ==
  \A t \in Topics :
    conn = "up" /\ handler[losses] = "new" /\ t \in subs ~> t \in session \/ conn # "up"

\* A Stop of the services hangs, with the mutex of ProcessManager held.
Hung == \E g \in Goroutines : pc[g] = "hung"

\* Once a signal is received, or the ticker has failed, the operator ends: of the
\* two senders on quit, the mutex and the server none keeps it, only a Stop that
\* hangs at command.go:158 does (main.go:345-383).
EndsWhenAsked == (\E g \in Goroutines : pc[g] = "quit") ~> ~alive \/ Hung

\* A request that stops everything comes back or the operator ends, also in the
\* middle of a boot or of KickOffMQTTClient, unless its Stop or the one it waits
\* for hangs at command.go:158 (http.go:265-301, realtime.go:211-250).
RequestsComeBack == \A g \in Requests : pc[g] # "idle" ~> pc[g] = "idle" \/ ~alive \/ Hung

\* An operator that was booted without internet is connected some time after it
\* has got it for good, unless it ends or a Stop that hangs has the mutex
\* (main.go:343-358).
EventuallyConnected == <>[](online /\ alive /\ ~Hung /\ pc["main"] = "wait") => <>started

\* No operator stays with a part of its topics: it gets the others or it ends, to be
\* started again, or a Stop hangs on its way to the end (main.go:342, 350-354).
PartialFailureEnds == made /\ ~started ~> started \/ ~alive \/ Hung
=============================================================================
