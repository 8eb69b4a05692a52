----------------------------- MODULE IotClient -----------------------------
(***************************************************************************)
(* iot/iot.go: the client of the broker, which remembers the topics it has *)
(* subscribed to, since the broker forgets them with every connection.     *)
(* The MQTT library makes a lost connection again by itself, and then      *)
(* calls onConnect in a goroutine of its own.                              *)
(*                                                                         *)
(* The library and the broker are modelled as the code uses them: a call   *)
(* comes back with an answer, or with an error while there is no           *)
(* connection.  Connections are numbered, since the handler of one may     *)
(* still be at work when the next one is there.                            *)
(***************************************************************************)
EXTENDS Naturals

CONSTANTS Topics,
          MaxLosses   \* bound: connections lost

ASSUME IotAssumption == Topics # {} /\ MaxLosses \in Nat

VARIABLES made,     \* c.Client is not nil
          conn,     \* the connection: "none", "up", "lost" or "closed"
          losses,   \* connections lost so far, the number of this one
          session,  \* the topics the broker has for this connection
          subs,     \* c.subscriptions, its keys
          handler,  \* handler[k]: onConnect of connection k: "none", "new" or "loop"
          todo,     \* todo[k]: the topics its loop has still to go through
          online    \* the device has an internet connection

connVars == <<made, conn, losses, session>>
handlerVars == <<handler, todo>>
iotVars == <<connVars, subs, handlerVars, online>>

Connections == 0 .. MaxLosses

IotInit == /\ made = FALSE /\ conn = "none" /\ losses = 0
           /\ session = {} /\ subs = {}
           /\ handler = [k \in Connections |-> "none"]
           /\ todo = [k \in Connections |-> {}]
           /\ online \in BOOLEAN

\* What is left when the process has ended.
IotGone == /\ made' = FALSE /\ conn' = "none" /\ losses' = 0
           /\ session' = {} /\ subs' = {}
           /\ handler' = [k \in Connections |-> "none"]
           /\ todo' = [k \in Connections |-> {}]
           /\ UNCHANGED online
-----------------------------------------------------------------------------
\* A connection is there: a session without topics (the client asks for a clean
\* one) and a goroutine for onConnect.
Connected(k) == /\ online
                /\ conn' = "up" /\ session' = {}
                /\ handler' = [handler EXCEPT ![k] = "new"]
                /\ UNCHANGED todo

\* Connect returns at once when there is a client, whatever its connection.
Connect == /\ made' = TRUE
           /\ IF made THEN UNCHANGED <<conn, session, handlerVars>> ELSE Connected(losses)
           /\ UNCHANGED <<losses, subs, online>>

\* Mutant: the map is asked first, and a known topic is an error at once.
AcknowledgeUnknown(t) == /\ conn = "up"
                         /\ session' = IF t \in subs THEN session ELSE session \cup {t}
                         /\ UNCHANGED <<made, conn, losses>>

\* Subscribe: first the broker, ...
Acknowledge(t) == /\ conn = "up"
                  /\ session' = session \cup {t}
                  /\ UNCHANGED <<made, conn, losses>>

\* ... then the map, written without the write lock: a loop of onConnect that is
\* under way may or may not come to the new topic.
Remember(t) == /\ subs' = subs \cup {t}
               /\ \E late \in SUBSET {k \in Connections : handler[k] = "loop"} :
                    todo' = [k \in Connections |-> IF k \in late THEN todo[k] \cup {t} ELSE todo[k]]
               /\ UNCHANGED <<connVars, handler, online>>

\* Disconnect: also the end of the library's attempts to connect again.
Disconnect == /\ conn' = IF made THEN "closed" ELSE conn
              /\ UNCHANGED <<made, losses, session, subs, handlerVars, online>>

\* onConnect.  That the topic is already subscribed, in the map, is an error that
\* nobody looks at, and so is the loss of the connection.
HandlerBegins(k) == /\ handler[k] = "new"
                    /\ handler' = [handler EXCEPT ![k] = "loop"]
                    /\ todo' = [todo EXCEPT ![k] = subs]
                    /\ UNCHANGED <<connVars, subs, online>>

Visit(k, t) == /\ handler[k] = "loop" /\ t \in todo[k]
               /\ todo' = [todo EXCEPT ![k] = @ \ {t}]
               /\ UNCHANGED <<subs, handler, online>>

Resubscribe(k, t) == Visit(k, t) /\ Acknowledge(t)

ResubscribeFails(k, t) == Visit(k, t) /\ conn # "up" /\ UNCHANGED connVars

HandlerEnds(k) == /\ handler[k] = "loop" /\ todo[k] = {}
                  /\ handler' = [handler EXCEPT ![k] = "none"]
                  /\ UNCHANGED <<connVars, subs, todo, online>>

HandlerStep(k) == \/ HandlerBegins(k) \/ HandlerEnds(k)
                  \/ \E t \in Topics : Resubscribe(k, t) \/ ResubscribeFails(k, t)
-----------------------------------------------------------------------------
\* The environment: the network comes and goes; SetAutoReconnect.
NetChange == online' = ~online /\ UNCHANGED <<connVars, subs, handlerVars>>

Lose == /\ conn = "up" /\ losses < MaxLosses
        /\ conn' = "lost" /\ losses' = losses + 1
        /\ UNCHANGED <<made, session, subs, handlerVars, online>>

Reconnect == /\ conn = "lost"
             /\ Connected(losses)
             /\ UNCHANGED <<made, losses, subs, online>>

\* Type invariant of the client.
IotTypeOK ==
  /\ made \in BOOLEAN /\ online \in BOOLEAN
  /\ conn \in {"none", "up", "lost", "closed"} /\ losses \in Connections
  /\ session \subseteq Topics /\ subs \subseteq Topics
  /\ handler \in [Connections -> {"none", "new", "loop"}]
  /\ todo \in [Connections -> SUBSET Topics]
=============================================================================
