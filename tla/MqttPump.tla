------------------------------ MODULE MqttPump ------------------------------
(***************************************************************************)
(* The two tasks at the MQTT client (src/src/bridge.rs): the bridge, whose *)
(* handlers publish into the request queue of the client, and              *)
(* drive_eventloop, which polls the client and queues what it hears for    *)
(* the bridge.  Both queues are bounded and both tasks wait on a full one. *)
(*                                                                         *)
(* A request is only counted: Bridge has what is published.  The client    *)
(* (rumqttc) is modelled by how the code uses it: a poll connects, takes a *)
(* request, hears a message or fails.                                      *)
(***************************************************************************)
EXTENDS Integers, Sequences, FiniteSets

CONSTANTS
  RequestQueueLen, \* MQTT_REQUEST_QUEUE_LEN
  EventQueueLen,   \* MQTT_EVENT_QUEUE_LEN
  All,             \* messages of publish_all
  Some,            \* messages after a command
  MaxOutages, MaxCommands, MaxTicks \* bounds of this model

ASSUME QueuesAssumption ==
  /\ {RequestQueueLen, EventQueueLen} \subseteq Nat \ {0}
  /\ {All, Some, MaxOutages, MaxCommands, MaxTicks} \subseteq Nat

VARIABLES
  broker,   \* it can be reached
  conn,     \* the connection of the client: "none", "up", or "lost" and not noticed
  requests, \* how many are queued
  pump,     \* drive_eventloop: at "poll", "send" with an event, or "sleep"
  mqtt_rx,  \* events queued for the bridge
  mqtt_up,  \* self.mqtt_up
  todo,     \* what the handler that runs has still to publish
  outages, commands, ticks

worldVars  == <<broker, outages>>
clientVars == <<conn, requests>>
bridgeVars == <<mqtt_up, todo, ticks>>
vars == <<worldVars, clientVars, pump, mqtt_rx, bridgeVars, commands>>

Subscriptions == 3
AtPoll   == [at |-> "poll"]
Asleep   == [at |-> "sleep"]
Send(ev) == [at |-> "send", ev |-> ev]

Init ==
  /\ broker = TRUE /\ outages = 0
  /\ conn = "none" /\ requests = 0
  /\ pump = AtPoll
  /\ mqtt_rx = <<>>
  /\ mqtt_up = FALSE /\ todo = 0
  /\ commands = 0 /\ ticks = 0

BrokerStops ==
  /\ broker /\ outages < MaxOutages
  /\ broker' = FALSE
  /\ conn' = IF conn = "up" THEN "lost" ELSE conn
  /\ outages' = outages + 1
  /\ UNCHANGED <<requests, pump, mqtt_rx, bridgeVars, commands>>

BrokerStarts ==
  /\ ~broker
  /\ broker' = TRUE
  /\ UNCHANGED <<outages, clientVars, pump, mqtt_rx, bridgeVars, commands>>

-----------------------------------------------------------------------------
(* drive_eventloop *)

Poll ==
  /\ pump = AtPoll
  /\ UNCHANGED <<worldVars, mqtt_rx, bridgeVars>>

PollConnects ==
  /\ Poll /\ conn = "none" /\ broker
  /\ conn' = "up"
  /\ pump' = Send("Connected")
  /\ UNCHANGED <<requests, commands>>

\* On the way out of a connection the client may take the requests that are
\* queued, to send them again; a connection that fails leaves them.
PollFails ==
  /\ Poll /\ (conn = "lost" \/ (conn = "none" /\ ~broker))
  /\ conn' = "none"
  /\ requests' \in IF conn = "lost" THEN {0, requests} ELSE {requests}
  /\ pump' = Send("Disconnected")
  /\ UNCHANGED commands

PollSends ==
  /\ Poll /\ conn = "up"
  /\ requests > 0
  /\ requests' = requests - 1
  /\ UNCHANGED <<conn, pump, commands>>

PollHears ==
  /\ Poll /\ conn = "up"
  /\ commands < MaxCommands
  /\ commands' = commands + 1
  /\ pump' = Send("Command")
  /\ UNCHANGED clientVars

\* Mutant: an event that finds the queue full is dropped.
PutOrDrop(ev) == mqtt_rx' = IF Len(mqtt_rx) < EventQueueLen THEN Append(mqtt_rx, ev) ELSE mqtt_rx
\* tx.send waits for room.
Put(ev) == Len(mqtt_rx) < EventQueueLen /\ mqtt_rx' = Append(mqtt_rx, ev)

Queues ==
  /\ pump.at = "send"
  /\ Put(pump.ev)
  /\ pump' = IF pump.ev = "Disconnected" THEN Asleep ELSE AtPoll
  /\ UNCHANGED <<worldVars, clientVars, bridgeVars, commands>>

Wakes ==
  /\ pump = Asleep
  /\ pump' = AtPoll
  /\ UNCHANGED <<worldVars, clientVars, mqtt_rx, bridgeVars, commands>>

-----------------------------------------------------------------------------
(* The bridge *)

\* What is published while the connection is known to be down is left out.
Publishes(n) == todo' = IF mqtt_up' THEN n ELSE 0

Handles(kind) ==
  /\ todo = 0 /\ mqtt_rx # <<>> /\ Head(mqtt_rx) = kind
  /\ mqtt_rx' = Tail(mqtt_rx)
  /\ UNCHANGED <<worldVars, clientVars, pump, commands, ticks>>

OnConnected    == Handles("Connected") /\ mqtt_up' = TRUE /\ Publishes(Subscriptions + All)
OnDisconnected == Handles("Disconnected") /\ mqtt_up' = FALSE /\ Publishes(0)
\* Mutant: everything is published after a command.
OnCommandAll   == Handles("Command") /\ UNCHANGED mqtt_up /\ Publishes(All)
OnCommand      == Handles("Command") /\ UNCHANGED mqtt_up /\ Publishes(Some)

\* The periodic refresh, and what panel events make the bridge publish.
OnTick ==
  /\ todo = 0
  /\ ticks < MaxTicks /\ ticks' = ticks + 1
  /\ UNCHANGED mqtt_up /\ Publishes(All)
  /\ UNCHANGED <<worldVars, clientVars, pump, mqtt_rx, commands>>

PublishesOne ==
  /\ todo > 0 /\ requests < RequestQueueLen
  /\ requests' = requests + 1
  /\ todo' = todo - 1
  /\ UNCHANGED <<worldVars, conn, pump, mqtt_rx, mqtt_up, ticks, commands>>

-----------------------------------------------------------------------------
Pump == PollConnects \/ PollFails \/ PollSends \/ PollHears \/ Queues \/ Wakes
Handler == OnConnected \/ OnDisconnected \/ OnCommand \/ PublishesOne

Next == BrokerStops \/ BrokerStarts \/ Pump \/ Handler \/ OnTick

Spec == Init /\ [][Next]_vars

\* Each task goes on when it can; a broker that can be reached is.
FairSpec ==
  /\ Spec
  /\ WF_vars(Pump) /\ WF_vars(PollConnects) /\ SF_vars(PollSends) /\ WF_vars(Handler)

-----------------------------------------------------------------------------
\* The pump never waits for room among the events while the bridge waits for room
\* among the requests: neither would ever go on.
NoCircularWait ==
  ~ /\ pump.at = "send" /\ Len(mqtt_rx) = EventQueueLen
    /\ todo > 0 /\ requests = RequestQueueLen

\* "MQTT error: ... - reconnecting in ..." (src/src/bridge.rs:563): when the broker
\* is back to stay, the bridge is connected to it and knows.
Reconnects == <>[]broker => <>[](conn = "up" /\ mqtt_up)

\* A handler is done some day, however often the connection was lost.
HandlersReturn == []<>(todo = 0)

-----------------------------------------------------------------------------
(* What NoCircularWait rests on.                                           *)

Kinds == {"Connected", "Disconnected", "Command"}

TypeOK ==
  /\ broker \in BOOLEAN /\ conn \in {"none", "up", "lost"}
  /\ requests \in Nat /\ todo \in Nat
  /\ pump \in {AtPoll, Asleep} \cup {Send(ev) : ev \in Kinds}
  /\ mqtt_rx \in Seq(Kinds)
  /\ mqtt_up \in BOOLEAN
  /\ outages \in 0..MaxOutages /\ commands \in 0..MaxCommands /\ ticks \in 0..MaxTicks

\* What the bridge will hear, with the event that waits for room.
Pending == IF pump.at = "send" THEN Append(mqtt_rx, pump.ev) ELSE mqtt_rx

Places(s, kind) == {i \in DOMAIN s : s[i] = kind}
Count(kind)     == Cardinality(Places(Pending, kind))

\* What the bridge publishes when it hears of a connection.
Greeting == Subscriptions + All

\* What has been published, is being published or will be for what is pending, is
\* at most what connections, commands and refreshes so far can account for.
PublishedAtMost ==
  requests + todo + Count("Connected") * Greeting + Count("Command") * Some
    <= (IF conn = "up" THEN outages + 1 ELSE outages) * Greeting
         + commands * Some + ticks * All

\* On a connection only commands are heard after its Connected.
ConnectedIsLast ==
  conn = "up" =>
    \A i \in DOMAIN Pending :
       Pending[i] = "Disconnected" =>
         \E j \in DOMAIN Pending : i < j /\ Pending[j] = "Connected"

PumpInv ==
  TypeOK /\ PublishedAtMost /\ ConnectedIsLast /\ Count("Command") <= commands

\* The request queue has room for what all connections but the last one bring with
\* them, where the commands alone cannot fill the event queue, or for all of it.
RequestsFit ==
  LET greeted == IF MaxCommands <= EventQueueLen THEN MaxOutages ELSE MaxOutages + 1
  IN  greeted * Greeting + MaxCommands * Some + MaxTicks * All <= RequestQueueLen
=============================================================================
