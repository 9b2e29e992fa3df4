------------------------------- MODULE Bridge -------------------------------
(***************************************************************************)
(* The bridge (src/src/bridge.rs) between the panel's sessions and MQTT:   *)
(* the link and its snapshot, the initial load and the periodic refresh,   *)
(* panel events, zone commands, and what is retained at the broker.  Area  *)
(* commands are in AreaCommand, the sessions in PanelLink and the queues   *)
(* of the MQTT client in MqttPump; here they are as those show them.       *)
(*                                                                         *)
(* A handler runs until its next query or command of the panel; the answer *)
(* is a step of its own, in between panel, session and broker move on.     *)
(* Requests to the broker are applied in order, so what is pending is the  *)
(* last payload of each topic.  The event topic is not retained: left out. *)
(***************************************************************************)
EXTENDS Discovery

CONSTANTS
  Areas, Zones, \* the ids the panel may report
  ZoneArea,     \* a function: the area of each zone
  QueueLen,     \* LINK_EVENT_QUEUE_LEN
  Still,        \* areas and zones where nothing happens (model only)
  Budget,       \* how often the world does what: a record of numbers
  Cost          \* what each time takes of Budget.all

\* Areas have 8-bit ids and zones 32-bit ones; a zone is in an area of the panel.
ASSUME BridgeAssumption ==
  /\ Areas \subseteq U8 /\ Zones \subseteq U32 /\ ZoneArea \in [Zones -> Areas]
  /\ QueueLen \in Nat \ {0}

VARIABLES
  panel,     \* what the panel would answer
  session,   \* its sessions: the last, if it is alive, those not yet reported closed
  events,    \* link_rx
  link,      \* self.link; read: a refresh has been completed
  task,      \* the handler that waits for the panel
  mqtt_rx,
  mqtt_up,   \* self.mqtt_up
  discovery, \* self.discovery
  conn,      \* the client is connected
  outbox,    \* requests of the client not yet applied, by topic
  retained,  \* at the broker
  left,      \* of the budget
  alarmed,   \* areas with an alarm since the link was read (a history variable)
  unheard    \* zones whose last event the full queue dropped (a history variable)

panelVars == <<panel, session>>
mqttVars  == <<conn, outbox, retained, mqtt_rx>>
bridgeVars == <<link, task, mqtt_up, discovery>>
vars == <<panelVars, events, bridgeVars, mqttVars, left, alarmed, unheard>>

NoLink == [id |-> 0, loaded |-> FALSE, read |-> FALSE, snapshot |-> NewSnapshot]
Idle   == [at |-> "idle"]

\* Everything but the bridge's own steps is counted, by kind and in all.
Spend(what) ==
  /\ left[what] > 0 /\ left.all >= Cost[what]
  /\ left' = [left EXCEPT ![what] = @ - 1, !.all = @ - Cost[what]]

-----------------------------------------------------------------------------
(* What the panel answers: rows of its replies. *)

AreaRows == {[ID |-> a, NAME |-> "", MODE |-> panel.modes[a]] : a \in Areas}

ZoneRow(z) ==
  [ID |-> z, ZONE_NAME |-> "", AREA |-> ZoneArea[z], TYPE |-> "0",
   INPUT |-> panel.zones[z].input, STATUS |-> panel.zones[z].status,
   ALLOWED |-> IF panel.zones[z].status = "0" THEN ZoneControls ELSE {}]

NoRow == [ID |-> -1]
Leaf(tag, attributes) == ParseReply({[tag |-> tag, attributes |-> attributes, children |-> {}]})
List(tag, children)   == ParseReply({[tag |-> tag, attributes |-> NoRow, children |-> children]})

InfoReply   == Leaf("INFO", [SN |-> "1"])
AreasReply  == List("AREA_STATUS", AreaRows)
ZonesReply  == List("ZONE_STATUS", {ZoneRow(z) : z \in DOMAIN panel.zones})
StatusReply == Leaf("SYSALERT", panel.alerts)

NewPanel ==
  [modes  |-> [a \in Areas |-> "3"],
   zones  |-> [z \in Zones |-> [input |-> "0", status |-> "0"]],
   alerts |-> NoAlerts]

-----------------------------------------------------------------------------
(* Publication. *)

NoMessages == NoEntries

Status(l) == One(StatusTopic, IF l.loaded THEN "online" ELSE "offline")

\* Deletes the configs that are gone and publishes those that differ.
Changes(disc, desired) ==
  [t \in {t \in DOMAIN disc : t \notin DOMAIN desired} |-> Empty]
  @@ [t \in {t \in DOMAIN desired : t \in DOMAIN disc => disc[t] # desired[t]} |-> desired[t]]

\* Mutant: what was published stays on record.
ForgetNothing(disc) == disc
\* A new connection, or a Home Assistant that starts, needs all configs again.
Forget(disc) == NoMessages

Publish(up, messages) == outbox' = IF up THEN messages @@ outbox ELSE outbox

\* publish_discovery, then `messages'.
Announce(l, up, disc, messages) ==
  LET desired == IF l.loaded THEN DiscoveryMessages(l.snapshot) ELSE disc
  IN  /\ discovery' = IF up THEN desired ELSE disc
      /\ Publish(up, messages @@ Changes(disc, desired))

SnapshotMessages(snap) ==
  AreaMessages(snap, DOMAIN snap.areas) @@ CommonMessage(snap)
  @@ ZoneMessages(snap, DOMAIN snap.zones) @@ AlertMessages(snap)

\* Mutant: the state is left to events.
PublishAllConfigs(l, up, disc) == Announce(l, up, disc, Status(l))
PublishAll(l, up, disc) ==
  Announce(l, up, disc,
    Status(l) @@ IF l.loaded THEN SnapshotMessages(l.snapshot) ELSE NoMessages)

-----------------------------------------------------------------------------
Init ==
  /\ panel = NewPanel
  /\ session = [last |-> 0, alive |-> FALSE, closing |-> {}]
  /\ events = <<>>
  /\ link = NoLink
  /\ task = Idle
  /\ mqtt_rx = <<>>
  /\ mqtt_up = FALSE
  /\ discovery = NoMessages
  /\ conn = FALSE
  /\ outbox = NoMessages
  /\ retained = NoMessages
  /\ left = Budget
  /\ alarmed = {}
  /\ unheard = {}

(* The panel. *)

Room == QueueLen - Len(events)

\* try_send: events that the queue has no room for are dropped.
Taken(evs) == IF Len(evs) <= Room THEN evs ELSE SubSeq(evs, 1, Room)

Emit(evs) ==
  events' = IF session.alive
            THEN events \o [i \in DOMAIN Taken(evs) |->
                              [kind |-> "Sia", id |-> session.last, ev |-> evs[i]]]
            ELSE events

\* Whether the bridge is told how the zone is now.
Tell(z) == unheard' = IF session.alive /\ Room = 0 THEN unheard \cup {z} ELSE unheard \ {z}

Event(code, address) == [code |-> code, address |-> address]

IsSet(a) == panel.modes[a] # "0"

\* The bridge can only know of an alarm from its event.
Seen == session.alive /\ link.read /\ link.id = session.last

PanelOpens(z) ==
  /\ panel.zones[z].input = "0"
  /\ Spend("panel")
  /\ panel' = [panel EXCEPT !.zones[z].input = "1"]
  /\ Emit(IF IsSet(ZoneArea[z]) THEN <<Event("ZO", z), Event("BA", z)>> ELSE <<Event("ZO", z)>>)
  /\ Tell(z)
  /\ alarmed' = IF Seen /\ IsSet(ZoneArea[z]) /\ Room > 1
                THEN alarmed \cup {ZoneArea[z]} ELSE alarmed
  /\ UNCHANGED <<session, bridgeVars, mqttVars>>

PanelCloses(z) ==
  /\ panel.zones[z].input = "1"
  /\ Spend("panel")
  /\ panel' = [panel EXCEPT !.zones[z].input = "0"]
  /\ Emit(<<Event("ZC", z)>>)
  /\ Tell(z)
  /\ UNCHANGED <<session, bridgeVars, mqttVars, alarmed>>

\* Set or unset at a keypad.
PanelArms(a) ==
  /\ Spend("panel")
  /\ panel' = [panel EXCEPT !.modes[a] = IF IsSet(a) THEN "0" ELSE "3"]
  /\ Emit(<<Event(IF IsSet(a) THEN "OG" ELSE "CG", 0)>>)
  /\ alarmed' = alarmed \ {a}
  /\ UNCHANGED <<session, bridgeVars, mqttVars, unheard>>

PanelAlert(b) ==
  /\ Spend("panel")
  /\ b \notin panel.alerts.input
  /\ panel' = [panel EXCEPT !.alerts.input = @ \cup {b}]
  /\ Emit(<<Event("AT", 0)>>)
  /\ UNCHANGED <<session, bridgeVars, mqttVars, alarmed, unheard>>

\* An engineer takes a zone out, which ends the session.
PanelLosesZone(z) ==
  /\ ~session.alive
  /\ Spend("panel")
  /\ panel' = [panel EXCEPT !.zones = [y \in DOMAIN @ \ {z} |-> @[y]]]
  /\ UNCHANGED <<session, events, bridgeVars, mqttVars, alarmed, unheard>>

\* Ready waits for room, and so does Closed.
SessionStarts ==
  /\ ~session.alive
  /\ Room > 0
  /\ Spend("session")
  /\ session' = [session EXCEPT !.last = @ + 1, !.alive = TRUE]
  /\ events' = Append(events, [kind |-> "Ready", id |-> session'.last])
  /\ UNCHANGED <<panel, bridgeVars, mqttVars, alarmed, unheard>>

SessionEnds ==
  /\ session.alive
  /\ Spend("session")
  /\ session' = [session EXCEPT !.alive = FALSE, !.closing = @ \cup {session.last}]
  /\ alarmed' = {} /\ unheard' = {}
  /\ UNCHANGED <<panel, events, bridgeVars, mqttVars>>

\* A new connection may have sent its Ready before.
SessionReportsClosed(s) ==
  /\ s \in session.closing
  /\ Room > 0
  /\ session' = [session EXCEPT !.closing = @ \ {s}]
  /\ events' = Append(events, [kind |-> "Closed", id |-> s])
  /\ UNCHANGED <<panel, bridgeVars, mqttVars, left, alarmed, unheard>>

-----------------------------------------------------------------------------
(* The broker and Home Assistant. *)

BrokerAccepts ==
  /\ ~conn
  /\ conn' = TRUE
  /\ mqtt_rx' = Append(mqtt_rx, [kind |-> "Connected"])
  /\ UNCHANGED <<panelVars, events, bridgeVars, outbox, retained, left, alarmed, unheard>>

\* The last will of the client is published, or the broker starts anew with
\* nothing; requests on their way are sent again or lost.
BrokerLost ==
  /\ conn
  /\ Spend("broker")
  /\ conn' = FALSE
  /\ mqtt_rx' = Append(mqtt_rx, [kind |-> "Disconnected"])
  /\ retained' \in {One(StatusTopic, "offline") @@ retained, NoMessages}
  /\ outbox' \in {outbox, NoMessages}
  /\ UNCHANGED <<panelVars, events, bridgeVars, alarmed, unheard>>

Deliver ==
  /\ conn
  /\ outbox # NoMessages
  /\ LET after == outbox @@ retained
     IN  retained' = [t \in DOMAIN after \ Deletes(after) |-> after[t]]
  /\ outbox' = NoMessages
  /\ UNCHANGED <<panelVars, events, bridgeVars, conn, mqtt_rx, left, alarmed, unheard>>

HomeAssistantStarts ==
  /\ conn
  /\ Spend("birth")
  /\ mqtt_rx' = Append(mqtt_rx, [kind |-> "HomeAssistantOnline"])
  /\ UNCHANGED <<panelVars, events, bridgeVars, conn, outbox, retained, alarmed, unheard>>

\* Someone uses a switch; drive_eventloop finds the zone in its command topic.
SwitchUsed(t, payload) ==
  /\ conn
  /\ t \in DOMAIN retained /\ IsSwitch(t)
  /\ Spend("command")
  /\ \E target \in ZoneTargets(retained[t].command) :
       mqtt_rx' = Append(mqtt_rx, [kind |-> "ZoneCommand", zone |-> target[1],
                                   control |-> target[2], payload |-> payload])
  /\ UNCHANGED <<panelVars, events, bridgeVars, conn, outbox, retained, alarmed, unheard>>

-----------------------------------------------------------------------------
(* The bridge: link events. *)

StartRefresh(l) == task' = [at |-> IF l.loaded THEN "areas" ELSE "info"]

OnReady ==
  /\ task = Idle /\ events # <<>> /\ Head(events).kind = "Ready"
  /\ events' = Tail(events)
  /\ link' = [NoLink EXCEPT !.id = Head(events).id]
  /\ StartRefresh(link')
  /\ UNCHANGED <<panelVars, mqtt_up, discovery, mqttVars, left, alarmed, unheard>>

\* Mutant: the entities are left available.
DropLinkQuietly(l) == link' = NoLink /\ UNCHANGED outbox
\* Mutant: the session is kept, without what was loaded.
DropLoaded(l) == link' = [l EXCEPT !.loaded = FALSE] /\ Publish(mqtt_up, Status(NoLink))
DropLink(l) == link' = NoLink /\ Publish(mqtt_up, Status(NoLink))

OnClosed ==
  /\ task = Idle /\ events # <<>> /\ Head(events).kind = "Closed"
  /\ events' = Tail(events)
  /\ IF link.id = Head(events).id THEN DropLink(link) ELSE UNCHANGED <<link, outbox>>
  /\ UNCHANGED <<panelVars, task, mqtt_up, discovery, conn, retained, mqtt_rx, left, alarmed,
                 unheard>>

\* The end of on_sia: what the event changed, with `areas' re-read or not.
FinishSia(l, effect, areas) ==
  /\ link' = l
  /\ task' = Idle
  /\ Announce(l, mqtt_up, discovery,
       ZoneMessages(l.snapshot, effect.zones) @@ AreaMessages(l.snapshot, areas)
       @@ CommonMessage(l.snapshot)
       @@ (IF effect.refresh_alerts THEN AlertMessages(l.snapshot) ELSE NoMessages))

OnSia ==
  /\ task = Idle /\ events # <<>> /\ Head(events).kind = "Sia"
  /\ events' = Tail(events)
  /\ LET ev     == Head(events).ev
         effect == EventEffect(link.snapshot, ev)
         l      == [link EXCEPT !.snapshot = ApplyEvent(@, ev)]
     IN  IF link.id # Head(events).id \/ ~link.loaded THEN UNCHANGED <<link, task, discovery, outbox>>
         ELSE IF effect.refresh_alerts
         THEN /\ link' = l
              /\ task' = [at |-> "sia_status", effect |-> effect]
              /\ UNCHANGED <<discovery, outbox>>
         ELSE FinishSia(l, effect, effect.areas)
  /\ UNCHANGED <<panelVars, mqtt_up, conn, retained, mqtt_rx, left, alarmed, unheard>>

-----------------------------------------------------------------------------
(* Queries.  A session that ended fails them; one that is alive may. *)

Answers == session.alive /\ link.id = session.last
Fails   == IF Answers THEN Spend("failures") ELSE UNCHANGED left

AfterQuery(at) ==
  /\ task.at = at
  /\ UNCHANGED <<panelVars, events, mqtt_up, conn, retained, mqtt_rx, alarmed, unheard>>

RefreshTick ==
  /\ task = Idle /\ link # NoLink
  /\ StartRefresh(link)
  /\ UNCHANGED <<panelVars, events, link, mqtt_up, discovery, mqttVars, left, alarmed, unheard>>

InfoRead ==
  /\ AfterQuery("info")
  /\ Answers /\ PanelInfo(InfoReply) # {}
  /\ link' = [link EXCEPT !.loaded = TRUE]
  /\ task' = [at |-> "areas"]
  /\ UNCHANGED <<discovery, outbox, left>>

AreasRead ==
  /\ AfterQuery("areas")
  /\ Answers
  /\ task' = [at |-> "zones", areas |-> AreasReply]
  /\ UNCHANGED <<link, discovery, outbox, left>>

ZonesRead ==
  /\ AfterQuery("zones")
  /\ Answers
  /\ task' = [at |-> "status", areas |-> task.areas, zones |-> ZonesReply]
  /\ UNCHANGED <<link, discovery, outbox, left>>

StatusRead ==
  /\ AfterQuery("status")
  /\ Answers
  /\ link' = [link EXCEPT !.read = TRUE, !.snapshot =
               ApplyStatus(ApplyZones(ApplyAreas(@, task.areas), task.zones), StatusReply)]
  /\ task' = Idle
  /\ PublishAll(link', mqtt_up, discovery)
  /\ UNCHANGED left

\* A reply without all masks comes after areas and zones have been applied.
BadStatusRead ==
  /\ AfterQuery("status")
  /\ Answers /\ Spend("failures")
  /\ link' = [link EXCEPT !.snapshot = ApplyZones(ApplyAreas(@, task.areas), task.zones)]
  /\ task' = Idle
  /\ UNCHANGED <<discovery, outbox>>

RefreshFails ==
  /\ \E at \in {"info", "areas", "zones", "status"} : AfterQuery(at)
  /\ Fails
  /\ task' = Idle
  /\ UNCHANGED <<link, discovery, outbox>>

\* The rest of on_sia behind its status query.
SiaAreas(l) ==
  IF task.effect.refresh_areas
  THEN link' = l /\ task' = [at |-> "sia_areas", effect |-> task.effect] /\ UNCHANGED <<discovery, outbox>>
  ELSE FinishSia(l, task.effect, task.effect.areas)

SiaStatusRead ==
  /\ AfterQuery("sia_status")
  /\ \/ Answers /\ SiaAreas([link EXCEPT !.snapshot = ApplyStatus(@, StatusReply)]) /\ UNCHANGED left
     \/ Fails /\ SiaAreas(link)

SiaAreasRead ==
  /\ AfterQuery("sia_areas")
  /\ \/ /\ Answers
        /\ LET l == [link EXCEPT !.snapshot = ApplyAreas(@, AreasReply)]
           IN  FinishSia(l, task.effect, DOMAIN l.snapshot.areas)
        /\ UNCHANGED left
     \/ Fails /\ FinishSia(link, task.effect, task.effect.areas)

-----------------------------------------------------------------------------
(* The bridge: MQTT events. *)

OnMqtt(kind) ==
  /\ task = Idle /\ mqtt_rx # <<>> /\ Head(mqtt_rx).kind = kind
  /\ mqtt_rx' = Tail(mqtt_rx)
  /\ UNCHANGED <<panelVars, events, link, conn, retained, left, alarmed, unheard>>

OnConnected ==
  /\ OnMqtt("Connected")
  /\ mqtt_up' = TRUE
  /\ PublishAll(link, TRUE, Forget(discovery))
  /\ UNCHANGED task

OnDisconnected ==
  /\ OnMqtt("Disconnected")
  /\ mqtt_up' = FALSE
  /\ UNCHANGED <<task, discovery, outbox>>

OnHomeAssistantOnline ==
  /\ OnMqtt("HomeAssistantOnline")
  /\ PublishAll(link, mqtt_up, Forget(discovery))
  /\ UNCHANGED <<task, mqtt_up>>

OnZoneCommand ==
  /\ OnMqtt("ZoneCommand")
  /\ LET c   == Head(mqtt_rx)
         ops == ZoneOps(c.control, c.payload)
     IN  task' = IF ops = {} \/ link = NoLink THEN Idle
                 ELSE [at |-> "command", zone |-> c.zone, op |-> CHOOSE op \in ops : TRUE]
  /\ UNCHANGED <<mqtt_up, discovery, outbox>>

\* The panel's status of a zone after a command it obeys.
StatusAfter(op) ==
  IF ~op.on THEN "0" ELSE IF op.control = "inhibit" THEN "1" ELSE "2"

\* The panel obeys or not, and whether it answers is another matter.  The link
\* stays as it is: `command' only reports.
CommandReturns ==
  /\ task.at = "command"
  /\ \/ /\ Answers
        /\ task.zone \in DOMAIN panel.zones
        /\ panel' = [panel EXCEPT !.zones[task.zone].status = StatusAfter(task.op)]
        /\ UNCHANGED left
     \/ Fails /\ UNCHANGED panel
  /\ task' = IF link.loaded THEN [at |-> "reread", zone |-> task.zone] ELSE Idle
  /\ UNCHANGED <<session, events, link, mqtt_up, discovery, mqttVars, alarmed, unheard>>

\* Whatever became of the command, the zone is published as re-read.
ZonesReread ==
  /\ AfterQuery("reread")
  /\ \/ Answers /\ link' = [link EXCEPT !.snapshot = ApplyZones(@, ZonesReply)] /\ UNCHANGED left
     \/ Fails /\ UNCHANGED link
  /\ Publish(mqtt_up, ZoneMessages(link'.snapshot, {task.zone}))
  /\ task' = Idle
  /\ UNCHANGED discovery

-----------------------------------------------------------------------------
Bridge ==
  \/ OnReady \/ OnClosed \/ OnSia
  \/ InfoRead \/ AreasRead \/ ZonesRead \/ StatusRead \/ BadStatusRead \/ RefreshFails
  \/ SiaStatusRead \/ SiaAreasRead
  \/ OnConnected \/ OnDisconnected \/ OnHomeAssistantOnline \/ OnZoneCommand
  \/ CommandReturns \/ ZonesReread

World ==
  \/ \E z \in DOMAIN panel.zones \ Still : PanelOpens(z) \/ PanelCloses(z) \/ PanelLosesZone(z)
  \/ \E a \in Areas \ Still : PanelArms(a)
  \/ \E b \in Alerts : PanelAlert(b)
  \/ SessionStarts \/ SessionEnds
  \/ BrokerLost \/ HomeAssistantStarts
  \/ \E t \in DOMAIN retained, payload \in {"ON", "OFF"} : SwitchUsed(t, payload)

Reports == \E s \in session.closing : SessionReportsClosed(s)

Next == Bridge \/ RefreshTick \/ World \/ Reports \/ BrokerAccepts \/ Deliver

Spec == Init /\ [][Next]_vars

\* A step of OnReady, OnClosed or OnSia, and one of the handlers of mqtt_rx.
HandlesLinkEvent == task = Idle /\ events # <<>> /\ events' = Tail(events)
HandlesMqttEvent == task = Idle /\ mqtt_rx # <<>> /\ mqtt_rx' = Tail(mqtt_rx)

\* Every call of the panel returns (CommandChannel's CallsReturn), requests are
\* delivered and connections come back; select! picks at random among the ready
\* branches, so none starves another.
Fairness ==
  /\ []<>(task = Idle)
  /\ SF_events(HandlesLinkEvent) /\ SF_mqtt_rx(HandlesMqttEvent)
  /\ WF_vars(RefreshTick) /\ WF_vars(Reports) /\ WF_vars(BrokerAccepts) /\ WF_vars(Deliver)

FairSpec == Spec /\ Fairness

-----------------------------------------------------------------------------
SiaEvents == [code : {"ZO", "ZC", "BA", "OG", "CG", "AT"}, address : Nat]
LinkEvent ==
  [kind : {"Ready", "Closed"}, id : Nat] \cup [kind : {"Sia"}, id : Nat, ev : SiaEvents]
MqttEvent ==
  [kind : {"Connected", "Disconnected", "HomeAssistantOnline"}]
  \cup [kind : {"ZoneCommand"}, zone : U8, control : ZoneControls, payload : {"ON", "OFF"}]

SnapshotOK(snap) ==
  /\ DOMAIN snap = DOMAIN NewSnapshot
  /\ DOMAIN snap.areas \subseteq Areas /\ DOMAIN snap.zones \subseteq Zones
  /\ \A a \in DOMAIN snap.areas :
       /\ DOMAIN snap.areas[a] = {"name", "mode", "triggered"}
       /\ snap.areas[a].triggered \in BOOLEAN
  /\ \A z \in DOMAIN snap.zones :
       /\ DOMAIN snap.zones[z] = {"name", "area", "type", "input", "status", "allowed"}
       /\ snap.zones[z].allowed \subseteq ZoneControls

PanelOK ==
  /\ DOMAIN panel = DOMAIN NewPanel
  /\ DOMAIN panel.modes = Areas /\ DOMAIN panel.zones \subseteq Zones
  /\ \A z \in DOMAIN panel.zones : DOMAIN panel.zones[z] = {"input", "status"}

TypeOK ==
  /\ PanelOK
  /\ session \in [last : Nat, alive : BOOLEAN, closing : SUBSET Nat]
  /\ session.closing \subseteq 1..session.last
  /\ events \in Seq(LinkEvent) /\ \A i \in DOMAIN events : events[i].id \in 1..session.last
  /\ DOMAIN link = DOMAIN NoLink
  /\ link.id \in 0..session.last /\ link.loaded \in BOOLEAN /\ link.read \in BOOLEAN
  /\ SnapshotOK(link.snapshot)
  /\ task.at \in {"idle", "info", "areas", "zones", "status", "sia_status", "sia_areas",
                  "command", "reread"}
  /\ mqtt_rx \in Seq(MqttEvent)
  /\ mqtt_up \in BOOLEAN /\ conn \in BOOLEAN
  /\ Len(events) <= QueueLen
  /\ alarmed \subseteq Areas /\ unheard \subseteq Zones

\* Nothing is under way.
Settled ==
  /\ task = Idle /\ events = <<>> /\ session.closing = {}
  /\ conn /\ mqtt_rx = <<>> /\ outbox = NoMessages

IsRetained(messages) ==
  /\ Deletes(messages) \cap DOMAIN retained = {}
  /\ \A t \in DOMAIN messages \ Deletes(messages) :
       t \in DOMAIN retained /\ retained[t] = messages[t]

\* publish_discovery skips a config that is on record as published.  Whatever
\* the broker lost meanwhile, what is on record is what the broker retains.
SkippedConfigsAreRetained == Settled => mqtt_up /\ IsRetained(discovery)

\* The status topic makes all entities available: never without a session, and
\* always with one that has been read, last will or not.
StatusIsHonest ==
  Settled => /\ StatusTopic \in DOMAIN retained
             /\ retained[StatusTopic] = "online" => link # NoLink
             /\ link.read => retained[StatusTopic] = "online"

\* Events are applied to a snapshot that may have been read before or after
\* them: when all are handled, zones are open exactly as the panel has them,
\* unless the last event of the zone was one that the full queue dropped.
ZonesFollowThePanel ==
  task = Idle /\ events = <<>> /\ Seen =>
    \A z \in DOMAIN link.snapshot.zones \ unheard :
       link.snapshot.zones[z].input = ZoneInput(panel.zones[z].input)

\* An alarm is known from its event alone.  If that was queued it is shown, and neither a re-read
\* nor a broker that lost its messages takes it back until the area is unset.
AlarmIsShown ==
  Settled /\ Seen => \A a \in alarmed : IsRetained(One(AlarmTopic(a), "ON"))

\* The command topic in a config is one the bridge finds the entity by, and every
\* option it offers is a command of its own there (parse_area_command,
\* parse_zone_command, zone_op, ModeNames::mode).  The switches of a zone with an id
\* beyond 255 are the exception: theirs is nobody's, never that of another zone.
CommandsReachTheirEntity ==
  \A t \in DOMAIN discovery \ Deletes(discovery) :
     "command" \in DOMAIN discovery[t] =>
       LET config == discovery[t]
           meaning == [o \in config.options |-> IF IsSwitch(t) THEN ZoneOps(t[5], o) ELSE ModesOf(o)]
       IN  /\ IF IsSwitch(t)
              THEN ZoneTargets(config.command) = {<<t[4], t[5]>>} \cap (U8 \X ZoneControls)
              ELSE AreaTargets(config.command) = {config.state[2]}
           /\ \A o \in config.options : meaning[o] # {}
           /\ \A o, p \in config.options : o # p => meaning[o] \cap meaning[p] = {}

\* While a zone is bypassed the panel allows neither control; the switches stay,
\* or the bypass could not be taken back.  (What was published for an earlier
\* session is left when a new connection publishes all configs again.)
SwitchesStay ==
  [][mqtt_up /\ link.read /\ link'.id = link.id =>
       \A t \in DOMAIN discovery \ DOMAIN discovery' :
          IsSwitch(t) => t[4] \notin DOMAIN link'.snapshot.zones]_vars

-----------------------------------------------------------------------------
(* What the safety properties rest on. *)

\* Ready of a session is queued once, before that of the next; Closed when it
\* has ended.
EventsInOrder ==
  /\ session.alive => session.last >= 1 /\ session.last \notin session.closing
  /\ \A i \in DOMAIN events :
       /\ events[i].kind = "Closed" /\ session.alive => events[i].id # session.last
       /\ events[i].kind = "Ready" =>
            /\ link.id < events[i].id
            /\ \A j \in 1..(i - 1) : events[j].kind = "Ready" => events[j].id < events[i].id

\* What is read comes behind the panel information.
LoadedFirst ==
  /\ link.read => link.loaded
  /\ link.loaded => link.id >= 1
  /\ ~link.loaded => link.snapshot = NewSnapshot
  /\ task.at \in {"areas", "zones", "status", "sia_status", "sia_areas", "reread"} => link.loaded

AreaIds(reply) == Ids(Rows(reply, "AREA_STATUS"), U8)
ZoneIds(reply) == Ids(Rows(reply, "ZONE_STATUS"), U32)
RowOfArea(reply, a) == RowOf(Rows(reply, "AREA_STATUS"), a)
RowOfZone(reply, z) == RowOf(Rows(reply, "ZONE_STATUS"), z)

\* The link and the replies it waits with have the panel's areas and zones.
KnowsThePanel ==
  Answers =>
    /\ DOMAIN link.snapshot.zones \subseteq DOMAIN panel.zones
    /\ \A z \in DOMAIN link.snapshot.zones : link.snapshot.zones[z].area = ZoneArea[z]
    /\ link.read => /\ DOMAIN link.snapshot.areas = Areas
                    /\ DOMAIN link.snapshot.zones = DOMAIN panel.zones
    /\ task.at \in {"zones", "status"} => AreaIds(task.areas) = Areas
    /\ task.at = "status" =>
         /\ ZoneIds(task.zones) = DOMAIN panel.zones
         /\ \A z \in ZoneIds(task.zones) : RowOfZone(task.zones, z).AREA = ZoneArea[z]

Moves(e, z) ==
  /\ e.kind = "Sia" /\ e.id = session.last
  /\ e.ev.code \in ZONE_ALARM_CODES \cup {"ZO", "ZC"} /\ e.ev.address = z
Moving(z) == \E i \in DOMAIN events : Moves(events[i], z)

\* The last event on its way that moves a zone tells how the panel has it; where
\* none is, the snapshot does, and the reply that is to be applied.
ZonesAreTold ==
  /\ session.alive =>
       \A z \in DOMAIN panel.zones \ unheard, i \in DOMAIN events :
          Moves(events[i], z) /\ (\A j \in (i + 1)..Len(events) : ~Moves(events[j], z))
            => EventInput(events[i].ev) = ZoneInput(panel.zones[z].input)
  /\ Answers =>
       \A z \in DOMAIN panel.zones \ unheard :
          \/ Moving(z)
          \/ /\ z \in DOMAIN link.snapshot.zones =>
                  link.snapshot.zones[z].input = ZoneInput(panel.zones[z].input)
             /\ task.at = "status" /\ z \in ZoneIds(task.zones) =>
                  ZoneInput(RowOfZone(task.zones, z).INPUT) = ZoneInput(panel.zones[z].input)

\* An alarm of the area on its way.
Rings(e, a) ==
  /\ e.kind = "Sia" /\ e.id = session.last /\ e.ev.code = "BA"
  /\ e.ev.address \in DOMAIN panel.zones /\ ZoneArea[e.ev.address] = a
Ringing(a) == \E i \in DOMAIN events : Rings(events[i], a)

\* An alarm is on its way or in the snapshot, where no reply undoes it.
AlarmsAreKept ==
  /\ alarmed # {} => Seen
  /\ \A a \in alarmed :
       /\ IsSet(a)
       /\ \/ Ringing(a)
          \/ /\ WasTriggered(link.snapshot.areas, a)
             /\ task.at \in {"zones", "status"} =>
                  ArmMode(RowOfArea(task.areas, a).MODE) # "Unset"

Turns(m) == m.kind \in {"Connected", "Disconnected"}

\* The last turn of the connection that the bridge has yet to hear of is how it
\* is; where there is none, mqtt_up is.
ConnectionIsKnown ==
  /\ (\A i \in DOMAIN mqtt_rx : ~Turns(mqtt_rx[i])) => mqtt_up = conn
  /\ \A i \in DOMAIN mqtt_rx :
       Turns(mqtt_rx[i]) /\ (\A j \in (i + 1)..Len(mqtt_rx) : ~Turns(mqtt_rx[j]))
         => (mqtt_rx[i].kind = "Connected") = conn

\* The bridge knows that it is connected: what is pending will be retained.
Current  == conn /\ \A i \in DOMAIN mqtt_rx : ~Turns(mqtt_rx[i])
Upcoming == outbox @@ retained

ConfigsAreOnRecord ==
  /\ \A t \in DOMAIN discovery :
       /\ t[1] = "config"
       /\ IsSwitch(t) => /\ t = SwitchConfig(t[4], t[5])
                         /\ t[4] \in Zones /\ t[5] \in ZoneControls
  /\ Current =>
       \A t \in DOMAIN discovery :
          IF discovery[t] = Empty
          THEN IF t \in DOMAIN outbox THEN outbox[t] = Empty ELSE t \notin DOMAIN retained
          ELSE t \in DOMAIN Upcoming /\ Upcoming[t] = discovery[t]

StatusIsOnRecord ==
  Current =>
    /\ StatusTopic \in DOMAIN Upcoming
    /\ Upcoming[StatusTopic] = "online" => link.id >= 1
    /\ link.read => Upcoming[StatusTopic] = "online"

\* An alarm is on its way, about to be published or at the broker.
AlarmsAreOnRecord ==
  Current =>
    \A a \in alarmed :
       \/ Ringing(a)
       \/ task.at \in {"sia_status", "sia_areas"} /\ a \in task.effect.areas
       \/ AlarmTopic(a) \in DOMAIN Upcoming /\ Upcoming[AlarmTopic(a)] = "ON"

\* A switch that has been published is of a control the snapshot has.
SwitchesAreOffered ==
  mqtt_up /\ link.read =>
    \A t \in DOMAIN discovery :
       IsSwitch(t) /\ t[4] \in DOMAIN link.snapshot.zones =>
         t[5] \in link.snapshot.zones[t[4]].allowed

\* The configs with a command topic are those of switches and of mode selects.
CommandsAreFormed ==
  \A t \in DOMAIN discovery :
     LET config == discovery[t]
     IN  "command" \in DOMAIN config =>
           /\ config.command = SetTopic(config.state)
           /\ IF IsSwitch(t)
              THEN config.state = SwitchTopic(t[4], t[5]) /\ config.options = {"ON", "OFF"}
              ELSE /\ \E a \in Areas \cup {AllAreas} : config.state = ModeTopic(a)
                   /\ config.options = {Labels[m] : m \in Modes}

BridgeInv ==
  /\ TypeOK /\ EventsInOrder /\ LoadedFirst /\ KnowsThePanel /\ ZonesAreTold /\ AlarmsAreKept
  /\ ConnectionIsKnown /\ ConfigsAreOnRecord /\ StatusIsOnRecord /\ AlarmsAreOnRecord
  /\ SwitchesAreOffered /\ CommandsAreFormed

-----------------------------------------------------------------------------
\* The snapshot is what the panel would answer, and all that is retained of it.
UpToDate ==
  /\ link.id = session.last
  /\ link.snapshot = ApplyStatus(ApplyZones(ApplyAreas(link.snapshot, AreasReply), ZonesReply),
                                 StatusReply)
  /\ IsRetained(DiscoveryMessages(link.snapshot) @@ SnapshotMessages(link.snapshot))

\* Whatever failed, was lost or came out of order: once session and connection
\* last, the periodic refresh makes all topics say how things are.
TopicsConverge == <>[](session.alive /\ conn => UpToDate)

\* Configs are deleted of "entities that disappeared from the panel"
\* (src/src/bridge.rs:415), and of those only.
DeletesOnlyVanished ==
  [][\A t \in DOMAIN discovery \ DOMAIN discovery' :
       mqtt_up /\ t[3] = "zone" /\ discovery[t] # Empty => t[4] \notin DOMAIN panel.zones]_vars
=============================================================================
