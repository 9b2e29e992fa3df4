----------------------------- MODULE Discovery -----------------------------
(***************************************************************************)
(* Home Assistant discovery (src/src/mqtt/discovery.rs), the MQTT topics   *)
(* of the bridge and the commands read from them (src/src/bridge.rs), and  *)
(* the names of the arm modes (src/src/config.rs), as operators.           *)
(*                                                                         *)
(* A topic is the tuple of its segments behind the prefix, and the segment *)
(* "all" of an area is AllAreas.  A discovery config is a record of what   *)
(* its payload says of this entity; prefixes, unique ids, icons and the    *)
(* device are the same for all of them and left out.                       *)
(***************************************************************************)
EXTENDS Snapshot, Sequences

CONSTANTS
  Alerts,      \* SYSTEM_ALERTS: bits of the masks that have a name
  ZoneClasses, \* configured classes of some zones: a function of their ids
  Labels       \* ModeNames: the label of each arm mode

Modes    == {"Unset", "PartSetA", "PartSetB", "FullSet"}
AllAreas == -1
Unmapped == -1

\* ModeNames::from_args refuses anything else.
ASSUME LabelsAssumption ==
  /\ DOMAIN Labels = Modes
  /\ \A m \in Modes : Labels[m] # ""
  /\ \A m, n \in Modes : Labels[m] = Labels[n] => m = n

Label(mode)     == IF mode \in Modes THEN Labels[mode] ELSE "None"
ModesOf(label)  == {m \in Modes : Labels[m] = label}
OnOff(on)       == IF on THEN "ON" ELSE "OFF"

-----------------------------------------------------------------------------
StatusTopic           == <<"status">>
ModeTopic(a)          == <<"area", a, "mode">>
AlarmTopic(a)         == <<"area", a, "alarm">>
ZoneTopic(z)          == <<"zone", z, "state">>
AttributesTopic(z)    == <<"zone", z, "attributes">>
SwitchTopic(z, c)     == <<"zone", z, c>>
AlertTopic(b)         == <<"system", b>>
EventTopic            == <<"event">>

ZoneConfig(z)      == <<"config", "binary_sensor", "zone", z>>
SwitchConfig(z, c) == <<"config", "switch", "zone", z, c>>
AlarmConfig(a)     == <<"config", "binary_sensor", "area_alarm", a>>
ModeConfig(a)      == <<"config", "select", "area_mode", a>>
AllAreasConfig     == <<"config", "select", "all_areas_mode">>
AlertConfig(b)     == <<"config", "binary_sensor", "alert", b>>
EventConfig        == <<"config", "sensor", "last_event">>

IsSwitch(topic) == Len(topic) = 5 /\ topic[2] = "switch"

\* Entities of earlier versions; the topic of all areas is that of area 0.
LegacyArea(a) == {<<"config", "select", "area", a>>,
                  <<"config", "alarm_control_panel", "area", a>>}
LegacyAllAreas == <<"config", "select", "area", 0>>
LegacyZone(z) == {<<"config", "button", "zone", z, c>> : c \in ZoneControls}

\* An empty payload deletes a retained message.
Empty == [empty |-> TRUE]
Deletes(messages) == {t \in DOMAIN messages : t[1] = "config" /\ messages[t] = Empty}

SetTopic(topic) == Append(topic, "set")

Named(name, id) == IF name # "" THEN <<name>> ELSE <<"unnamed", id>>
Sensor(name, class, state) == [name |-> name, class |-> class, state |-> state]
Control(name, state, options) ==
  [name |-> name, state |-> state, command |-> SetTopic(state), options |-> options]

Class(z, zone) ==
  IF z \in DOMAIN ZoneClasses THEN ZoneClasses[z] ELSE DeviceClass(zone.type)

ModeSelect(name, a) == Control(name, ModeTopic(a), {Labels[m] : m \in Modes})
AlarmSensor(a, area) == Sensor(Named(area.name, a), "safety", AlarmTopic(a))
ZoneSensor(z, zone)  == Sensor(Named(zone.name, z), Class(z, zone), ZoneTopic(z))
Switch(z, zone, c)   == Control(Named(zone.name, z), SwitchTopic(z, c), {"ON", "OFF"})
AlertSensor(b)       == Sensor(<<"alert", b>>, "problem", AlertTopic(b))
EventSensor          == Sensor(<<"Last Event">>, "", EventTopic)

-----------------------------------------------------------------------------
\* The configs or messages of several entities together are joined by @@, as
\* in the module TLC: where both have a topic, the left one's.
f @@ g == [t \in (DOMAIN f) \cup (DOMAIN g) |-> IF t \in DOMAIN f THEN f[t] ELSE g[t]]

All(topics, payload) == [t \in topics |-> payload]
One(topic, payload)  == All({topic}, payload)

AreaConfigs(snap) ==
  LET A == DOMAIN snap.areas
      Area(t) == snap.areas[t[4]]
  IN  [t \in {AlarmConfig(a) : a \in A} |->
         AlarmSensor(t[4], Area(t))]
      @@ [t \in {ModeConfig(a) : a \in A} |-> ModeSelect(Named(Area(t).name, t[4]), t[4])]
      @@ All((UNION {LegacyArea(a) : a \in A}) \cup {LegacyAllAreas}, Empty)
      @@ (IF \E a, b \in A : a # b
          THEN One(AllAreasConfig, ModeSelect(<<"all">>, AllAreas)) ELSE NoEntries)

\* The switches of the zones, as pairs of a zone and a control.
Offered(snap) ==
  {p \in (DOMAIN snap.zones) \X ZoneControls : p[2] \in snap.zones[p[1]].allowed}

ZoneConfigs(snap) ==
  LET Z == DOMAIN snap.zones
      Zone(t) == snap.zones[t[4]]
  IN  [t \in {ZoneConfig(z) : z \in Z} |->
         ZoneSensor(t[4], Zone(t))]
      @@ [t \in {SwitchConfig(p[1], p[2]) : p \in Offered(snap)} |->
            Switch(t[4], Zone(t), t[5])]
      @@ All(UNION {LegacyZone(z) : z \in Z}, Empty)

\* The configs of the current snapshot, by topic.
DiscoveryMessages(snap) ==
  One(EventConfig, EventSensor)
  @@ [t \in {AlertConfig(b) : b \in Alerts \cup {Unmapped}} |-> AlertSensor(t[4])]
  @@ AreaConfigs(snap)
  @@ ZoneConfigs(snap)

-----------------------------------------------------------------------------
\* The messages that say how things are, by topic.
AreaMessages(snap, areas) ==
  LET A == areas \cap DOMAIN snap.areas
  IN  [t \in {ModeTopic(a) : a \in A} |-> Label(snap.areas[t[2]].mode)]
      @@ [t \in {AlarmTopic(a) : a \in A} |-> OnOff(snap.areas[t[2]].triggered)]

CommonMessage(snap) == One(ModeTopic(AllAreas), Label(CommonMode(snap)))

ZoneMessages(snap, zones) ==
  LET Z == zones \cap DOMAIN snap.zones
  IN  [t \in {ZoneTopic(z) : z \in Z} |-> IsOpen(snap.zones[t[2]].input)]
      @@ [t \in {AttributesTopic(z) : z \in Z} |-> snap.zones[t[2]]]
      @@ [t \in {SwitchTopic(p[1], p[2]) : p \in {q \in Offered(snap) : q[1] \in Z}} |->
            OnOff(snap.zones[t[2]].status = ActiveStatus(t[3]))]

AlertMessages(snap) ==
  [t \in {AlertTopic(b) : b \in Alerts} |->
     [state |-> OnOff(IsActive(snap.alerts, t[2])),
      inhibited |-> IsInhibited(snap.alerts, t[2]),
      isolated |-> IsIsolated(snap.alerts, t[2])]]
  @@ LET bits == UnmappedActive(snap.alerts, Alerts)
     IN  One(AlertTopic(Unmapped), [state |-> OnOff(bits # {}), bits |-> bits])

-----------------------------------------------------------------------------
\* Commands: the target of a topic that ends in /set, if it is one.
AreaTargets(topic) ==
  IF Len(topic) = 4 /\ topic[1] = "area" /\ topic[3] = "mode"
  THEN {topic[2]} \cap (U8 \cup {AllAreas}) ELSE {}

\* Mutant: the zone id is cut off to a byte.
ZoneTargetsWrapped(topic) ==
  IF Len(topic) = 4 /\ topic[1] = "zone" /\ topic[3] \in ZoneControls
  THEN {<<topic[2] % 256, topic[3]>>} ELSE {}
ZoneTargets(topic) ==
  IF Len(topic) = 4 /\ topic[1] = "zone" /\ topic[3] \in ZoneControls
  THEN {<<topic[2], topic[3]>>} \cap (U8 \X ZoneControls) ELSE {}

\* The binary command of a switch, if the payload is one.
ZoneOps(control, payload) ==
  {op \in [control : {control}, on : BOOLEAN] : OnOff(op.on) = payload}
=============================================================================
