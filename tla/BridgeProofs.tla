----------------------------- MODULE BridgeProofs -----------------------------
EXTENDS Bridge, SequenceTheorems, TLAPS

(***************************************************************************)
(* What Bridge promises, for all areas, zones, labels and budgets: the     *)
(* inductive invariant BridgeInv and what follows from it.  The argument   *)
(* has three threads.  Events come in the order of their sessions, so the  *)
(* link that is loaded is the youngest one heard of, and a reply is of the *)
(* panel (EventsInOrder, LoadedFirst, KnowsThePanel).  A zone or an alarm  *)
(* is either as the snapshot has it or in an event on its way, and the     *)
(* last such event wins (ZonesAreTold, AlarmsAreKept).  What the broker    *)
(* has and what was published to it are together what the bridge believes  *)
(* it has, once it has heard of the last turn of the connection            *)
(* (ConnectionIsKnown and the ...OnRecord parts).                          *)
(***************************************************************************)

-----------------------------------------------------------------------------
(* Replies, and what they and events make of a snapshot. *)

\* A reply of one section is the rows of that section.
LEMMA ReplyRows ==
  ASSUME NEW tag, NEW attributes, NEW children
  PROVE  Rows(ParseReply({[tag |-> tag, attributes |-> attributes, children |-> children]}), tag)
           = IF children # {} THEN children ELSE {attributes}
<1> DEFINE s == [tag |-> tag, attributes |-> attributes, children |-> children]
           S == {s}
<1>1. /\ s.tag = tag /\ s.attributes = attributes /\ s.children = children
      /\ \A r \in S : r = s
  OBVIOUS
<1>2. s \in S
  OBVIOUS
<1> HIDE DEF s
<1>3. (CHOOSE r \in S : r.tag = tag) = s
  BY <1>1, <1>2
<1>4. DOMAIN ParseReply(S) = {r.tag : r \in S} /\ tag \in {r.tag : r \in S}
  BY <1>1, <1>2 DEF ParseReply
<1>5. ParseReply(S)[tag] = IF s.children # {} THEN s.children ELSE {s.attributes}
  BY <1>3, <1>4 DEF ParseReply
<1> HIDE DEF S
<1>6. Rows(ParseReply(S), tag) = IF children # {} THEN children ELSE {attributes}
  BY <1>1, <1>4, <1>5 DEF Rows
<1> QED
  BY <1>6 DEF S, s

\* Every id of a reply has its row.
LEMMA RowsOfIds ==
  ASSUME NEW rows, NEW valid, NEW id \in Ids(rows, valid)
  PROVE  RowOf(rows, id) \in rows /\ RowOf(rows, id).ID = id /\ id \in valid
<1>1. PICK r \in rows : r.ID = id
  BY DEF Ids
<1> QED
  BY <1>1 DEF RowOf, Ids

\* The areas' reply has a row for each area, with the mode the panel has.
LEMMA AreasReplyIs ==
  ASSUME PanelOK
  PROVE  /\ AreaIds(AreasReply) = Areas
         /\ \A a \in Areas : RowOfArea(AreasReply, a).MODE = panel.modes[a]
<1> DEFINE rows == Rows(AreasReply, "AREA_STATUS")
<1>1. rows = IF AreaRows # {} THEN AreaRows ELSE {NoRow}
  BY ReplyRows DEF AreasReply, List
<1>2. NoRow.ID = -1 /\ -1 \notin U8
  BY DEF NoRow, U8
<1> DEFINE Row(a) == [ID |-> a, NAME |-> "", MODE |-> panel.modes[a]]
<1>r. \A a \in Areas : Row(a).ID = a /\ Row(a).MODE = panel.modes[a]
  OBVIOUS
<1> HIDE DEF Row
<1>s. AreaRows = {Row(a) : a \in Areas}
  BY DEF AreaRows, Row
<1>3. \A r \in AreaRows : r.ID \in Areas /\ r.MODE = panel.modes[r.ID]
  BY <1>r, <1>s
<1>4. \A a \in Areas : \E r \in AreaRows : r.ID = a
  BY <1>r, <1>s
<1>5. Ids(rows, U8) = Areas
  <2>1. CASE Areas = {}
    <3>1. rows = {NoRow}
      BY <1>1, <1>3, <2>1
    <3> HIDE DEF rows
    <3> QED
      BY <1>2, <2>1, <3>1 DEF Ids
  <2>2. CASE Areas # {}
    <3>1. rows = AreaRows
      BY <1>1, <1>4, <2>2
    <3> HIDE DEF rows
    <3> QED
      BY <1>3, <1>4, <3>1, BridgeAssumption DEF Ids
  <2> QED
    BY <2>1, <2>2
<1>6. ASSUME NEW a \in Areas PROVE RowOf(rows, a).MODE = panel.modes[a]
  <2>1. rows = AreaRows
    BY <1>1, <1>4
  <2> HIDE DEF rows
  <2>2. RowOf(rows, a) \in rows /\ RowOf(rows, a).ID = a
    BY <1>5, RowsOfIds
  <2> QED
    BY <1>3, <2>1, <2>2
<1> QED
  BY <1>5, <1>6 DEF AreaIds, RowOfArea

\* The zones' reply has a row for each zone, with its input and its area.
LEMMA ZonesReplyIs ==
  ASSUME PanelOK
  PROVE  /\ ZoneIds(ZonesReply) = DOMAIN panel.zones
         /\ \A z \in DOMAIN panel.zones : /\ RowOfZone(ZonesReply, z).INPUT = panel.zones[z].input
                                          /\ RowOfZone(ZonesReply, z).AREA = ZoneArea[z]
<1> DEFINE Z == {ZoneRow(z) : z \in DOMAIN panel.zones}
           rows == Rows(ZonesReply, "ZONE_STATUS")
<1>1. rows = IF Z # {} THEN Z ELSE {NoRow}
  BY ReplyRows DEF ZonesReply, List
<1>2. NoRow.ID = -1 /\ -1 \notin U32
  BY DEF NoRow, U32
<1>r. \A z \in DOMAIN panel.zones : /\ ZoneRow(z).ID = z /\ ZoneRow(z).AREA = ZoneArea[z]
                                    /\ ZoneRow(z).INPUT = panel.zones[z].input
  BY DEF ZoneRow
<1>3. \A r \in Z : /\ r.ID \in DOMAIN panel.zones /\ r.AREA = ZoneArea[r.ID]
                   /\ r.INPUT = panel.zones[r.ID].input
  BY <1>r
<1>4. \A z \in DOMAIN panel.zones : \E r \in Z : r.ID = z
  BY <1>r
<1>p. DOMAIN panel.zones \subseteq U32
  BY BridgeAssumption DEF PanelOK
<1> HIDE DEF Z
<1>5. Ids(rows, U32) = DOMAIN panel.zones
  <2>1. CASE DOMAIN panel.zones = {}
    <3>1. rows = {NoRow}
      BY <1>1, <1>3, <2>1
    <3> HIDE DEF rows
    <3> QED
      BY <1>2, <2>1, <3>1 DEF Ids
  <2>2. CASE DOMAIN panel.zones # {}
    <3>1. rows = Z
      BY <1>1, <1>4, <2>2
    <3> HIDE DEF rows
    <3> QED
      BY <1>3, <1>4, <3>1, <1>p DEF Ids
  <2> QED
    BY <2>1, <2>2
<1>6. ASSUME NEW z \in DOMAIN panel.zones
      PROVE  /\ RowOf(rows, z).INPUT = panel.zones[z].input
             /\ RowOf(rows, z).AREA = ZoneArea[z]
  <2>1. rows = Z
    BY <1>1, <1>4
  <2> HIDE DEF rows
  <2>2. RowOf(rows, z) \in rows /\ RowOf(rows, z).ID = z
    BY <1>5, RowsOfIds
  <2> QED
    BY <1>3, <2>1, <2>2
<1> QED
  BY <1>5, <1>6 DEF ZoneIds, RowOfZone

\* Areas applied: those of the reply, triggered if they were and are still armed.
LEMMA AreasApplied ==
  ASSUME NEW s, SnapshotOK(s), NEW reply, AreaIds(reply) \subseteq Areas, NEW n, n = ApplyAreas(s, reply)
  PROVE  /\ SnapshotOK(n)
         /\ n.zones = s.zones
         /\ DOMAIN n.areas = AreaIds(reply)
         /\ \A a \in AreaIds(reply) :
              WasTriggered(n.areas, a) <=>
                WasTriggered(s.areas, a) /\ ArmMode(RowOfArea(reply, a).MODE) # "Unset"
<1> DEFINE rows == Rows(reply, "AREA_STATUS")
           F == [id \in Ids(rows, U8) |-> AreaOfRow(s.areas, RowOf(rows, id))]
<1>1. n = [s EXCEPT !.areas = F]
  BY DEF ApplyAreas
<1>2. DOMAIN F = AreaIds(reply)
  BY DEF AreaIds
<1>3. ASSUME NEW a \in AreaIds(reply)
      PROVE  /\ F[a].triggered \in BOOLEAN
             /\ DOMAIN F[a] = {"name", "mode", "triggered"}
             /\ F[a].triggered <=> WasTriggered(s.areas, a) /\ ArmMode(RowOfArea(reply, a).MODE) # "Unset"
  <2>1. RowOf(rows, a).ID = a
    BY RowsOfIds DEF AreaIds
  <2>2. F[a] = AreaOfRow(s.areas, RowOf(rows, a))
    BY DEF AreaIds
  <2>3. WasTriggered(s.areas, a) \in BOOLEAN
    BY DEF WasTriggered, SnapshotOK
  <2>4. F[a] = [name |-> RowOf(rows, a).NAME, mode |-> ArmMode(RowOf(rows, a).MODE),
                triggered |-> WasTriggered(s.areas, a) /\ ArmMode(RowOf(rows, a).MODE) # "Unset"]
    BY <2>1, <2>2 DEF AreaOfRow
  <2> HIDE DEF F
  <2>5. F[a].triggered = (WasTriggered(s.areas, a) /\ ArmMode(RowOf(rows, a).MODE) # "Unset")
    BY <2>4
  <2>6. DOMAIN F[a] = {"name", "mode", "triggered"}
    BY <2>4
  <2> QED
    BY <2>3, <2>5, <2>6 DEF RowOfArea
<1> HIDE DEF F
<1>4. n.areas = F /\ n.zones = s.zones /\ DOMAIN n = DOMAIN s
  BY <1>1 DEF SnapshotOK, NewSnapshot
<1>5. SnapshotOK(n)
  BY <1>2, <1>3, <1>4 DEF SnapshotOK
<1> QED
  BY <1>2, <1>3, <1>4, <1>5 DEF WasTriggered

\* Zones applied: those of the reply, each with every control it was allowed before.
LEMMA ZonesApplied ==
  ASSUME NEW s, SnapshotOK(s), NEW reply, ZoneIds(reply) \subseteq Zones, NEW n, n = ApplyZones(s, reply)
  PROVE  /\ SnapshotOK(n)
         /\ n.areas = s.areas
         /\ DOMAIN n.zones = ZoneIds(reply)
         /\ \A z \in ZoneIds(reply) :
              /\ n.zones[z].input = ZoneInput(RowOfZone(reply, z).INPUT)
              /\ RowOfZone(reply, z).AREA \in U32 => n.zones[z].area = RowOfZone(reply, z).AREA
              /\ z \in DOMAIN s.zones => s.zones[z].allowed \subseteq n.zones[z].allowed
<1> DEFINE rows == Rows(reply, "ZONE_STATUS")
           Entry(r) ==
             [name |-> r.ZONE_NAME, area |-> IF r.AREA \in U32 THEN r.AREA ELSE 0, type |-> r.TYPE,
              input |-> ZoneInput(r.INPUT), status |-> ZoneStatus(r.STATUS),
              allowed |-> Allowed(s.zones, r)]
           F == [id \in Ids(rows, U32) |-> Entry(RowOf(rows, id))]
<1>1. n = [s EXCEPT !.zones = F]
  BY DEF ApplyZones
<1>2. DOMAIN F = ZoneIds(reply)
  BY DEF ZoneIds
<1>3. ASSUME NEW z \in ZoneIds(reply), NEW r, r = RowOfZone(reply, z)
      PROVE  /\ F[z].input = ZoneInput(r.INPUT)
             /\ r.AREA \in U32 => F[z].area = r.AREA
             /\ F[z].allowed = Allowed(s.zones, r)
             /\ DOMAIN F[z] = {"name", "area", "type", "input", "status", "allowed"}
             /\ r.ID = z
  <2>1. r = RowOf(rows, z) /\ r.ID = z
    BY <1>3, RowsOfIds DEF ZoneIds, RowOfZone
  <2>2. F[z] = Entry(r)
    BY <2>1 DEF ZoneIds
  <2> QED
    BY <2>1, <2>2
<1>4. ASSUME NEW r PROVE /\ Allowed(s.zones, r) \subseteq ZoneControls
                         /\ r.ID \in DOMAIN s.zones => s.zones[r.ID].allowed \subseteq Allowed(s.zones, r)
  <2>1. \A z \in DOMAIN s.zones : s.zones[z].allowed \subseteq ZoneControls
    BY DEF SnapshotOK
  <2> QED
    BY <2>1 DEF Allowed
<1> HIDE DEF F
<1>5. n.zones = F /\ n.areas = s.areas /\ DOMAIN n = DOMAIN s
  BY <1>1 DEF SnapshotOK, NewSnapshot
<1>6. \A z \in ZoneIds(reply) : /\ DOMAIN F[z] = {"name", "area", "type", "input", "status", "allowed"}
                                /\ F[z].allowed \subseteq ZoneControls
  BY <1>3, <1>4
<1>7. SnapshotOK(n)
  BY <1>2, <1>5, <1>6 DEF SnapshotOK
<1>8. ASSUME NEW z \in ZoneIds(reply)
      PROVE  /\ n.zones[z].input = ZoneInput(RowOfZone(reply, z).INPUT)
             /\ RowOfZone(reply, z).AREA \in U32 => n.zones[z].area = RowOfZone(reply, z).AREA
             /\ z \in DOMAIN s.zones => s.zones[z].allowed \subseteq n.zones[z].allowed
  BY <1>3, <1>4, <1>5
<1> QED
  BY <1>2, <1>5, <1>7, <1>8

\* A status reply is about neither areas nor zones.
LEMMA StatusApplied ==
  ASSUME NEW s, SnapshotOK(s), NEW reply, NEW n, n = ApplyStatus(s, reply)
  PROVE  SnapshotOK(n) /\ n.areas = s.areas /\ n.zones = s.zones
<1>1. PICK x : n = [s EXCEPT !.alerts = x]
  BY DEF ApplyStatus
<1>2. n.areas = s.areas /\ n.zones = s.zones /\ DOMAIN n = DOMAIN s
  BY <1>1 DEF SnapshotOK, NewSnapshot
<1> QED
  BY <1>2 DEF SnapshotOK

\* An event moves the zones it names and triggers the areas it raises the alarm of.
LEMMA EventApplied ==
  ASSUME NEW s, SnapshotOK(s), NEW ev, NEW n, n = ApplyEvent(s, ev)
  PROVE  /\ SnapshotOK(n)
         /\ DOMAIN n.areas = DOMAIN s.areas /\ DOMAIN n.zones = DOMAIN s.zones
         /\ \A z \in DOMAIN s.zones :
              /\ n.zones[z].area = s.zones[z].area
              /\ n.zones[z].allowed = s.zones[z].allowed
              /\ n.zones[z].input =
                   IF z \in MovedZones(s, ev) THEN EventInput(ev) ELSE s.zones[z].input
         /\ \A a \in DOMAIN s.areas :
              WasTriggered(n.areas, a) <=> WasTriggered(s.areas, a) \/ a \in AlarmedAreas(s, ev)
<1> DEFINE Z == [z \in DOMAIN s.zones |-> IF z \in MovedZones(s, ev)
                   THEN [s.zones[z] EXCEPT !.input = EventInput(ev)] ELSE s.zones[z]]
           A == [a \in DOMAIN s.areas |-> IF a \in AlarmedAreas(s, ev)
                   THEN [s.areas[a] EXCEPT !.triggered = TRUE] ELSE s.areas[a]]
<1>1. n = [s EXCEPT !.zones = Z, !.areas = A]
  BY DEF ApplyEvent
<1>2. DOMAIN Z = DOMAIN s.zones /\ DOMAIN A = DOMAIN s.areas
  OBVIOUS
<1>3. ASSUME NEW z \in DOMAIN s.zones
      PROVE  /\ Z[z].area = s.zones[z].area /\ Z[z].allowed = s.zones[z].allowed
             /\ Z[z].input = IF z \in MovedZones(s, ev) THEN EventInput(ev) ELSE s.zones[z].input
             /\ DOMAIN Z[z] = DOMAIN s.zones[z]
  <2>1. DOMAIN s.zones[z] = {"name", "area", "type", "input", "status", "allowed"}
    BY DEF SnapshotOK
  <2> QED
    BY <2>1
<1>4. ASSUME NEW a \in DOMAIN s.areas
      PROVE  /\ A[a].triggered \in BOOLEAN /\ DOMAIN A[a] = DOMAIN s.areas[a]
             /\ A[a].triggered <=> s.areas[a].triggered \/ a \in AlarmedAreas(s, ev)
  <2>1. DOMAIN s.areas[a] = {"name", "mode", "triggered"} /\ s.areas[a].triggered \in BOOLEAN
    BY DEF SnapshotOK
  <2>2. CASE a \in AlarmedAreas(s, ev)
    BY <2>1, <2>2
  <2>3. CASE a \notin AlarmedAreas(s, ev)
    BY <2>1, <2>3
  <2> QED
    BY <2>2, <2>3
<1> HIDE DEF Z, A
<1>5. n.areas = A /\ n.zones = Z /\ DOMAIN n = DOMAIN s
  BY <1>1 DEF SnapshotOK, NewSnapshot
<1>6. SnapshotOK(n)
  <2>1. /\ DOMAIN n = DOMAIN NewSnapshot
        /\ DOMAIN n.areas \subseteq Areas /\ DOMAIN n.zones \subseteq Zones
    BY <1>2, <1>5 DEF SnapshotOK
  <2>2. ASSUME NEW a \in DOMAIN n.areas
        PROVE  /\ DOMAIN n.areas[a] = {"name", "mode", "triggered"}
               /\ n.areas[a].triggered \in BOOLEAN
    <3>1. a \in DOMAIN s.areas /\ n.areas[a] = A[a]
      BY <1>2, <1>5, <2>2
    <3>2. DOMAIN s.areas[a] = {"name", "mode", "triggered"}
      BY <3>1 DEF SnapshotOK
    <3> QED
      BY <1>4, <3>1, <3>2
  <2>3. ASSUME NEW z \in DOMAIN n.zones
        PROVE  /\ DOMAIN n.zones[z] = {"name", "area", "type", "input", "status", "allowed"}
               /\ n.zones[z].allowed \subseteq ZoneControls
    <3>1. z \in DOMAIN s.zones /\ n.zones[z] = Z[z]
      BY <1>2, <1>5, <2>3
    <3>2. /\ DOMAIN s.zones[z] = {"name", "area", "type", "input", "status", "allowed"}
          /\ s.zones[z].allowed \subseteq ZoneControls
      BY <3>1 DEF SnapshotOK
    <3> QED
      BY <1>3, <3>1, <3>2
  <2> QED
    BY <2>1, <2>2, <2>3 DEF SnapshotOK
<1>7. \A a \in DOMAIN s.areas :
        WasTriggered(n.areas, a) <=> WasTriggered(s.areas, a) \/ a \in AlarmedAreas(s, ev)
  BY <1>2, <1>4, <1>5 DEF WasTriggered
<1> QED
  BY <1>2, <1>3, <1>5, <1>6, <1>7

-----------------------------------------------------------------------------
(* Topics, configs and messages. *)

\* Of two sets of messages joined, the first one has its way.
LEMMA Joined ==
  ASSUME NEW f, NEW g
  PROVE  /\ DOMAIN (f @@ g) = (DOMAIN f) \cup (DOMAIN g)
         /\ \A t \in DOMAIN f : (f @@ g)[t] = f[t]
         /\ \A t \in DOMAIN g : t \notin DOMAIN f => (f @@ g)[t] = g[t]
BY DEF @@

\* Where the message of each entity is.
LEMMA AreaTopics ==
  ASSUME NEW s, NEW A
  PROVE  /\ \A t \in DOMAIN AreaMessages(s, A) : t[1] = "area"
         /\ \A a \in A \cap DOMAIN s.areas :
              /\ AlarmTopic(a) \in DOMAIN AreaMessages(s, A)
              /\ AreaMessages(s, A)[AlarmTopic(a)] = OnOff(s.areas[a].triggered)
         /\ \A a : AlarmTopic(a) \in DOMAIN AreaMessages(s, A) => a \in A \cap DOMAIN s.areas
<1> DEFINE B == A \cap DOMAIN s.areas
           M == [t \in {ModeTopic(a) : a \in B} |-> Label(s.areas[t[2]].mode)]
           L == [t \in {AlarmTopic(a) : a \in B} |-> OnOff(s.areas[t[2]].triggered)]
<1>1. AreaMessages(s, A) = M @@ L
  BY DEF AreaMessages
<1>2. DOMAIN M = {ModeTopic(a) : a \in B} /\ DOMAIN L = {AlarmTopic(a) : a \in B}
  OBVIOUS
<1>3. /\ \A t \in DOMAIN M : t[1] = "area" /\ t[3] = "mode"
      /\ \A t \in DOMAIN L : t[1] = "area"
  BY <1>2 DEF ModeTopic, AlarmTopic
<1>4. \A a : AlarmTopic(a)[1] = "area" /\ AlarmTopic(a)[2] = a /\ AlarmTopic(a)[3] = "alarm"
  BY DEF AlarmTopic
<1>5. \A a : AlarmTopic(a) \notin DOMAIN M
  BY <1>3, <1>4
<1>6. \A a \in B : AlarmTopic(a) \in DOMAIN L /\ L[AlarmTopic(a)] = OnOff(s.areas[a].triggered)
  BY <1>2, <1>4
<1>7. \A a : AlarmTopic(a) \in DOMAIN L => a \in B
  BY <1>2, <1>4
<1> HIDE DEF B, M, L
<1>8. /\ DOMAIN (M @@ L) = (DOMAIN M) \cup (DOMAIN L)
      /\ \A t \in DOMAIN L : t \notin DOMAIN M => (M @@ L)[t] = L[t]
  BY Joined
<1>9. /\ \A t \in DOMAIN (M @@ L) : t[1] = "area"
      /\ \A a \in B : /\ AlarmTopic(a) \in DOMAIN (M @@ L)
                       /\ (M @@ L)[AlarmTopic(a)] = OnOff(s.areas[a].triggered)
      /\ \A a : AlarmTopic(a) \in DOMAIN (M @@ L) => a \in B
  BY <1>3, <1>5, <1>6, <1>7, <1>8
<1> QED
  BY <1>1, <1>9 DEF B

\* Each kind of message has topics of its own.
LEMMA OtherTopics ==
  ASSUME NEW s
  PROVE  /\ \A t \in DOMAIN CommonMessage(s) : t[1] = "area" /\ t[3] = "mode"
         /\ \A Z : \A t \in DOMAIN ZoneMessages(s, Z) : t[1] = "zone"
         /\ \A t \in DOMAIN AlertMessages(s) : t[1] = "system"
         /\ StatusTopic[1] = "status"
         /\ \A l : /\ DOMAIN Status(l) = {StatusTopic}
                   /\ Status(l)[StatusTopic] = IF l.loaded THEN "online" ELSE "offline"
<1>1. \A t \in DOMAIN CommonMessage(s) : t[1] = "area" /\ t[3] = "mode"
  <2>1. DOMAIN CommonMessage(s) = {ModeTopic(AllAreas)}
    BY DEF CommonMessage, One, All
  <2> QED
    BY <2>1 DEF ModeTopic
<1>2. ASSUME NEW Z, NEW t \in DOMAIN ZoneMessages(s, Z) PROVE t[1] = "zone"
  <2> DEFINE Y == Z \cap DOMAIN s.zones
             F == [u \in {ZoneTopic(z) : z \in Y} |-> IsOpen(s.zones[u[2]].input)]
             G == [u \in {AttributesTopic(z) : z \in Y} |-> s.zones[u[2]]]
             H == [u \in {SwitchTopic(p[1], p[2]) : p \in {q \in Offered(s) : q[1] \in Y}} |->
                    OnOff(s.zones[u[2]].status = ActiveStatus(u[3]))]
  <2>1. ZoneMessages(s, Z) = (F @@ G) @@ H
    BY DEF ZoneMessages
  <2>2. /\ DOMAIN F = {ZoneTopic(z) : z \in Y} /\ DOMAIN G = {AttributesTopic(z) : z \in Y}
        /\ DOMAIN H = {SwitchTopic(p[1], p[2]) : p \in {q \in Offered(s) : q[1] \in Y}}
    OBVIOUS
  <2>3. /\ \A u \in DOMAIN F : u[1] = "zone"
        /\ \A u \in DOMAIN G : u[1] = "zone"
        /\ \A u \in DOMAIN H : u[1] = "zone"
    BY <2>2 DEF ZoneTopic, AttributesTopic, SwitchTopic
  <2> HIDE DEF F, G, H
  <2>4. DOMAIN (F @@ G) = (DOMAIN F) \cup (DOMAIN G)
    BY Joined
  <2>5. DOMAIN ((F @@ G) @@ H) = (DOMAIN (F @@ G)) \cup (DOMAIN H)
    BY Joined
  <2>6. t \in DOMAIN ((F @@ G) @@ H)
    BY <1>2, <2>1
  <2> QED
    BY <2>3, <2>4, <2>5, <2>6
<1>3. ASSUME NEW t \in DOMAIN AlertMessages(s) PROVE t[1] = "system"
  <2> DEFINE bits == UnmappedActive(s.alerts, Alerts)
             F == [u \in {AlertTopic(b) : b \in Alerts} |->
                     [state |-> OnOff(IsActive(s.alerts, u[2])),
                      inhibited |-> IsInhibited(s.alerts, u[2]),
                      isolated |-> IsIsolated(s.alerts, u[2])]]
             G == One(AlertTopic(Unmapped), [state |-> OnOff(bits # {}), bits |-> bits])
  <2>1. AlertMessages(s) = F @@ G
    BY DEF AlertMessages
  <2>2. DOMAIN F = {AlertTopic(b) : b \in Alerts} /\ DOMAIN G = {AlertTopic(Unmapped)}
    BY DEF One, All
  <2>3. (\A u \in DOMAIN F : u[1] = "system") /\ (\A u \in DOMAIN G : u[1] = "system")
    BY <2>2 DEF AlertTopic
  <2> HIDE DEF F, G
  <2>4. DOMAIN (F @@ G) = (DOMAIN F) \cup (DOMAIN G)
    BY Joined
  <2>5. t \in DOMAIN (F @@ G)
    BY <1>3, <2>1
  <2> QED
    BY <2>3, <2>4, <2>5
<1>4. StatusTopic[1] = "status"
  BY DEF StatusTopic
<1>5. ASSUME NEW l
      PROVE  /\ DOMAIN Status(l) = {StatusTopic}
             /\ Status(l)[StatusTopic] = IF l.loaded THEN "online" ELSE "offline"
  BY DEF Status, One, All
<1> QED
  BY <1>1, <1>2, <1>3, <1>4, <1>5

\* What is said of each config by itself.
ConfigOK(s, t, config) ==
  /\ t[1] = "config"
  /\ IsSwitch(t) => t = SwitchConfig(t[4], t[5]) /\ <<t[4], t[5]>> \in Offered(s)
  /\ "command" \in DOMAIN config =>
       /\ config.command = SetTopic(config.state)
       /\ IF IsSwitch(t)
          THEN config.state = SwitchTopic(t[4], t[5]) /\ config.options = {"ON", "OFF"}
          ELSE /\ \E a \in Areas \cup {AllAreas} : config.state = ModeTopic(a)
               /\ config.options = {Labels[m] : m \in Modes}
\* Every message is a config, and one that a snapshot makes.
ConfigsOK(s, f) == \A t \in DOMAIN f : ConfigOK(s, t, f[t])

\* Configs that are joined stay configs.
LEMMA ConfigsJoined ==
  ASSUME NEW s, NEW f, NEW g, ConfigsOK(s, f), ConfigsOK(s, g)
  PROVE  ConfigsOK(s, f @@ g)
<1>1. ASSUME NEW t \in DOMAIN (f @@ g) PROVE ConfigOK(s, t, (f @@ g)[t])
  <2>1. CASE t \in DOMAIN f
    <3>1. (f @@ g)[t] = f[t]
      BY <1>1, <2>1 DEF @@
    <3> QED
      BY <2>1, <3>1 DEF ConfigsOK
  <2>2. CASE t \notin DOMAIN f
    <3>0. DOMAIN (f @@ g) = (DOMAIN f) \cup (DOMAIN g)
      BY Joined
    <3>1. t \in DOMAIN g
      BY <1>1, <2>2, <3>0
    <3>2. (f @@ g)[t] = g[t]
      BY <1>1, <2>2, <3>1 DEF @@
    <3> QED
      BY <3>1, <3>2 DEF ConfigsOK
  <2> QED
    BY <2>1, <2>2
<1> QED
  BY <1>1 DEF ConfigsOK

\* A sensor's config names no command topic; nor does a deleted one.
LEMMA PlainConfigs ==
  ASSUME NEW s, NEW t, t[1] = "config", t[2] # "switch", NEW name, NEW class, NEW state
  PROVE  ConfigOK(s, t, Sensor(name, class, state)) /\ ConfigOK(s, t, Empty)
<1>1. ~IsSwitch(t)
  BY DEF IsSwitch
<1>2. "command" \notin DOMAIN Sensor(name, class, state)
  BY DEF Sensor
<1>3. "command" \notin DOMAIN Empty
  BY DEF Empty
<1> QED
  BY <1>1, <1>2, <1>3 DEF ConfigOK

\* A mode select names the command topic of its own area.
LEMMA SelectConfigs ==
  ASSUME NEW s, NEW t, t[1] = "config", t[2] # "switch", NEW name, NEW a \in Areas \cup {AllAreas}
  PROVE  ConfigOK(s, t, ModeSelect(name, a))
<1>1. ~IsSwitch(t)
  BY DEF IsSwitch
<1> DEFINE c == ModeSelect(name, a)
<1>2. /\ c.state = ModeTopic(a) /\ c.command = SetTopic(ModeTopic(a))
      /\ c.options = {Labels[m] : m \in Modes}
  BY DEF ModeSelect, Control
<1> HIDE DEF c
<1>3. ConfigOK(s, t, c)
  BY <1>1, <1>2 DEF ConfigOK
<1> QED
  BY <1>3 DEF c

\* A switch names the command topic of its own zone and control.
LEMMA SwitchConfigs ==
  ASSUME NEW s, NEW z, NEW k, <<z, k>> \in Offered(s), NEW zone
  PROVE  ConfigOK(s, SwitchConfig(z, k), Switch(z, zone, k))
<1> DEFINE c == Switch(z, zone, k)
           t == SwitchConfig(z, k)
<1>1. t[1] = "config" /\ t[4] = z /\ t[5] = k
  BY DEF SwitchConfig
<1>2. IsSwitch(t)
  BY DEF IsSwitch, SwitchConfig
<1>3. /\ c.state = SwitchTopic(z, k) /\ c.command = SetTopic(SwitchTopic(z, k))
      /\ c.options = {"ON", "OFF"}
  BY DEF Switch, Control
<1>4. t = SwitchConfig(t[4], t[5])
  BY <1>1
<1> HIDE DEF c, t
<1>5. ConfigOK(s, t, c)
  BY <1>1, <1>2, <1>3, <1>4 DEF ConfigOK
<1> QED
  BY <1>5 DEF c, t

\* What areas announce are configs.
LEMMA AreaConfigsOK == ASSUME NEW s, SnapshotOK(s) PROVE ConfigsOK(s, AreaConfigs(s))
<1> DEFINE A == DOMAIN s.areas
           F == [t \in {AlarmConfig(a) : a \in A} |-> AlarmSensor(t[4], s.areas[t[4]])]
           G == [t \in {ModeConfig(a) : a \in A} |-> ModeSelect(Named(s.areas[t[4]].name, t[4]), t[4])]
           H == All((UNION {LegacyArea(a) : a \in A}) \cup {LegacyAllAreas}, Empty)
           C == IF \E a, b \in A : a # b
                THEN One(AllAreasConfig, ModeSelect(<<"all">>, AllAreas)) ELSE NoEntries
<1>1. AreaConfigs(s) = ((F @@ G) @@ H) @@ C
  BY DEF AreaConfigs
<1>2. ConfigsOK(s, F)
  <2>1. ASSUME NEW a \in A PROVE ConfigOK(s, AlarmConfig(a), F[AlarmConfig(a)])
    <3>1. AlarmConfig(a)[1] = "config" /\ AlarmConfig(a)[2] # "switch"
      BY DEF AlarmConfig
    <3> QED
      BY <3>1, PlainConfigs DEF AlarmSensor
  <2> QED
    BY <2>1 DEF ConfigsOK
<1>3. ConfigsOK(s, G)
  <2>1. ASSUME NEW a \in A PROVE ConfigOK(s, ModeConfig(a), G[ModeConfig(a)])
    <3>1. ModeConfig(a)[1] = "config" /\ ModeConfig(a)[2] # "switch" /\ ModeConfig(a)[4] = a
      BY DEF ModeConfig
    <3>2. a \in Areas \cup {AllAreas}
      BY <2>1 DEF SnapshotOK
    <3>3. G[ModeConfig(a)] = ModeSelect(Named(s.areas[a].name, a), a)
      BY <3>1
    <3> HIDE DEF G, A
    <3> QED
      BY <3>1, <3>2, <3>3, SelectConfigs
  <2> QED
    BY <2>1 DEF ConfigsOK
<1>4. ConfigsOK(s, H)
  <2>1. ASSUME NEW t \in DOMAIN H PROVE t[1] = "config" /\ t[2] # "switch" /\ H[t] = Empty
    <3>1. t \in (UNION {LegacyArea(a) : a \in A}) \cup {LegacyAllAreas} /\ H[t] = Empty
      BY <2>1 DEF All
    <3>2. CASE t = LegacyAllAreas
      BY <3>1, <3>2 DEF LegacyAllAreas
    <3>3. CASE t # LegacyAllAreas
      <4>1. PICK a \in A : t \in LegacyArea(a)
        BY <3>1, <3>3
      <4> QED
        BY <3>1, <4>1 DEF LegacyArea
    <3> QED
      BY <3>2, <3>3
  <2> HIDE DEF H
  <2> QED
    BY <2>1, PlainConfigs DEF ConfigsOK
<1>5. ConfigsOK(s, C)
  <2>1. CASE C = NoEntries
    <3> HIDE DEF C
    <3> QED
      BY <2>1 DEF ConfigsOK, NoEntries
  <2>2. CASE C = One(AllAreasConfig, ModeSelect(<<"all">>, AllAreas))
    <3>1. AllAreasConfig[1] = "config" /\ AllAreasConfig[2] # "switch"
      BY DEF AllAreasConfig
    <3>2. ConfigOK(s, AllAreasConfig, ModeSelect(<<"all">>, AllAreas))
      BY <3>1, SelectConfigs
    <3> HIDE DEF C
    <3> QED
      BY <2>2, <3>2 DEF ConfigsOK, One, All
  <2> QED
    BY <2>1, <2>2
<1> HIDE DEF F, G, H, C
<1> QED
  BY <1>1, <1>2, <1>3, <1>4, <1>5, ConfigsJoined

\* What zones announce are configs, with one of every switch that is offered.
LEMMA ZoneConfigsOK ==
  ASSUME NEW s, SnapshotOK(s)
  PROVE  /\ ConfigsOK(s, ZoneConfigs(s))
         /\ \A p \in Offered(s) : SwitchConfig(p[1], p[2]) \in DOMAIN ZoneConfigs(s)
<1> DEFINE Z == DOMAIN s.zones
           F == [t \in {ZoneConfig(z) : z \in Z} |-> ZoneSensor(t[4], s.zones[t[4]])]
           G == [t \in {SwitchConfig(p[1], p[2]) : p \in Offered(s)} |-> Switch(t[4], s.zones[t[4]], t[5])]
           H == All(UNION {LegacyZone(z) : z \in Z}, Empty)
<1>1. ZoneConfigs(s) = (F @@ G) @@ H
  BY DEF ZoneConfigs
<1>2. ConfigsOK(s, F)
  <2>1. ASSUME NEW z \in Z PROVE ConfigOK(s, ZoneConfig(z), F[ZoneConfig(z)])
    <3>1. ZoneConfig(z)[1] = "config" /\ ZoneConfig(z)[2] # "switch"
      BY DEF ZoneConfig
    <3> QED
      BY <3>1, PlainConfigs DEF ZoneSensor
  <2> QED
    BY <2>1 DEF ConfigsOK
<1>3. ConfigsOK(s, G)
  <2>1. ASSUME NEW p \in Offered(s) PROVE ConfigOK(s, SwitchConfig(p[1], p[2]), G[SwitchConfig(p[1], p[2])])
    <3>1. SwitchConfig(p[1], p[2])[4] = p[1] /\ SwitchConfig(p[1], p[2])[5] = p[2]
      BY DEF SwitchConfig
    <3>2. G[SwitchConfig(p[1], p[2])] = Switch(p[1], s.zones[p[1]], p[2])
      BY <3>1
    <3>3. <<p[1], p[2]>> \in Offered(s)
      BY DEF Offered
    <3> HIDE DEF G
    <3> QED
      BY <3>2, <3>3, SwitchConfigs
  <2> QED
    BY <2>1 DEF ConfigsOK
<1>4. ConfigsOK(s, H)
  <2>1. \A t \in DOMAIN H : t[1] = "config" /\ t[2] # "switch" /\ H[t] = Empty
    BY DEF All, LegacyZone
  <2> HIDE DEF H
  <2> QED
    BY <2>1, PlainConfigs DEF ConfigsOK
<1>5. \A p \in Offered(s) : SwitchConfig(p[1], p[2]) \in DOMAIN G
  OBVIOUS
<1> HIDE DEF F, G, H
<1>6. ConfigsOK(s, (F @@ G) @@ H)
  BY <1>2, <1>3, <1>4, ConfigsJoined
<1>7. DOMAIN (F @@ G) = (DOMAIN F) \cup (DOMAIN G)
  BY Joined
<1>8. DOMAIN ((F @@ G) @@ H) = (DOMAIN (F @@ G)) \cup (DOMAIN H)
  BY Joined
<1> QED
  BY <1>1, <1>5, <1>6, <1>7, <1>8

\* So all of a snapshot's discovery is, and no switch on offer is missing.
LEMMA DiscoveryOK ==
  ASSUME NEW s, SnapshotOK(s)
  PROVE  /\ ConfigsOK(s, DiscoveryMessages(s))
         /\ \A p \in Offered(s) : SwitchConfig(p[1], p[2]) \in DOMAIN DiscoveryMessages(s)
<1> DEFINE F == One(EventConfig, EventSensor)
           G == [t \in {AlertConfig(b) : b \in Alerts \cup {Unmapped}} |-> AlertSensor(t[4])]
           A == AreaConfigs(s)
           Z == ZoneConfigs(s)
<1>1. DiscoveryMessages(s) = ((F @@ G) @@ A) @@ Z
  BY DEF DiscoveryMessages
<1>2. ConfigsOK(s, F)
  <2>1. EventConfig[1] = "config" /\ EventConfig[2] # "switch"
    BY DEF EventConfig
  <2>2. ConfigOK(s, EventConfig, EventSensor)
    BY <2>1, PlainConfigs DEF EventSensor
  <2> QED
    BY <2>2 DEF ConfigsOK, One, All
<1>3. ConfigsOK(s, G)
  <2>1. ASSUME NEW b \in Alerts \cup {Unmapped} PROVE ConfigOK(s, AlertConfig(b), G[AlertConfig(b)])
    <3>1. AlertConfig(b)[1] = "config" /\ AlertConfig(b)[2] # "switch"
      BY DEF AlertConfig
    <3> QED
      BY <3>1, PlainConfigs DEF AlertSensor
  <2> QED
    BY <2>1 DEF ConfigsOK
<1>4. ConfigsOK(s, A) /\ ConfigsOK(s, Z)
  BY AreaConfigsOK, ZoneConfigsOK
<1>5. \A p \in Offered(s) : SwitchConfig(p[1], p[2]) \in DOMAIN Z
  BY ZoneConfigsOK
<1> HIDE DEF F, G, A, Z
<1>6. ConfigsOK(s, ((F @@ G) @@ A) @@ Z)
  BY <1>2, <1>3, <1>4, ConfigsJoined
<1>7. DOMAIN (((F @@ G) @@ A) @@ Z) = (DOMAIN ((F @@ G) @@ A)) \cup (DOMAIN Z)
  BY Joined
<1> QED
  BY <1>1, <1>5, <1>6, <1>7

-----------------------------------------------------------------------------
(* Queues. *)

\* A queue with one more at its end.
LEMMA Appended ==
  ASSUME NEW S, NEW q \in Seq(S), NEW x \in S, NEW p, p = Append(q, x)
  PROVE  /\ p \in Seq(S) /\ Len(p) = Len(q) + 1 /\ p[Len(q) + 1] = x
         /\ \A i \in DOMAIN q : i \in DOMAIN p /\ p[i] = q[i]
         /\ \A i \in DOMAIN p : i \in DOMAIN q \/ i = Len(q) + 1
OBVIOUS

\* A queue without its first.
LEMMA Popped ==
  ASSUME NEW S, NEW q \in Seq(S), q # <<>>, NEW p, p = Tail(q)
  PROVE  /\ p \in Seq(S) /\ Len(p) = Len(q) - 1 /\ Len(p) \in Nat
         /\ 1 \in DOMAIN q /\ Head(q) = q[1] /\ q[1] \in S
         /\ \A i \in DOMAIN p : i + 1 \in DOMAIN q /\ p[i] = q[i + 1]
         /\ \A i \in DOMAIN q : i > 1 => i - 1 \in DOMAIN p /\ p[i - 1] = q[i]
OBVIOUS

-----------------------------------------------------------------------------
(* What the panel does. *)

\* The queue never holds more than it has room for.
LEMMA RoomIs ==
  ASSUME TypeOK
  PROVE  Room \in Nat /\ Len(events) \in Nat /\ QueueLen \in Nat /\ Room + Len(events) = QueueLen
BY BridgeAssumption DEF Room, TypeOK

\* The queue takes the first events of a step, as many as it has room for.
LEMMA TakenIs ==
  ASSUME TypeOK, NEW E, NEW evs \in Seq(E)
  PROVE  /\ DOMAIN evs = 1..Len(evs) /\ Len(evs) \in Nat /\ \A k \in DOMAIN evs : evs[k] \in E
         /\ DOMAIN Taken(evs) = 1..Len(Taken(evs))
         /\ Len(Taken(evs)) \in Nat /\ Len(Taken(evs)) <= Room
         /\ \A k : k \in DOMAIN Taken(evs) <=> k \in DOMAIN evs /\ k <= Room
<1>1. Room \in Nat
  BY RoomIs
<1>2. DOMAIN evs = 1..Len(evs) /\ Len(evs) \in Nat /\ \A k \in DOMAIN evs : evs[k] \in E
  OBVIOUS
<1>3. CASE Len(evs) <= Room
  BY <1>1, <1>2, <1>3 DEF Taken
<1>4. CASE ~(Len(evs) <= Room)
  <2>1. Taken(evs) = SubSeq(evs, 1, Room)
    BY <1>4 DEF Taken
  <2>2. DOMAIN Taken(evs) = 1..Room /\ Len(Taken(evs)) = Room
    BY <1>1, <1>2, <1>4, <2>1
  <2> QED
    BY <1>1, <1>2, <1>4, <2>2
<1> QED
  BY <1>3, <1>4

\* The events of one step of the panel, for the bridge of a session.
LEMMA Emitted ==
  ASSUME TypeOK, NEW evs \in Seq(SiaEvents), Emit(evs)
  PROVE  /\ events' \in Seq(LinkEvent) /\ Len(events') <= QueueLen
         /\ \A i \in DOMAIN events : i \in DOMAIN events' /\ events'[i] = events[i]
         /\ ~session.alive => events' = events
         /\ session.alive =>
              /\ \A k \in DOMAIN evs :
                   k <= Room =>
                     /\ Len(events) + k \in DOMAIN events'
                     /\ events'[Len(events) + k] =
                          [kind |-> "Sia", id |-> session.last, ev |-> evs[k]]
              /\ \A i \in DOMAIN events' :
                   \/ i \in DOMAIN events
                   \/ \E k \in DOMAIN evs : k <= Room /\ i = Len(events) + k
<1>t. /\ events \in Seq(LinkEvent) /\ Len(events) <= QueueLen
      /\ session.last \in Nat /\ session.alive \in BOOLEAN
  BY DEF TypeOK
<1>1. CASE ~session.alive
  <2>1. events' = events
    BY <1>1 DEF Emit
  <2> QED
    BY <1>t, <1>1, <2>1
<1>2. CASE session.alive
  <2> DEFINE taken == Taken(evs)
             new == [i \in DOMAIN taken |-> [kind |-> "Sia", id |-> session.last, ev |-> evs[i]]]
  <2>1. events' = events \o new
    BY <1>2 DEF Emit
  <2>r. Room \in Nat /\ Len(events) \in Nat /\ QueueLen \in Nat /\ Room + Len(events) = QueueLen
    BY RoomIs
  <2>2. /\ DOMAIN taken = 1..Len(taken) /\ Len(taken) \in Nat /\ Len(taken) <= Room
        /\ \A k : k \in DOMAIN taken <=> k \in DOMAIN evs /\ k <= Room
        /\ \A k \in DOMAIN taken : evs[k] \in SiaEvents
    <3> DEFINE E == SiaEvents
    <3>1. evs \in Seq(E)
      OBVIOUS
    <3> HIDE DEF E
    <3>2. /\ \A k \in DOMAIN evs : evs[k] \in E
          /\ DOMAIN Taken(evs) = 1..Len(Taken(evs))
          /\ Len(Taken(evs)) \in Nat /\ Len(Taken(evs)) <= Room
          /\ \A k : k \in DOMAIN Taken(evs) <=> k \in DOMAIN evs /\ k <= Room
      BY <3>1, TakenIs
    <3> QED
      BY <3>2 DEF E
  <2> HIDE DEF taken
  <2>3. \A k \in DOMAIN taken : new[k] \in LinkEvent
    BY <1>t, <2>2 DEF LinkEvent
  <2>4. new \in Seq(LinkEvent) /\ Len(new) = Len(taken)
    <3>1. new \in [1..Len(taken) -> LinkEvent]
      BY <2>2, <2>3
    <3>2. new \in Seq(LinkEvent)
      BY <2>2, <3>1, IsASeq
    <3> QED
      BY <2>2, <3>1, <3>2, LenProperties
  <2>5. ASSUME NEW k \in DOMAIN taken
        PROVE  new[k] = [kind |-> "Sia", id |-> session.last, ev |-> evs[k]]
    OBVIOUS
  <2> HIDE DEF new
  <2>6. /\ events' \in Seq(LinkEvent) /\ Len(events') = Len(events) + Len(taken)
        /\ \A i \in 1..Len(events) : events'[i] = events[i]
        /\ \A k \in 1..Len(taken) : events'[Len(events) + k] = new[k]
    <3>1. Len(new) \in Nat /\ Len(events) \in Nat
      BY <1>t, <2>2, <2>4
    <3>2. /\ events \o new \in Seq(LinkEvent) /\ Len(events \o new) = Len(events) + Len(new)
          /\ \A i \in 1..Len(events) + Len(new) :
               (events \o new)[i] = IF i <= Len(events) THEN events[i] ELSE new[i - Len(events)]
      <4>1. events \in Seq(LinkEvent) /\ new \in Seq(LinkEvent)
        BY <1>t, <2>4
      <4> QED
        BY ONLY <4>1, ConcatProperties
    <3>3. \A k \in 1..Len(taken) : /\ Len(events) + k \in 1..Len(events) + Len(new)
                                /\ ~(Len(events) + k <= Len(events))
                                /\ Len(events) + k - Len(events) = k
      BY <2>4, <3>1
    <3>4. \A i \in 1..Len(events) : i \in 1..Len(events) + Len(new) /\ i <= Len(events)
      BY <3>1
    <3> QED
      BY <2>1, <2>4, <3>2, <3>3, <3>4
  <2>7. /\ DOMAIN events = 1..Len(events) /\ Len(events) \in Nat
        /\ DOMAIN events' = 1..(Len(events) + Len(taken))
    BY <1>t, <2>6
  <2>8. ASSUME NEW i \in DOMAIN events'
        PROVE  i \in DOMAIN events \/ \E k \in DOMAIN taken : i = Len(events) + k
    <3>1. CASE i <= Len(events)
      BY <2>7, <3>1
    <3>2. CASE i > Len(events)
      <4>1. i - Len(events) \in DOMAIN taken /\ i = Len(events) + (i - Len(events))
        BY <2>2, <2>7, <3>2
      <4> QED
        BY <4>1
    <3> QED
      BY <2>7, <3>1, <3>2
  <2>9. \A k \in DOMAIN taken : Len(events) + k \in DOMAIN events'
    BY <2>2, <2>7
  <2>10. \A i \in DOMAIN events : i \in DOMAIN events'
    BY <2>2, <2>7
  <2>11. Len(events') <= QueueLen
    BY <2>r, <2>2, <2>6
  <2> QED
    BY <1>2, <2>2, <2>5, <2>6, <2>7, <2>8, <2>9, <2>10, <2>11
<1> QED
  BY <1>t, <1>1, <1>2

\* With room for one event at most, the second of two makes no difference.
LEMMA OneTaken ==
  ASSUME TypeOK, Room <= 1, NEW x \in SiaEvents, NEW y \in SiaEvents, Emit(<<x, y>>)
  PROVE  Emit(<<x>>)
<1>1. Room \in Nat
  BY RoomIs
<1> DEFINE both == <<x, y>>
           one  == <<x>>
<1>2. /\ both \in Seq(SiaEvents) /\ one \in Seq(SiaEvents) /\ Emit(both)
      /\ DOMAIN both = {1, 2} /\ DOMAIN one = {1} /\ both[1] = x /\ one[1] = x
  OBVIOUS
<1> HIDE DEF both, one
<1>3. /\ \A k : k \in DOMAIN Taken(both) <=> k \in DOMAIN both /\ k <= Room
      /\ \A k : k \in DOMAIN Taken(one) <=> k \in DOMAIN one /\ k <= Room
  <2>1. \A k : k \in DOMAIN Taken(both) <=> k \in DOMAIN both /\ k <= Room
    BY <1>2, TakenIs
  <2>2. \A k : k \in DOMAIN Taken(one) <=> k \in DOMAIN one /\ k <= Room
    BY <1>2, TakenIs
  <2> QED
    BY <2>1, <2>2
<1>4. DOMAIN Taken(both) = DOMAIN Taken(one) /\ \A k \in DOMAIN Taken(one) : both[k] = one[k]
  <2>1. ASSUME NEW k PROVE k \in DOMAIN both /\ k <= Room <=> k \in DOMAIN one /\ k <= Room
    BY <1>1, <1>2
  <2>2. ASSUME NEW k PROVE k \in DOMAIN Taken(both) <=> k \in DOMAIN Taken(one)
    BY <1>3, <2>1
  <2>3. DOMAIN Taken(both) = DOMAIN Taken(one)
    BY <2>2
  <2> QED
    BY <1>2, <1>3, <2>3
<1>5. [i \in DOMAIN Taken(both) |-> [kind |-> "Sia", id |-> session.last, ev |-> both[i]]]
        = [i \in DOMAIN Taken(one) |-> [kind |-> "Sia", id |-> session.last, ev |-> one[i]]]
  BY <1>4
<1>6. Emit(one)
  BY <1>2, <1>5 DEF Emit
<1> QED
  BY <1>6 DEF one

\* What the panel does by itself, with a session or without.
PanelSteps ==
  \/ \E z \in DOMAIN panel.zones : PanelOpens(z) \/ PanelCloses(z) \/ PanelLosesZone(z)
  \/ \E a \in Areas : PanelArms(a)
  \/ \E b \in Alerts : PanelAlert(b)

\* What such a step tells: a zone that moves is in an event, unless the queue was
\* full, an alarm too.
Told ==
  /\ PanelOK' /\ session' = session
  /\ events' \in Seq(LinkEvent) /\ Len(events') <= QueueLen
  /\ \A i \in DOMAIN events : i \in DOMAIN events' /\ events'[i] = events[i]
  /\ \A i \in DOMAIN events' :
       i \notin DOMAIN events =>
         session.alive /\ events'[i].kind = "Sia" /\ events'[i].id = session.last
  /\ DOMAIN panel'.zones \subseteq DOMAIN panel.zones
  /\ session.alive => DOMAIN panel'.zones = DOMAIN panel.zones
  /\ session.alive =>
       \A z \in DOMAIN panel'.zones \ unheard' :
          /\ \A i \in DOMAIN events' :
               i \notin DOMAIN events /\ Moves(events'[i], z) =>
                 EventInput(events'[i].ev) = ZoneInput(panel'.zones[z].input)
          /\ \/ panel'.zones[z].input = panel.zones[z].input /\ z \notin unheard
             \/ \E i \in DOMAIN events' : i \notin DOMAIN events /\ Moves(events'[i], z)
  /\ alarmed' \subseteq Areas /\ unheard' \subseteq Zones
  /\ \A a \in alarmed' :
       /\ panel'.modes[a] # "0"
       /\ \/ a \in alarmed
          \/ Seen /\ \E i \in DOMAIN events' : i \notin DOMAIN events /\ Rings(events'[i], a)

\* The event moves its zone, if it is one of those, and nothing else moves.
OnlyMoves(code, address) ==
  /\ DOMAIN panel'.zones = DOMAIN panel.zones
  /\ \A y \in DOMAIN panel.zones :
       IF code \in ZONE_ALARM_CODES \cup {"ZO", "ZC"} /\ y = address
       THEN ZoneInput(panel'.zones[y].input) = IF code = "ZC" THEN "closed" ELSE "open"
       ELSE panel'.zones[y].input = panel.zones[y].input
\* A zone counts as told of if it did before or its event finds room.
Heard(code, address) ==
  /\ unheard' \subseteq Zones
  /\ \A y \in DOMAIN panel.zones \ unheard' :
       IF code \in ZONE_ALARM_CODES \cup {"ZO", "ZC"} /\ y = address
       THEN session.alive => Room > 0
       ELSE y \notin unheard
\* No alarm is counted that was not, and none in an area that is unset.
AlarmsHold == alarmed' \subseteq alarmed /\ \A a \in alarmed' : panel'.modes[a] # "0"

\* One event of a zone that opens or closes, or of neither.
LEMMA ToldByOne ==
  ASSUME TypeOK, PanelOK', session' = session,
         NEW code \in {"ZO", "ZC", "BA", "OG", "CG", "AT"}, NEW address \in Nat, Emit(<<Event(code, address)>>),
         OnlyMoves(code, address), Heard(code, address), AlarmsHold
  PROVE  Told
<1> DEFINE e == Event(code, address)
<1>1. e.code = code /\ e.address = address /\ e \in SiaEvents
  BY DEF Event, SiaEvents
<1> HIDE DEF e
<1>2. <<e>> \in Seq(SiaEvents) /\ DOMAIN <<e>> = {1} /\ <<e>>[1] = e /\ Len(<<e>>) = 1
  BY <1>1
<1>3. Emit(<<e>>)
  BY DEF e
<1> DEFINE c == [kind |-> "Sia", id |-> session.last, ev |-> e]
<1>4. c.kind = "Sia" /\ c.id = session.last /\ c.ev = e
  OBVIOUS
<1> HIDE DEF c
<1>5. /\ events' \in Seq(LinkEvent) /\ Len(events') <= QueueLen
      /\ \A i \in DOMAIN events : i \in DOMAIN events' /\ events'[i] = events[i]
      /\ \A i \in DOMAIN events' : i \notin DOMAIN events => session.alive
      /\ session.alive => /\ Room > 0 => Len(events) + 1 \in DOMAIN events'
                          /\ Len(events) + 1 \in DOMAIN events' => events'[Len(events) + 1] = c
                          /\ \A i \in DOMAIN events' :
                               i \notin DOMAIN events => i = Len(events) + 1
  <2> DEFINE s == <<e>>
  <2>0. /\ s \in Seq(SiaEvents) /\ Emit(s)
        /\ DOMAIN s = {1} /\ s[1] = e /\ Len(s) = 1
    BY <1>2, <1>3
  <2> HIDE DEF s
  <2>1. CASE session.alive
    <3>1. /\ events' \in Seq(LinkEvent) /\ Len(events') <= QueueLen
          /\ \A i \in DOMAIN events : i \in DOMAIN events' /\ events'[i] = events[i]
          /\ \A k \in DOMAIN s :
               k <= Room =>
                 /\ Len(events) + k \in DOMAIN events'
                 /\ events'[Len(events) + k] = [kind |-> "Sia", id |-> session.last, ev |-> s[k]]
          /\ \A i \in DOMAIN events' :
               i \in DOMAIN events \/ \E k \in DOMAIN s : k <= Room /\ i = Len(events) + k
      BY <2>0, <2>1, Emitted
    <3>2. Room \in Nat /\ Len(events) + 1 \notin DOMAIN events
      BY RoomIs DEF TypeOK
    <3>3. /\ Room > 0 => 1 <= Room
          /\ 1 \in DOMAIN s
          /\ \A i \in DOMAIN events' : i \notin DOMAIN events => 1 <= Room /\ i = Len(events) + 1
      BY <2>0, <3>1, <3>2
    <3>4. 1 <= Room => Len(events) + 1 \in DOMAIN events' /\ events'[Len(events) + 1] = c
      BY <2>0, <3>1, <3>3 DEF c
    <3> QED
      BY <2>1, <3>1, <3>2, <3>3, <3>4
  <2>2. CASE ~session.alive
    BY <2>0, <2>2, Emitted
  <2> QED
    BY <2>1, <2>2
<1>6. Len(events) + 1 \notin DOMAIN events
  BY DEF TypeOK
<1>7. \A i \in DOMAIN events' : i \notin DOMAIN events => events'[i] = c
  BY <1>5
<1>8. EventInput(e) = IF code = "ZC" THEN "closed" ELSE "open"
  BY <1>1 DEF EventInput
<1>9. alarmed' \subseteq Areas /\ unheard' \subseteq Zones
  BY DEF TypeOK, AlarmsHold, Heard
<1>10. ASSUME session.alive, NEW z \in DOMAIN panel.zones, z \notin unheard'
       PROVE  /\ \A i \in DOMAIN events' :
                   i \notin DOMAIN events /\ Moves(events'[i], z) =>
                     EventInput(events'[i].ev) = ZoneInput(panel'.zones[z].input)
              /\ \/ panel'.zones[z].input = panel.zones[z].input /\ z \notin unheard
                 \/ \E i \in DOMAIN events' : i \notin DOMAIN events /\ Moves(events'[i], z)
  <2> DEFINE moved == code \in ZONE_ALARM_CODES \cup {"ZO", "ZC"} /\ z = address
  <2>1. Moves(c, z) <=> moved
    BY <1>1, <1>4 DEF Moves
  <2>2. CASE moved
    <3>1. ZoneInput(panel'.zones[z].input) = EventInput(e)
      BY <1>8, <1>10, <2>2 DEF OnlyMoves
    <3>2. Room > 0
      BY <1>10, <2>2 DEF Heard
    <3> HIDE DEF moved
    <3> QED
      BY <1>4, <1>5, <1>6, <1>7, <1>10, <2>1, <2>2, <3>1, <3>2
  <2>3. CASE ~moved
    <3>1. panel'.zones[z].input = panel.zones[z].input /\ z \notin unheard
      BY <1>10, <2>3 DEF OnlyMoves, Heard
    <3> HIDE DEF moved
    <3> QED
      BY <1>7, <1>10, <2>1, <2>3, <3>1
  <2> QED
    BY <2>2, <2>3
<1> QED
  BY <1>4, <1>5, <1>7, <1>9, <1>10 DEF Told, OnlyMoves, AlarmsHold

\* Each step of the panel tells what it did, and the bridge is not disturbed.
LEMMA PanelStep ==
  ASSUME TypeOK, AlarmsAreKept, PanelSteps
  PROVE  Told /\ UNCHANGED <<bridgeVars, mqttVars>>
<1> USE DEF bridgeVars, mqttVars
<1>p. /\ PanelOK /\ DOMAIN panel.zones \subseteq Nat /\ alarmed \subseteq Areas
      /\ DOMAIN panel.zones \subseteq Zones /\ unheard \subseteq Zones /\ Len(events) <= QueueLen
  BY BridgeAssumption DEF TypeOK, PanelOK, U32
<1>r. Room \in Nat
  BY RoomIs
<1>h. ASSUME NEW z \in DOMAIN panel.zones, Tell(z), NEW code \in {"ZO", "ZC"}
      PROVE  Heard(code, z)
  BY <1>p, <1>r, <1>h DEF Tell, Heard
<1>q. ASSUME unheard' = unheard, NEW code \in {"OG", "CG", "AT"}
      PROVE  Heard(code, 0)
  BY <1>p, <1>q DEF Heard, ZONE_ALARM_CODES
<1>a. \A a \in alarmed : panel.modes[a] # "0"
  BY DEF AlarmsAreKept, IsSet
<1>1. ASSUME NEW z \in DOMAIN panel.zones, PanelCloses(z) PROVE Told
  <2>1. /\ panel' = [panel EXCEPT !.zones[z].input = "0"] /\ session' = session
        /\ Emit(<<Event("ZC", z)>>) /\ alarmed' = alarmed /\ Tell(z)
    BY <1>1 DEF PanelCloses
  <2>2. /\ DOMAIN panel'.zones = DOMAIN panel.zones /\ PanelOK' /\ panel'.modes = panel.modes
        /\ panel'.zones[z].input = "0"
        /\ \A y \in DOMAIN panel.zones : y # z => panel'.zones[y].input = panel.zones[y].input
    BY <1>p, <1>1, <2>1 DEF PanelOK, NewPanel
  <2>3. ZoneInput(panel'.zones[z].input) = "closed"
    BY <2>2 DEF ZoneInput
  <2>4. z \in Nat
    BY <1>p, <1>1
  <2>5. OnlyMoves("ZC", z)
    BY <2>2, <2>3 DEF OnlyMoves
  <2>6. AlarmsHold
    BY <1>a, <2>1, <2>2 DEF AlarmsHold
  <2> QED
    BY <1>h, <2>1, <2>2, <2>4, <2>5, <2>6, ToldByOne
<1>2. ASSUME NEW a \in Areas, PanelArms(a) PROVE Told
  <2>1. /\ panel' = [panel EXCEPT !.modes[a] = IF IsSet(a) THEN "0" ELSE "3"] /\ session' = session
        /\ Emit(<<Event(IF IsSet(a) THEN "OG" ELSE "CG", 0)>>) /\ alarmed' = alarmed \ {a}
        /\ unheard' = unheard
    BY <1>2 DEF PanelArms
  <2>2. /\ DOMAIN panel'.zones = DOMAIN panel.zones /\ PanelOK' /\ panel'.zones = panel.zones
        /\ \A b \in Areas : b # a => panel'.modes[b] = panel.modes[b]
    BY <1>p, <1>2, <2>1 DEF PanelOK, NewPanel
  <2>3. AlarmsHold
    BY <1>p, <1>a, <2>1, <2>2 DEF AlarmsHold
  <2>4. CASE IsSet(a)
    <3>1. OnlyMoves("OG", 0)
      BY <2>2 DEF OnlyMoves, ZONE_ALARM_CODES
    <3>2. Emit(<<Event("OG", 0)>>)
      BY <2>1, <2>4
    <3> QED
      BY <1>q, <2>1, <2>2, <2>3, <3>1, <3>2, ToldByOne
  <2>5. CASE ~IsSet(a)
    <3>1. OnlyMoves("CG", 0)
      BY <2>2 DEF OnlyMoves, ZONE_ALARM_CODES
    <3>2. Emit(<<Event("CG", 0)>>)
      BY <2>1, <2>5
    <3> QED
      BY <1>q, <2>1, <2>2, <2>3, <3>1, <3>2, ToldByOne
  <2> QED
    BY <2>4, <2>5
<1>3. ASSUME NEW b \in Alerts, PanelAlert(b) PROVE Told
  <2>1. /\ panel' = [panel EXCEPT !.alerts.input = @ \cup {b}] /\ session' = session
        /\ Emit(<<Event("AT", 0)>>) /\ alarmed' = alarmed /\ unheard' = unheard
    BY <1>3 DEF PanelAlert
  <2>2. PanelOK' /\ panel'.zones = panel.zones /\ panel'.modes = panel.modes
    BY <1>p, <2>1 DEF PanelOK, NewPanel
  <2>3. OnlyMoves("AT", 0)
    BY <2>2 DEF OnlyMoves, ZONE_ALARM_CODES
  <2>4. AlarmsHold
    BY <1>a, <2>1, <2>2 DEF AlarmsHold
  <2> QED
    BY <1>q, <2>1, <2>2, <2>3, <2>4, ToldByOne
<1>4. ASSUME NEW z \in DOMAIN panel.zones, PanelLosesZone(z) PROVE Told
  <2>1. /\ panel' = [panel EXCEPT !.zones = [y \in DOMAIN panel.zones \ {z} |-> panel.zones[y]]]
        /\ session' = session /\ ~session.alive /\ events' = events /\ alarmed' = alarmed
        /\ unheard' = unheard
    BY <1>4 DEF PanelLosesZone
  <2>2. /\ DOMAIN panel'.zones = DOMAIN panel.zones \ {z} /\ PanelOK' /\ panel'.modes = panel.modes
    BY <1>p, <2>1 DEF PanelOK, NewPanel
  <2>3. events' \in Seq(LinkEvent)
    BY <2>1 DEF TypeOK
  <2> QED
    BY <1>p, <1>a, <2>1, <2>2, <2>3 DEF Told
<1>5. ASSUME NEW z \in DOMAIN panel.zones, PanelOpens(z) PROVE Told
  <2> DEFINE a == ZoneArea[z]
             ZO == Event("ZO", z)
             BA == Event("BA", z)
  <2>0. a \in Areas /\ z \in Nat
    BY <1>p, <1>5, BridgeAssumption DEF PanelOK
  <2>1. /\ panel' = [panel EXCEPT !.zones[z].input = "1"] /\ session' = session
        /\ Emit(IF IsSet(a) THEN <<ZO, BA>> ELSE <<ZO>>)
        /\ Tell(z)
        /\ alarmed' = IF Seen /\ IsSet(a) /\ Room > 1 THEN alarmed \cup {a} ELSE alarmed
    BY <1>5 DEF PanelOpens
  <2>2. /\ DOMAIN panel'.zones = DOMAIN panel.zones /\ PanelOK' /\ panel'.modes = panel.modes
        /\ panel'.zones[z].input = "1"
        /\ \A y \in DOMAIN panel.zones : y # z => panel'.zones[y].input = panel.zones[y].input
    BY <1>p, <1>5, <2>1 DEF PanelOK, NewPanel
  <2>3. ZoneInput(panel'.zones[z].input) = "open"
    BY <2>2 DEF ZoneInput
  <2>e. /\ ZO.code = "ZO" /\ ZO.address = z /\ ZO \in SiaEvents
        /\ BA.code = "BA" /\ BA.address = z /\ BA \in SiaEvents
    <3>1. ZO = [code |-> "ZO", address |-> z] /\ BA = [code |-> "BA", address |-> z]
      BY DEF Event
    <3> HIDE DEF ZO, BA
    <3>2. ZO.code = "ZO" /\ ZO.address = z /\ BA.code = "BA" /\ BA.address = z
      BY <3>1
    <3>3. ZO \in SiaEvents /\ BA \in SiaEvents
      BY <2>0, <3>1 DEF SiaEvents
    <3> QED
      BY <3>2, <3>3
  <2>4. CASE ~IsSet(a) \/ Room <= 1
    <3>1. Emit(<<ZO>>) /\ alarmed' = alarmed
      <4>1. CASE ~IsSet(a)
        BY <2>1, <4>1
      <4>2. CASE IsSet(a) /\ Room <= 1
        <5>1. Emit(<<ZO, BA>>) /\ alarmed' = alarmed
          BY <1>r, <2>1, <4>2
        <5> HIDE DEF ZO, BA
        <5> QED
          BY <2>e, <4>2, <5>1, OneTaken
      <4> QED
        BY <2>4, <4>1, <4>2
    <3>2. OnlyMoves("ZO", z)
      BY <2>2, <2>3 DEF OnlyMoves
    <3>3. AlarmsHold
      BY <1>a, <2>2, <3>1 DEF AlarmsHold
    <3> QED
      BY <1>h, <2>0, <2>1, <2>2, <3>1, <3>2, <3>3, ToldByOne
  <2>5. CASE IsSet(a) /\ Room > 1
    <3>1. /\ ZO.code = "ZO" /\ ZO.address = z /\ ZO \in SiaEvents
          /\ BA.code = "BA" /\ BA.address = z /\ BA \in SiaEvents
      BY <2>e
    <3> HIDE DEF ZO, BA
    <3>2. Emit(<<ZO, BA>>)
      BY <2>1, <2>5
    <3>3. /\ <<ZO, BA>> \in Seq(SiaEvents) /\ DOMAIN <<ZO, BA>> = {1, 2}
          /\ <<ZO, BA>>[1] = ZO /\ <<ZO, BA>>[2] = BA /\ Len(<<ZO, BA>>) = 2
      BY <3>1
    <3> DEFINE Sia(e) == [kind |-> "Sia", id |-> session.last, ev |-> e]
    <3>4. \A e : Sia(e).kind = "Sia" /\ Sia(e).id = session.last /\ Sia(e).ev = e
      OBVIOUS
    <3> HIDE DEF Sia
    <3>5. /\ events' \in Seq(LinkEvent) /\ Len(events') <= QueueLen
          /\ \A i \in DOMAIN events : i \in DOMAIN events' /\ events'[i] = events[i]
          /\ ~session.alive => events' = events
          /\ session.alive =>
               /\ Len(events) + 2 \in DOMAIN events' /\ Len(events) + 2 \notin DOMAIN events
               /\ events'[Len(events) + 2] = Sia(BA)
               /\ \A i \in DOMAIN events' :
                    i \notin DOMAIN events => events'[i] = Sia(ZO) \/ events'[i] = Sia(BA)
      <4>1. CASE ~session.alive
        BY <3>2, <3>3, <4>1, Emitted
      <4>2. CASE session.alive
        <5>1. /\ events' \in Seq(LinkEvent) /\ Len(events') <= QueueLen
              /\ \A i \in DOMAIN events : i \in DOMAIN events' /\ events'[i] = events[i]
              /\ \A k \in {1, 2} :
                   /\ Len(events) + k \in DOMAIN events'
                   /\ events'[Len(events) + k] = Sia(<<ZO, BA>>[k])
              /\ \A i \in DOMAIN events' :
                   i \in DOMAIN events \/ \E k \in {1, 2} : i = Len(events) + k
          <6> DEFINE s == <<ZO, BA>>
          <6>1. s \in Seq(SiaEvents) /\ Emit(s) /\ DOMAIN s = {1, 2}
            BY <3>2, <3>3
          <6> HIDE DEF s
          <6>2. /\ events' \in Seq(LinkEvent) /\ Len(events') <= QueueLen
                /\ \A i \in DOMAIN events : i \in DOMAIN events' /\ events'[i] = events[i]
                /\ \A k \in DOMAIN s :
                     k <= Room =>
                       /\ Len(events) + k \in DOMAIN events'
                       /\ events'[Len(events) + k] =
                            [kind |-> "Sia", id |-> session.last, ev |-> s[k]]
                /\ \A i \in DOMAIN events' :
                     i \in DOMAIN events \/ \E k \in DOMAIN s : i = Len(events) + k
            <7>1. s \in Seq(SiaEvents) /\ Emit(s) /\ session.alive
              BY <4>2, <6>1
            <7> QED
              BY ONLY TypeOK, <7>1, Emitted
          <6>3. \A k \in DOMAIN s : Sia(s[k]) = [kind |-> "Sia", id |-> session.last, ev |-> s[k]]
            BY DEF Sia
          <6>4. \A k \in {1, 2} : /\ Len(events) + k \in DOMAIN events'
                                  /\ events'[Len(events) + k] = Sia(s[k])
            <7>1. \A k \in {1, 2} : k <= Room
              BY <1>r, <2>5
            <7> QED
              BY <6>1, <6>2, <6>3, <7>1
          <6> QED
            BY <6>1, <6>2, <6>4 DEF s
        <5>2. Len(events) + 2 \notin DOMAIN events
          BY DEF TypeOK
        <5> QED
          BY <3>3, <4>2, <5>1, <5>2
      <4> QED
        BY <4>1, <4>2
    <3>6. EventInput(ZO) = "open" /\ EventInput(BA) = "open"
      BY <3>1 DEF EventInput
    <3>7. \A y : /\ Moves(Sia(ZO), y) <=> y = z
                 /\ Moves(Sia(BA), y) <=> y = z
      BY <3>1, <3>4 DEF Moves, ZONE_ALARM_CODES
    <3>8. Rings(Sia(BA), a)
      BY <1>5, <3>1, <3>4 DEF Rings
    <3>u. unheard' = unheard \ {z}
      BY <1>r, <2>1, <2>5 DEF Tell
    <3>9. ASSUME session.alive, NEW y \in DOMAIN panel.zones, y \notin unheard'
          PROVE  /\ \A i \in DOMAIN events' :
                      i \notin DOMAIN events /\ Moves(events'[i], y) =>
                        EventInput(events'[i].ev) = ZoneInput(panel'.zones[y].input)
                 /\ \/ panel'.zones[y].input = panel.zones[y].input /\ y \notin unheard
                    \/ \E i \in DOMAIN events' : i \notin DOMAIN events /\ Moves(events'[i], y)
      <4>1. CASE y = z
        BY <2>3, <3>4, <3>5, <3>6, <3>7, <3>9, <4>1
      <4>2. CASE y # z
        BY <2>2, <3>5, <3>7, <3>9, <3>u, <4>2
      <4> QED
        BY <4>1, <4>2
    <3>10. ASSUME NEW b \in alarmed'
           PROVE  /\ panel'.modes[b] # "0" /\ b \in Areas
                  /\ \/ b \in alarmed
                     \/ Seen /\ \E i \in DOMAIN events' : i \notin DOMAIN events /\ Rings(events'[i], b)
      <4>1. CASE b \in alarmed
        BY <1>p, <1>a, <2>2, <4>1
      <4>2. CASE b \notin alarmed
        <5>1. b = a /\ Seen /\ session.alive
          BY <2>1, <3>10, <4>2 DEF Seen
        <5> QED
          BY <2>0, <2>2, <2>5, <3>5, <3>8, <5>1 DEF IsSet
      <4> QED
        BY <4>1, <4>2
    <3>11. \A i \in DOMAIN events' :
             i \notin DOMAIN events =>
               session.alive /\ events'[i].kind = "Sia" /\ events'[i].id = session.last
      BY <3>4, <3>5
    <3>12. unheard' \subseteq Zones
      BY <1>p, <3>u
    <3> HIDE DEF a
    <3> QED
      BY <2>1, <2>2, <3>5, <3>9, <3>10, <3>11, <3>12 DEF Told
  <2> QED
    BY <1>r, <2>4, <2>5
<1>6. UNCHANGED <<bridgeVars, mqttVars>>
  BY DEF PanelSteps, PanelOpens, PanelCloses, PanelLosesZone, PanelArms, PanelAlert
<1> QED
  BY <1>1, <1>2, <1>3, <1>4, <1>5, <1>6 DEF PanelSteps

-----------------------------------------------------------------------------
(* What a handler publishes. *)

\* Messages, not configs, that say of status and alarms what the link has.
HonestFor(l, M) ==
  /\ \A t \in DOMAIN M : t[1] # "config"
  /\ StatusTopic \in DOMAIN M => M[StatusTopic] = IF l.loaded THEN "online" ELSE "offline"
  /\ \A a : AlarmTopic(a) \in DOMAIN M =>
       a \in DOMAIN l.snapshot.areas /\ M[AlarmTopic(a)] = OnOff(l.snapshot.areas[a].triggered)

\* Honest messages that are joined stay honest.
LEMMA HonestJoin ==
  ASSUME NEW l, NEW f, NEW g, HonestFor(l, f), HonestFor(l, g)
  PROVE  HonestFor(l, f @@ g)
<1>1. DOMAIN (f @@ g) = (DOMAIN f) \cup (DOMAIN g)
  BY Joined
<1>2. \A t \in DOMAIN f : (f @@ g)[t] = f[t]
  BY Joined
<1>3. \A t \in DOMAIN g : t \notin DOMAIN f => (f @@ g)[t] = g[t]
  BY Joined
<1>4. StatusTopic \in DOMAIN (f @@ g) =>
        (f @@ g)[StatusTopic] = IF l.loaded THEN "online" ELSE "offline"
  BY <1>1, <1>2, <1>3 DEF HonestFor
<1>5. ASSUME NEW a, AlarmTopic(a) \in DOMAIN (f @@ g)
      PROVE  /\ a \in DOMAIN l.snapshot.areas
             /\ (f @@ g)[AlarmTopic(a)] = OnOff(l.snapshot.areas[a].triggered)
  <2>1. CASE AlarmTopic(a) \in DOMAIN f
    BY <1>2, <2>1 DEF HonestFor
  <2>2. CASE AlarmTopic(a) \notin DOMAIN f
    BY <1>1, <1>3, <1>5, <2>2 DEF HonestFor
  <2> QED
    BY <2>1, <2>2
<1>6. \A t \in DOMAIN (f @@ g) : t[1] # "config"
  BY <1>1 DEF HonestFor
<1> HIDE DEF @@
<1> QED
  BY <1>4, <1>5, <1>6 DEF HonestFor

\* Messages that are about neither.
LEMMA HonestOthers ==
  ASSUME NEW l, NEW M, \A t \in DOMAIN M : t[1] # "config",
         StatusTopic \notin DOMAIN M, \A a : AlarmTopic(a) \notin DOMAIN M
  PROVE  HonestFor(l, M)
BY DEF HonestFor

\* Each kind of message is honest by itself.
LEMMA HonestMessages ==
  ASSUME NEW l, NEW A, NEW Z
  PROVE  /\ HonestFor(l, NoMessages)
         /\ HonestFor(l, Status(l))
         /\ HonestFor(l, AreaMessages(l.snapshot, A))
         /\ HonestFor(l, CommonMessage(l.snapshot))
         /\ HonestFor(l, ZoneMessages(l.snapshot, Z))
         /\ HonestFor(l, AlertMessages(l.snapshot))
<1>1. HonestFor(l, NoMessages)
  <2>1. DOMAIN NoMessages = {}
    BY DEF NoMessages, NoEntries
  <2> QED
    BY <2>1 DEF HonestFor
<1>2. HonestFor(l, Status(l))
  <2>1. /\ DOMAIN Status(l) = {StatusTopic}
        /\ Status(l)[StatusTopic] = IF l.loaded THEN "online" ELSE "offline"
    BY OtherTopics
  <2>2. StatusTopic[1] = "status" /\ \A a : AlarmTopic(a)[1] = "area"
    BY DEF StatusTopic, AlarmTopic
  <2> QED
    BY <2>1, <2>2 DEF HonestFor
<1>3. HonestFor(l, AreaMessages(l.snapshot, A))
  <2> DEFINE M == AreaMessages(l.snapshot, A)
  <2>1. /\ \A t \in DOMAIN M : t[1] = "area"
        /\ \A a \in A \cap DOMAIN l.snapshot.areas :
              M[AlarmTopic(a)] = OnOff(l.snapshot.areas[a].triggered)
        /\ \A a : AlarmTopic(a) \in DOMAIN M => a \in A \cap DOMAIN l.snapshot.areas
    BY AreaTopics
  <2>2. StatusTopic[1] = "status"
    BY DEF StatusTopic
  <2> HIDE DEF M
  <2>3. HonestFor(l, M)
    BY <2>1, <2>2 DEF HonestFor
  <2> QED
    BY <2>3 DEF M
<1>t. StatusTopic[1] = "status" /\ \A a : AlarmTopic(a)[1] = "area" /\ AlarmTopic(a)[3] = "alarm"
  BY DEF StatusTopic, AlarmTopic
<1>4. HonestFor(l, CommonMessage(l.snapshot))
  <2> DEFINE M == CommonMessage(l.snapshot)
  <2>1. \A t \in DOMAIN M : t[1] = "area" /\ t[3] = "mode"
    BY OtherTopics
  <2> HIDE DEF M
  <2>2. HonestFor(l, M)
    BY <1>t, <2>1, HonestOthers
  <2> QED
    BY <2>2 DEF M
<1>5. HonestFor(l, ZoneMessages(l.snapshot, Z))
  <2> DEFINE M == ZoneMessages(l.snapshot, Z)
  <2>1. \A t \in DOMAIN M : t[1] = "zone"
    BY OtherTopics
  <2> HIDE DEF M
  <2>2. HonestFor(l, M)
    BY <1>t, <2>1, HonestOthers
  <2> QED
    BY <2>2 DEF M
<1>6. HonestFor(l, AlertMessages(l.snapshot))
  <2> DEFINE M == AlertMessages(l.snapshot)
  <2>1. \A t \in DOMAIN M : t[1] = "system"
    BY OtherTopics
  <2> HIDE DEF M
  <2>2. HonestFor(l, M)
    BY <1>t, <2>1, HonestOthers
  <2> QED
    BY <2>2 DEF M
<1> QED
  BY <1>1, <1>2, <1>3, <1>4, <1>5, <1>6

\* What publish_all and the end of on_sia send.
AllMessages(l) == Status(l) @@ IF l.loaded THEN SnapshotMessages(l.snapshot) ELSE NoMessages
\* What a handled event has published: the zones and areas it is about.
SiaMessages(l, effect, areas) ==
  ZoneMessages(l.snapshot, effect.zones) @@ AreaMessages(l.snapshot, areas)
  @@ CommonMessage(l.snapshot)
  @@ (IF effect.refresh_alerts THEN AlertMessages(l.snapshot) ELSE NoMessages)

\* All topics together are honest; status is one of them, and every area's alarm.
LEMMA AllIsHonest ==
  ASSUME NEW l
  PROVE  /\ HonestFor(l, AllMessages(l))
         /\ StatusTopic \in DOMAIN AllMessages(l)
         /\ l.loaded => \A a \in DOMAIN l.snapshot.areas : AlarmTopic(a) \in DOMAIN AllMessages(l)
<1> DEFINE S == Status(l)
           A == AreaMessages(l.snapshot, DOMAIN l.snapshot.areas)
           C == CommonMessage(l.snapshot)
           Z == ZoneMessages(l.snapshot, DOMAIN l.snapshot.zones)
           B == AlertMessages(l.snapshot)
           M == IF l.loaded THEN SnapshotMessages(l.snapshot) ELSE NoMessages
<1>1. /\ HonestFor(l, S) /\ HonestFor(l, A) /\ HonestFor(l, C) /\ HonestFor(l, Z)
      /\ HonestFor(l, B) /\ HonestFor(l, NoMessages)
  BY HonestMessages
<1>2. DOMAIN S = {StatusTopic}
  BY OtherTopics
<1>3. \A a \in DOMAIN l.snapshot.areas : AlarmTopic(a) \in DOMAIN A
  BY AreaTopics
<1>4. SnapshotMessages(l.snapshot) = ((A @@ C) @@ Z) @@ B
  BY DEF SnapshotMessages
<1>5. AllMessages(l) = S @@ M
  BY DEF AllMessages
<1> HIDE DEF S, A, C, Z, B
<1>6. HonestFor(l, ((A @@ C) @@ Z) @@ B)
  BY <1>1, HonestJoin
<1>7. HonestFor(l, M)
  BY <1>1, <1>4, <1>6
<1>8. ASSUME NEW a \in DOMAIN l.snapshot.areas PROVE AlarmTopic(a) \in DOMAIN (((A @@ C) @@ Z) @@ B)
  <2>1. AlarmTopic(a) \in DOMAIN (A @@ C)
    BY <1>3, Joined
  <2>2. AlarmTopic(a) \in DOMAIN ((A @@ C) @@ Z)
    BY <2>1, Joined
  <2> QED
    BY <2>2, Joined
<1>9. l.loaded => \A a \in DOMAIN l.snapshot.areas : AlarmTopic(a) \in DOMAIN M
  BY <1>4, <1>8
<1> HIDE DEF M
<1>10. DOMAIN (S @@ M) = (DOMAIN S) \cup (DOMAIN M)
  BY Joined
<1>11. HonestFor(l, S @@ M)
  BY <1>1, <1>7, HonestJoin
<1> QED
  BY <1>2, <1>5, <1>9, <1>10, <1>11

\* What an event has published is honest, and has the alarms of its areas.
LEMMA SiaIsHonest ==
  ASSUME NEW l, NEW effect, NEW areas
  PROVE  /\ HonestFor(l, SiaMessages(l, effect, areas))
         /\ \A a \in areas \cap DOMAIN l.snapshot.areas :
              AlarmTopic(a) \in DOMAIN SiaMessages(l, effect, areas)
<1> DEFINE Z == ZoneMessages(l.snapshot, effect.zones)
           A == AreaMessages(l.snapshot, areas)
           C == CommonMessage(l.snapshot)
           B == IF effect.refresh_alerts THEN AlertMessages(l.snapshot) ELSE NoMessages
<1>1. HonestFor(l, Z) /\ HonestFor(l, A) /\ HonestFor(l, C) /\ HonestFor(l, B)
  BY HonestMessages
<1>2. \A a \in areas \cap DOMAIN l.snapshot.areas : AlarmTopic(a) \in DOMAIN A
  BY AreaTopics
<1>3. SiaMessages(l, effect, areas) = ((Z @@ A) @@ C) @@ B
  BY DEF SiaMessages
<1> HIDE DEF Z, A, C, B
<1>4. HonestFor(l, ((Z @@ A) @@ C) @@ B)
  BY <1>1, HonestJoin
<1>5. ASSUME NEW a \in areas \cap DOMAIN l.snapshot.areas
      PROVE  AlarmTopic(a) \in DOMAIN (((Z @@ A) @@ C) @@ B)
  <2>1. AlarmTopic(a) \in DOMAIN (Z @@ A)
    BY <1>2, Joined
  <2>2. AlarmTopic(a) \in DOMAIN ((Z @@ A) @@ C)
    BY <2>1, Joined
  <2> QED
    BY <2>2, Joined
<1> QED
  BY <1>3, <1>4, <1>5

\* Nothing new is pending for the topic.
SameAt(t) ==
  /\ t \in DOMAIN outbox' <=> t \in DOMAIN outbox
  /\ t \in DOMAIN outbox => outbox'[t] = outbox[t]

\* A config on record is pending, or was on record before if none was forgotten.
Recorded(forgot) ==
  \A t \in DOMAIN discovery' :
     \/ t \in DOMAIN outbox' /\ outbox'[t] = discovery'[t]
     \/ ~forgot /\ t \in DOMAIN discovery /\ discovery[t] = discovery'[t] /\ SameAt(t)

\* A step of the bridge publishes M, and the configs if they are due.
Published(M, forgot) ==
  /\ HonestFor(link', M)
  /\ retained' = retained
  /\ \/ discovery' = discovery
     \/ discovery' = NoMessages
     \/ link'.loaded /\ discovery' = DiscoveryMessages(link'.snapshot)
  /\ mqtt_up' =>
       /\ \A t \in DOMAIN M : t \in DOMAIN outbox' /\ outbox'[t] = M[t]
       /\ \A t : t[1] # "config" /\ t \notin DOMAIN M => SameAt(t)
       /\ Recorded(forgot)

\* What is on record as discovered are configs only.
ConfigTopics(f) == \A t \in DOMAIN f : t[1] = "config"

\* So is what a snapshot discovers.
LEMMA DiscoveryTopics ==
  ASSUME NEW s, SnapshotOK(s) PROVE ConfigTopics(DiscoveryMessages(s))
BY DiscoveryOK DEF ConfigsOK, ConfigOK, ConfigTopics

\* The changes to the record are what it lacks of the desired configs.
LEMMA ChangesAre ==
  ASSUME NEW disc, NEW desired, ConfigTopics(disc), ConfigTopics(desired)
  PROVE  /\ ConfigTopics(Changes(disc, desired))
         /\ \A t \in DOMAIN desired :
              \/ t \in DOMAIN Changes(disc, desired) /\ Changes(disc, desired)[t] = desired[t]
              \/ /\ t \notin DOMAIN Changes(disc, desired)
                 /\ t \in DOMAIN disc /\ disc[t] = desired[t]
<1> DEFINE G == {t \in DOMAIN disc : t \notin DOMAIN desired}
           C == {t \in DOMAIN desired : t \in DOMAIN disc => disc[t] # desired[t]}
           F == [t \in G |-> Empty]
           H == [t \in C |-> desired[t]]
<1>1. Changes(disc, desired) = F @@ H
  BY DEF Changes
<1>2. DOMAIN F = G /\ DOMAIN H = C /\ \A t \in C : H[t] = desired[t]
  OBVIOUS
<1>3. \A t \in G : t \in DOMAIN disc /\ t \notin DOMAIN desired
  OBVIOUS
<1>4. \A t \in C : t \in DOMAIN desired
  OBVIOUS
<1>5. \A t \in DOMAIN desired : t \notin C => t \in DOMAIN disc /\ disc[t] = desired[t]
  OBVIOUS
<1> HIDE DEF G, C, F, H
<1>6. DOMAIN (F @@ H) = G \cup C
  BY <1>2, Joined
<1>7. \A t \in C : t \notin G => (F @@ H)[t] = H[t]
  <2>1. \A t \in DOMAIN H : t \notin DOMAIN F => (F @@ H)[t] = H[t]
    BY Joined
  <2> QED
    BY <1>2, <2>1
<1>8. ConfigTopics(F @@ H)
  BY <1>3, <1>4, <1>6 DEF ConfigTopics
<1>9. ASSUME NEW t \in DOMAIN desired
      PROVE  \/ t \in DOMAIN (F @@ H) /\ (F @@ H)[t] = desired[t]
             \/ t \notin DOMAIN (F @@ H) /\ t \in DOMAIN disc /\ disc[t] = desired[t]
  <2>1. t \notin G
    BY <1>3
  <2>2. CASE t \in C
    BY <1>2, <1>6, <1>7, <2>1, <2>2
  <2>3. CASE t \notin C
    BY <1>5, <1>6, <2>1, <2>3
  <2> QED
    BY <2>2, <2>3
<1> QED
  BY <1>1, <1>8, <1>9

\* publish_discovery with messages before or after it: published, and on record.
LEMMA AnnouncedIs ==
  ASSUME NEW M, NEW disc, NEW forgot \in BOOLEAN, Announce(link', mqtt_up', disc, M),
         IF forgot THEN disc = NoMessages ELSE disc = discovery,
         retained' = retained, mqtt_up' \in BOOLEAN, HonestFor(link', M), SnapshotOK(link'.snapshot),
         ConfigTopics(discovery)
  PROVE  /\ Published(M, forgot)
         /\ mqtt_up' /\ link'.loaded => discovery' = DiscoveryMessages(link'.snapshot)
<1> DEFINE desired == IF link'.loaded THEN DiscoveryMessages(link'.snapshot) ELSE disc
           C == Changes(disc, desired)
<1>1. /\ discovery' = IF mqtt_up' THEN desired ELSE disc
      /\ mqtt_up' => outbox' = (M @@ C) @@ outbox
  BY DEF Announce, Publish
<1>2. ConfigTopics(disc) /\ (disc = NoMessages \/ disc = discovery)
  <2>1. DOMAIN NoMessages = {}
    BY DEF NoMessages, NoEntries
  <2> QED
    BY <2>1 DEF ConfigTopics
<1>3. ConfigTopics(desired)
  BY <1>2, DiscoveryTopics
<1>4. \/ desired = disc
      \/ link'.loaded /\ desired = DiscoveryMessages(link'.snapshot)
  <2>1. CASE link'.loaded
    BY <2>1
  <2>2. CASE ~link'.loaded
    BY <2>2
  <2> QED
    BY <2>1, <2>2
<1>5. mqtt_up' /\ link'.loaded => discovery' = DiscoveryMessages(link'.snapshot)
  BY <1>1
<1> HIDE DEF desired
<1>6. /\ ConfigTopics(C)
      /\ \A t \in DOMAIN desired :
           \/ t \in DOMAIN C /\ C[t] = desired[t]
           \/ t \notin DOMAIN C /\ t \in DOMAIN disc /\ disc[t] = desired[t]
  BY <1>2, <1>3, ChangesAre
<1> HIDE DEF C
<1>7. \/ discovery' = discovery
      \/ discovery' = NoMessages
      \/ link'.loaded /\ discovery' = DiscoveryMessages(link'.snapshot)
  BY <1>1, <1>2, <1>4
<1>8. ASSUME mqtt_up'
      PROVE  /\ \A t \in DOMAIN M : t \in DOMAIN outbox' /\ outbox'[t] = M[t]
             /\ \A t : t[1] # "config" /\ t \notin DOMAIN M => SameAt(t)
             /\ Recorded(forgot)
  <2> DEFINE N == M @@ C
  <2>1. outbox' = N @@ outbox /\ discovery' = desired
    BY <1>1, <1>8
  <2>2. DOMAIN N = (DOMAIN M) \cup (DOMAIN C)
    BY Joined
  <2>3. /\ \A t \in DOMAIN M : N[t] = M[t]
        /\ \A t \in DOMAIN C : t \notin DOMAIN M => N[t] = C[t]
    BY Joined
  <2> HIDE DEF N
  <2>4. DOMAIN outbox' = (DOMAIN N) \cup (DOMAIN outbox)
    BY <2>1, Joined
  <2>5. /\ \A t \in DOMAIN N : outbox'[t] = N[t]
        /\ \A t \in DOMAIN outbox : t \notin DOMAIN N => outbox'[t] = outbox[t]
    <3>1. /\ \A t \in DOMAIN N : (N @@ outbox)[t] = N[t]
          /\ \A t \in DOMAIN outbox : t \notin DOMAIN N => (N @@ outbox)[t] = outbox[t]
      BY Joined
    <3> QED
      BY <2>1, <3>1
  <2>6. \A t : t \notin DOMAIN N => SameAt(t)
    BY <2>4, <2>5 DEF SameAt
  <2>7. \A t \in DOMAIN M : t[1] # "config"
    BY DEF HonestFor
  <2>8. \A t \in DOMAIN C : t[1] = "config" /\ t \notin DOMAIN M
    BY <1>6, <2>7 DEF ConfigTopics
  <2>9. \A t \in DOMAIN M : t \in DOMAIN outbox' /\ outbox'[t] = M[t]
    BY <2>2, <2>3, <2>4, <2>5
  <2>10. \A t \in DOMAIN C : t \in DOMAIN outbox' /\ outbox'[t] = C[t]
    BY <2>2, <2>3, <2>4, <2>5, <2>8
  <2>11. \A t : t[1] # "config" /\ t \notin DOMAIN M => SameAt(t)
    BY <2>2, <2>6, <2>8
  <2>12. ASSUME NEW t \in DOMAIN discovery'
         PROVE  \/ t \in DOMAIN outbox' /\ outbox'[t] = discovery'[t]
                \/ ~forgot /\ t \in DOMAIN discovery /\ discovery[t] = discovery'[t] /\ SameAt(t)
    <3>1. CASE t \in DOMAIN C /\ C[t] = desired[t]
      BY <2>1, <2>10, <3>1
    <3>2. CASE t \notin DOMAIN C /\ t \in DOMAIN disc /\ disc[t] = desired[t]
      <4>1. ~forgot /\ disc = discovery
        <5>1. DOMAIN NoMessages = {}
          BY DEF NoMessages, NoEntries
        <5> QED
          BY <3>2, <5>1
      <4>2. t \notin DOMAIN M
        BY <1>3, <2>1, <2>7, <2>12 DEF ConfigTopics
      <4>3. SameAt(t)
        BY <2>2, <2>6, <3>2, <4>2
      <4> QED
        BY <2>1, <3>2, <4>1, <4>3
    <3> QED
      BY <1>6, <2>1, <2>12, <3>1, <3>2
  <2> QED
    BY <2>9, <2>11, <2>12 DEF Recorded
<1> QED
  BY <1>5, <1>7, <1>8 DEF Published

\* Messages published with no change of the record.
LEMMA SaidIs ==
  ASSUME NEW M, Publish(mqtt_up', M), discovery' = discovery, retained' = retained,
         mqtt_up' \in BOOLEAN, HonestFor(link', M), ConfigTopics(discovery)
  PROVE  Published(M, FALSE)
<1>1. mqtt_up' => outbox' = M @@ outbox
  BY DEF Publish
<1>2. /\ DOMAIN (M @@ outbox) = (DOMAIN M) \cup (DOMAIN outbox)
      /\ \A t \in DOMAIN M : (M @@ outbox)[t] = M[t]
      /\ \A t \in DOMAIN outbox : t \notin DOMAIN M => (M @@ outbox)[t] = outbox[t]
  BY Joined
<1>3. ASSUME mqtt_up'
      PROVE  /\ \A t \in DOMAIN M : t \in DOMAIN outbox' /\ outbox'[t] = M[t]
             /\ \A t : t \notin DOMAIN M => SameAt(t)
  BY <1>1, <1>2, <1>3 DEF SameAt
<1>4. \A t \in DOMAIN discovery : t \notin DOMAIN M
  BY DEF HonestFor, ConfigTopics
<1>5. mqtt_up' => Recorded(FALSE)
  BY <1>3, <1>4 DEF Recorded
<1> QED
  BY <1>3, <1>5 DEF Published

\* Nothing is published, and the broker sees nothing.
LEMMA QuietIs ==
  ASSUME discovery' = discovery, outbox' = outbox, retained' = retained
  PROVE  Published(NoMessages, FALSE)
<1>1. HonestFor(link', NoMessages) /\ DOMAIN NoMessages = {}
  BY HonestMessages DEF NoMessages, NoEntries
<1>2. \A t : SameAt(t)
  BY DEF SameAt
<1>3. Recorded(FALSE)
  BY <1>2 DEF Recorded
<1> QED
  BY <1>1, <1>2, <1>3 DEF Published

-----------------------------------------------------------------------------
(* The steps of the bridge and the broker in which no link event is handled. *)

\* No zone has moved and no area was set.
SamePanel ==
  /\ PanelOK' /\ panel'.modes = panel.modes /\ DOMAIN panel'.zones = DOMAIN panel.zones
  /\ \A z \in DOMAIN panel.zones : panel'.zones[z].input = panel.zones[z].input
\* Nor did session, events or what is known of alarms and drops change.
SameWorld ==
  /\ SamePanel /\ session' = session /\ events' = events
  /\ alarmed' = alarmed /\ unheard' = unheard

\* A link of the right type.
LinkOK(l) ==
  /\ DOMAIN l = DOMAIN NoLink
  /\ l.loaded \in BOOLEAN /\ l.read \in BOOLEAN /\ SnapshotOK(l.snapshot)

\* The areas and zones of a reply have been applied.
AreasFrom(reply) ==
  /\ DOMAIN link'.snapshot.areas = AreaIds(reply)
  /\ \A a \in AreaIds(reply) :
       WasTriggered(link'.snapshot.areas, a) <=>
         WasTriggered(link.snapshot.areas, a) /\ ArmMode(RowOfArea(reply, a).MODE) # "Unset"
ZonesFrom(reply) ==
  /\ DOMAIN link'.snapshot.zones = ZoneIds(reply)
  /\ \A z \in ZoneIds(reply) :
       /\ link'.snapshot.zones[z].input = ZoneInput(RowOfZone(reply, z).INPUT)
       /\ RowOfZone(reply, z).AREA \in U32 =>
            link'.snapshot.zones[z].area = RowOfZone(reply, z).AREA
       /\ z \in DOMAIN link.snapshot.zones =>
            link.snapshot.zones[z].allowed \subseteq link'.snapshot.zones[z].allowed

\* Where the areas, the zones and the read flag of the link may come from.
AreasAfter ==
  \/ link'.snapshot.areas = link.snapshot.areas
  \/ Answers /\ AreasFrom(AreasReply)
  \/ Answers /\ task.at = "status" /\ AreasFrom(task.areas)
ZonesAfter ==
  \/ link'.snapshot.zones = link.snapshot.zones
  \/ Answers /\ ZonesFrom(ZonesReply)
  \/ Answers /\ task.at = "status" /\ ZonesFrom(task.zones)
ReadAfter ==
  \/ link'.read = link.read
  \/ Answers /\ task.at = "status" /\ AreasFrom(task.areas) /\ ZonesFrom(task.zones) /\ link'.read
\* A reply that waits is fresh or was waiting before.
WaitsAfter ==
  \/ task'.at \notin {"zones", "status"}
  \/ task' = task /\ link' = link
  \/ Answers /\ link' = link /\ task'.at = "zones" /\ task'.areas = AreasReply
  \/ /\ Answers /\ link' = link /\ task.at = "zones" /\ task'.at = "status"
     /\ task'.areas = task.areas /\ task'.zones = ZonesReply

\* A step that handles no link event: the link is the same one, its snapshot
\* as before or out of a reply.
Inner ==
  SameWorld /\ LinkOK(link') /\ link'.id = link.id
  /\ AreasAfter /\ ZonesAfter /\ ReadAfter /\ WaitsAfter

\* A panel that does nothing is the same panel.
LEMMA SameFields ==
  ASSUME TypeOK, UNCHANGED panel PROVE SamePanel
BY DEF TypeOK, PanelOK, SamePanel

\* A link with another snapshot.
LEMMA LinkWith ==
  ASSUME TypeOK, NEW s, NEW l, l = [link EXCEPT !.snapshot = s]
  PROVE  /\ DOMAIN l = DOMAIN NoLink
         /\ l.snapshot = s /\ l.id = link.id /\ l.loaded = link.loaded /\ l.read = link.read
BY DEF TypeOK, NoLink

\* Most steps leave the link alone.
CalmSteps ==
  \/ RefreshTick \/ RefreshFails
  \/ OnConnected \/ OnDisconnected \/ OnHomeAssistantOnline \/ OnZoneCommand
  \/ BrokerAccepts \/ BrokerLost \/ HomeAssistantStarts \/ Deliver
  \/ \E t \in DOMAIN retained, payload \in {"ON", "OFF"} : SwitchUsed(t, payload)

\* The steps that leave the link alone.
LEMMA CalmInner ==
  ASSUME TypeOK, CalmSteps
  PROVE  Inner /\ link' = link
<1>1. UNCHANGED <<panel, session, events, alarmed, unheard, link>>
  BY DEF CalmSteps, RefreshTick, RefreshFails, OnConnected, OnDisconnected, OnHomeAssistantOnline,
         OnZoneCommand, OnMqtt, BrokerAccepts, BrokerLost, HomeAssistantStarts, Deliver, SwitchUsed,
         AfterQuery, panelVars, bridgeVars
<1>2. task' = task \/ task'.at \notin {"zones", "status"}
  <2>1. CASE RefreshTick
    BY <2>1 DEF RefreshTick, StartRefresh
  <2>2. CASE RefreshFails
    BY <2>2 DEF RefreshFails, Idle
  <2>3. CASE OnZoneCommand
    <3>1. task' = Idle \/ \E zone, op : task' = [at |-> "command", zone |-> zone, op |-> op]
      BY <2>3 DEF OnZoneCommand
    <3> QED
      BY <3>1 DEF Idle
  <2>4. CASE ~(RefreshTick \/ RefreshFails \/ OnZoneCommand)
    BY <2>4 DEF CalmSteps, OnConnected, OnDisconnected, OnHomeAssistantOnline,
         BrokerAccepts, BrokerLost, HomeAssistantStarts, Deliver, SwitchUsed, bridgeVars
  <2> QED
    BY <2>1, <2>2, <2>3, <2>4
<1>3. SameWorld
  BY <1>1, SameFields DEF SameWorld
<1>4. LinkOK(link')
  BY <1>1 DEF TypeOK, LinkOK
<1> QED
  BY <1>1, <1>2, <1>3, <1>4 DEF Inner, AreasAfter, ZonesAfter, ReadAfter, WaitsAfter

\* The first three queries of a read.
LEMMA ReadsInner ==
  ASSUME TypeOK, InfoRead \/ AreasRead \/ ZonesRead
  PROVE  Inner
<1>1. UNCHANGED <<panel, session, events, alarmed, unheard>> /\ Answers
  BY DEF InfoRead, AreasRead, ZonesRead, AfterQuery, panelVars
<1>2. SameWorld
  BY <1>1, SameFields DEF SameWorld
<1>3. CASE InfoRead
  <2>1. /\ link' = [link EXCEPT !.loaded = TRUE] /\ task' = [at |-> "areas"]
        /\ DOMAIN link = DOMAIN NoLink /\ SnapshotOK(link.snapshot) /\ link.read \in BOOLEAN
    BY <1>3 DEF InfoRead, TypeOK
  <2>2. /\ DOMAIN link' = DOMAIN NoLink
        /\ link'.snapshot = link.snapshot /\ link'.id = link.id /\ link'.loaded /\ link'.read = link.read
    BY <2>1 DEF NoLink
  <2>3. task'.at \notin {"zones", "status"}
    BY <2>1
  <2>4. link'.loaded = TRUE
    BY <2>1 DEF NoLink
  <2>5. LinkOK(link')
    BY <2>1, <2>2, <2>4 DEF LinkOK
  <2> QED
    BY <1>2, <2>2, <2>3, <2>5 DEF Inner, AreasAfter, ZonesAfter, ReadAfter, WaitsAfter
<1>4. CASE AreasRead
  <2>1. link' = link /\ task' = [at |-> "zones", areas |-> AreasReply]
    BY <1>4 DEF AreasRead
  <2>2. task'.at = "zones" /\ task'.areas = AreasReply
    BY <2>1
  <2>3. LinkOK(link')
    BY <2>1 DEF TypeOK, LinkOK
  <2> QED
    BY <1>1, <1>2, <2>1, <2>2, <2>3 DEF Inner, AreasAfter, ZonesAfter, ReadAfter, WaitsAfter
<1>5. CASE ZonesRead
  <2>1. /\ link' = link /\ task.at = "zones"
        /\ task' = [at |-> "status", areas |-> task.areas, zones |-> ZonesReply]
    BY <1>5 DEF ZonesRead, AfterQuery
  <2>2. task'.at = "status" /\ task'.areas = task.areas /\ task'.zones = ZonesReply
    BY <2>1
  <2>3. LinkOK(link')
    BY <2>1 DEF TypeOK, LinkOK
  <2> QED
    BY <1>1, <1>2, <2>1, <2>2, <2>3 DEF Inner, AreasAfter, ZonesAfter, ReadAfter, WaitsAfter
<1> QED
  BY <1>3, <1>4, <1>5

\* The end of a refresh applies what it has read.
LEMMA AppliesInner ==
  ASSUME TypeOK, KnowsThePanel, StatusRead \/ BadStatusRead
  PROVE  Inner /\ link'.loaded = link.loaded /\ task'.at = "idle"
<1>1. /\ UNCHANGED <<panel, session, events, alarmed, unheard>> /\ Answers /\ task.at = "status"
      /\ task' = Idle
  BY DEF StatusRead, BadStatusRead, AfterQuery, panelVars
<1>2. SameWorld
  BY <1>1, SameFields DEF SameWorld
<1> DEFINE s == link.snapshot
           a == ApplyAreas(s, task.areas)
           z == ApplyZones(a, task.zones)
           n == ApplyStatus(z, StatusReply)
<1>3. SnapshotOK(s) /\ PanelOK
  BY DEF TypeOK
<1>4. AreaIds(task.areas) \subseteq Areas /\ ZoneIds(task.zones) \subseteq Zones
  BY <1>1, <1>3 DEF KnowsThePanel, PanelOK
<1> HIDE DEF n, z, a
<1>5. /\ SnapshotOK(a) /\ a.zones = s.zones
      /\ DOMAIN a.areas = AreaIds(task.areas)
      /\ \A x \in AreaIds(task.areas) :
           WasTriggered(a.areas, x) <=>
             WasTriggered(s.areas, x) /\ ArmMode(RowOfArea(task.areas, x).MODE) # "Unset"
  BY <1>3, <1>4, AreasApplied DEF a
<1>6. /\ SnapshotOK(z) /\ z.areas = a.areas
      /\ DOMAIN z.zones = ZoneIds(task.zones)
      /\ \A x \in ZoneIds(task.zones) :
           /\ z.zones[x].input = ZoneInput(RowOfZone(task.zones, x).INPUT)
           /\ RowOfZone(task.zones, x).AREA \in U32 =>
                z.zones[x].area = RowOfZone(task.zones, x).AREA
           /\ x \in DOMAIN a.zones => a.zones[x].allowed \subseteq z.zones[x].allowed
  BY <1>4, <1>5, ZonesApplied DEF z
<1>7. SnapshotOK(n) /\ n.areas = z.areas /\ n.zones = z.zones
  BY <1>6, StatusApplied DEF n
<1>8. /\ DOMAIN link' = DOMAIN NoLink /\ link'.id = link.id /\ link'.loaded = link.loaded
      /\ link'.read \in BOOLEAN /\ (link'.read \/ link'.read = link.read)
      /\ (link'.snapshot = n \/ link'.snapshot = z)
  <2>1. CASE StatusRead
    <3>1. link' = [link EXCEPT !.read = TRUE, !.snapshot = n] /\ DOMAIN link = DOMAIN NoLink
      BY <2>1 DEF StatusRead, n, z, a, TypeOK
    <3> QED
      BY <3>1 DEF NoLink
  <2>2. CASE BadStatusRead
    <3>1. link' = [link EXCEPT !.snapshot = z] /\ DOMAIN link = DOMAIN NoLink /\ link.read \in BOOLEAN
      BY <2>2 DEF BadStatusRead, z, a, TypeOK
    <3> QED
      BY <3>1 DEF NoLink
  <2> QED
    BY <2>1, <2>2
<1>9. link'.snapshot.areas = a.areas /\ link'.snapshot.zones = z.zones /\ SnapshotOK(link'.snapshot)
  BY <1>6, <1>7, <1>8
<1> HIDE DEF s
<1>10. AreasFrom(task.areas)
  BY <1>5, <1>9 DEF AreasFrom, s
<1>11. ZonesFrom(task.zones)
  <2>1. \A x \in DOMAIN link.snapshot.zones : x \in DOMAIN a.zones /\ a.zones[x] = link.snapshot.zones[x]
    BY <1>5 DEF s
  <2> QED
    BY <1>6, <1>9, <2>1 DEF ZonesFrom
<1>12. LinkOK(link')
  BY <1>8, <1>9 DEF LinkOK, TypeOK
<1>13. task'.at = "idle"
  BY <1>1 DEF Idle
<1> QED
  BY <1>1, <1>2, <1>8, <1>10, <1>11, <1>12, <1>13 DEF Inner, AreasAfter, ZonesAfter, ReadAfter, WaitsAfter

\* The queries of on_sia.
LEMMA SiaInner ==
  ASSUME TypeOK, SiaStatusRead \/ SiaAreasRead
  PROVE  /\ Inner /\ link'.loaded = link.loaded /\ link'.read = link.read
         /\ link'.snapshot.zones = link.snapshot.zones
         /\ task'.at \in {"idle", "sia_areas"}
<1>1. UNCHANGED <<panel, session, events, alarmed, unheard>>
  BY DEF SiaStatusRead, SiaAreasRead, AfterQuery, panelVars
<1>2. SameWorld
  BY <1>1, SameFields DEF SameWorld
<1>3. SnapshotOK(link.snapshot) /\ PanelOK /\ DOMAIN link = DOMAIN NoLink
      /\ link.loaded \in BOOLEAN /\ link.read \in BOOLEAN
  BY DEF TypeOK
<1>4. ASSUME NEW l, SiaAreas(l) PROVE link' = l /\ task'.at \in {"idle", "sia_areas"}
  BY <1>4 DEF SiaAreas, FinishSia, Idle
<1>5. ASSUME link' = link PROVE LinkOK(link')
  BY <1>3, <1>5 DEF LinkOK
<1>6. CASE SiaStatusRead
  <2> DEFINE n == ApplyStatus(link.snapshot, StatusReply)
             l == [link EXCEPT !.snapshot = n]
  <2>1. SiaAreas(l) \/ SiaAreas(link)
    BY <1>6 DEF SiaStatusRead
  <2>2. SnapshotOK(n) /\ n.areas = link.snapshot.areas /\ n.zones = link.snapshot.zones
    BY <1>3, StatusApplied
  <2>3. /\ DOMAIN l = DOMAIN NoLink /\ l.snapshot = n
        /\ l.id = link.id /\ l.loaded = link.loaded /\ l.read = link.read
    BY LinkWith
  <2> HIDE DEF n, l
  <2>4. task'.at \in {"idle", "sia_areas"} /\ (link' = l \/ link' = link)
    BY <1>4, <2>1
  <2>5. /\ LinkOK(link') /\ link'.id = link.id /\ link'.loaded = link.loaded /\ link'.read = link.read
        /\ link'.snapshot.areas = link.snapshot.areas /\ link'.snapshot.zones = link.snapshot.zones
    BY <1>3, <2>2, <2>3, <2>4 DEF LinkOK
  <2>6. task'.at \notin {"zones", "status"}
    BY <2>4
  <2> QED
    BY <1>2, <2>4, <2>5, <2>6 DEF Inner, AreasAfter, ZonesAfter, ReadAfter, WaitsAfter
<1>7. CASE SiaAreasRead
  <2> DEFINE n == ApplyAreas(link.snapshot, AreasReply)
             l == [link EXCEPT !.snapshot = n]
  <2>1. \/ Answers /\ link' = l /\ task' = Idle
        \/ link' = link /\ task' = Idle
    BY <1>7 DEF SiaAreasRead, FinishSia
  <2>2. AreaIds(AreasReply) \subseteq Areas
    BY <1>3, AreasReplyIs
  <2>3. /\ SnapshotOK(n) /\ n.zones = link.snapshot.zones
        /\ DOMAIN n.areas = AreaIds(AreasReply)
        /\ \A x \in AreaIds(AreasReply) :
             WasTriggered(n.areas, x) <=>
               WasTriggered(link.snapshot.areas, x) /\ ArmMode(RowOfArea(AreasReply, x).MODE) # "Unset"
    BY <1>3, <2>2, AreasApplied
  <2>4. /\ DOMAIN l = DOMAIN NoLink /\ l.snapshot = n
        /\ l.id = link.id /\ l.loaded = link.loaded /\ l.read = link.read
    BY LinkWith
  <2> HIDE DEF n, l
  <2>5. task'.at = "idle" /\ task'.at \notin {"zones", "status"}
    BY <2>1 DEF Idle
  <2>6. CASE Answers /\ link' = l
    <3>1. AreasFrom(AreasReply)
      BY <2>3, <2>4, <2>6 DEF AreasFrom
    <3>2. LinkOK(link')
      BY <1>3, <2>3, <2>4, <2>6 DEF LinkOK
    <3> QED
      BY <1>2, <2>3, <2>4, <2>5, <2>6, <3>1, <3>2
         DEF Inner, AreasAfter, ZonesAfter, ReadAfter, WaitsAfter
  <2>7. CASE link' = link
    BY <1>2, <1>5, <2>5, <2>7 DEF Inner, AreasAfter, ZonesAfter, ReadAfter, WaitsAfter
  <2> QED
    BY <2>1, <2>6, <2>7
<1> QED
  BY <1>6, <1>7

\* A zone command and the re-read behind it.
LEMMA CommandInner ==
  ASSUME TypeOK, CommandReturns \/ ZonesReread
  PROVE  /\ Inner /\ link'.loaded = link.loaded /\ link'.read = link.read
         /\ task'.at \in {"idle", "reread"} /\ (task'.at = "reread" => link.loaded)
         /\ \/ link' = link
            \/ Answers /\ ZonesFrom(ZonesReply) /\ link'.snapshot.areas = link.snapshot.areas
<1>1. UNCHANGED <<session, events, alarmed, unheard>>
  BY DEF CommandReturns, ZonesReread, AfterQuery, panelVars
<1>3. SnapshotOK(link.snapshot) /\ PanelOK /\ DOMAIN link = DOMAIN NoLink
      /\ link.loaded \in BOOLEAN /\ link.read \in BOOLEAN
  BY DEF TypeOK
<1>5. ASSUME link' = link PROVE LinkOK(link')
  BY <1>3, <1>5 DEF LinkOK
<1>6. CASE CommandReturns
  <2>1. link' = link /\ task' = IF link.loaded THEN [at |-> "reread", zone |-> task.zone] ELSE Idle
    BY <1>6 DEF CommandReturns
  <2>2. task'.at \in {"idle", "reread"} /\ (task'.at = "reread" => link.loaded)
    BY <2>1 DEF Idle
  <2>3. SamePanel
    <3>1. CASE UNCHANGED panel
      BY <3>1, SameFields
    <3>2. CASE /\ task.zone \in DOMAIN panel.zones
               /\ panel' = [panel EXCEPT !.zones[task.zone].status = StatusAfter(task.op)]
      BY <1>3, <3>2 DEF SamePanel, PanelOK, NewPanel
    <3> QED
      BY <1>6, <3>1, <3>2 DEF CommandReturns
  <2>4. SameWorld
    BY <1>1, <2>3 DEF SameWorld
  <2>5. task'.at \notin {"zones", "status"}
    BY <2>2
  <2> QED
    BY <1>5, <2>1, <2>2, <2>4, <2>5 DEF Inner, AreasAfter, ZonesAfter, ReadAfter, WaitsAfter
<1>7. CASE ZonesReread
  <2> DEFINE n == ApplyZones(link.snapshot, ZonesReply)
             l == [link EXCEPT !.snapshot = n]
  <2>1. /\ (Answers /\ link' = l) \/ link' = link
        /\ task' = Idle /\ UNCHANGED panel
    BY <1>7 DEF ZonesReread, AfterQuery, panelVars
  <2>2. ZoneIds(ZonesReply) \subseteq Zones
    BY <1>3, ZonesReplyIs DEF PanelOK
  <2>3. /\ SnapshotOK(n) /\ n.areas = link.snapshot.areas
        /\ DOMAIN n.zones = ZoneIds(ZonesReply)
        /\ \A x \in ZoneIds(ZonesReply) :
             /\ n.zones[x].input = ZoneInput(RowOfZone(ZonesReply, x).INPUT)
             /\ RowOfZone(ZonesReply, x).AREA \in U32 =>
                  n.zones[x].area = RowOfZone(ZonesReply, x).AREA
             /\ x \in DOMAIN link.snapshot.zones =>
                  link.snapshot.zones[x].allowed \subseteq n.zones[x].allowed
    BY <1>3, <2>2, ZonesApplied
  <2>4. /\ DOMAIN l = DOMAIN NoLink /\ l.snapshot = n
        /\ l.id = link.id /\ l.loaded = link.loaded /\ l.read = link.read
    BY LinkWith
  <2> HIDE DEF n, l
  <2>5. task'.at = "idle" /\ task'.at \notin {"zones", "status"}
    BY <2>1 DEF Idle
  <2>6. SameWorld
    BY <1>1, <2>1, SameFields DEF SameWorld
  <2>7. CASE Answers /\ link' = l
    <3>1. ZonesFrom(ZonesReply)
      BY <2>3, <2>4, <2>7 DEF ZonesFrom
    <3>2. LinkOK(link')
      BY <1>3, <2>3, <2>4, <2>7 DEF LinkOK
    <3>3. link'.snapshot.areas = link.snapshot.areas
      BY <2>3, <2>4, <2>7
    <3> QED
      BY <2>4, <2>5, <2>6, <2>7, <3>1, <3>2, <3>3
         DEF Inner, AreasAfter, ZonesAfter, ReadAfter, WaitsAfter
  <2>8. CASE link' = link
    BY <1>5, <2>5, <2>6, <2>8 DEF Inner, AreasAfter, ZonesAfter, ReadAfter, WaitsAfter
  <2> QED
    BY <2>1, <2>7, <2>8
<1> QED
  BY <1>6, <1>7

\* All steps that handle no link event and are not of the world.
InnerSteps ==
  \/ CalmSteps
  \/ InfoRead \/ AreasRead \/ ZonesRead \/ StatusRead \/ BadStatusRead
  \/ SiaStatusRead \/ SiaAreasRead
  \/ CommandReturns \/ ZonesReread

\* Each of them gets its snapshot so.
LEMMA InnerStep == ASSUME TypeOK, KnowsThePanel, InnerSteps PROVE Inner
BY CalmInner, ReadsInner, AppliesInner, SiaInner, CommandInner DEF InnerSteps

\* Every step is of one of these kinds.
LEMMA Kinds ==
  ASSUME [Next]_vars
  PROVE  \/ PanelSteps \/ SessionStarts \/ SessionEnds \/ Reports
         \/ OnReady \/ OnClosed \/ OnSia
         \/ InnerSteps
         \/ UNCHANGED vars
BY DEF Next, Bridge, World, PanelSteps, InnerSteps, CalmSteps

-----------------------------------------------------------------------------
(* The link events. *)

\* on_ready: a link of its own, nothing known of it, the read begins.
LEMMA ReadyStep ==
  ASSUME TypeOK, OnReady
  PROVE  /\ events # <<>> /\ Head(events).kind = "Ready" /\ events' = Tail(events)
         /\ LinkOK(link') /\ link'.id = Head(events).id
         /\ link'.loaded = FALSE /\ link'.read = FALSE /\ link'.snapshot = NewSnapshot
         /\ task'.at = "info"
         /\ UNCHANGED <<panelVars, alarmed, unheard, mqtt_up, discovery, mqttVars>>
<1>1. /\ events # <<>> /\ Head(events).kind = "Ready" /\ events' = Tail(events)
      /\ link' = [NoLink EXCEPT !.id = Head(events).id]
      /\ task' = [at |-> IF link'.loaded THEN "areas" ELSE "info"]
      /\ UNCHANGED <<panelVars, alarmed, unheard, mqtt_up, discovery, mqttVars>>
  BY DEF OnReady, StartRefresh
<1>2. /\ DOMAIN link' = DOMAIN NoLink /\ link'.id = Head(events).id
      /\ link'.loaded = FALSE /\ link'.read = FALSE /\ link'.snapshot = NewSnapshot
  BY <1>1 DEF NoLink
<1>3. SnapshotOK(NewSnapshot)
  BY DEF SnapshotOK, NewSnapshot, NoEntries
<1>4. task'.at = "info"
  BY <1>1, <1>2
<1> QED
  BY <1>1, <1>2, <1>3, <1>4 DEF LinkOK

\* on_closed: the link goes if it is this one's; status says so.
LEMMA ClosedStep ==
  ASSUME TypeOK, OnClosed
  PROVE  /\ events # <<>> /\ Head(events).kind = "Closed" /\ events' = Tail(events)
         /\ LinkOK(link') /\ task' = task
         /\ \/ /\ link.id = Head(events).id /\ link' = NoLink
               /\ link'.id = 0 /\ link'.loaded = FALSE /\ link'.read = FALSE
               /\ link'.snapshot = NewSnapshot
               /\ Publish(mqtt_up, Status(NoLink))
            \/ link.id # Head(events).id /\ UNCHANGED <<link, outbox>>
         /\ UNCHANGED <<panelVars, alarmed, unheard, mqtt_up, discovery, conn, retained, mqtt_rx>>
<1>1. /\ events # <<>> /\ Head(events).kind = "Closed" /\ events' = Tail(events) /\ task' = task
      /\ \/ link.id = Head(events).id /\ link' = NoLink /\ Publish(mqtt_up, Status(NoLink))
         \/ link.id # Head(events).id /\ UNCHANGED <<link, outbox>>
      /\ UNCHANGED <<panelVars, alarmed, unheard, mqtt_up, discovery, conn, retained, mqtt_rx>>
  BY DEF OnClosed, DropLink
<1>2. /\ NoLink.id = 0 /\ NoLink.loaded = FALSE /\ NoLink.read = FALSE
      /\ NoLink.snapshot = NewSnapshot
  BY DEF NoLink
<1>3. SnapshotOK(NewSnapshot)
  BY DEF SnapshotOK, NewSnapshot, NoEntries
<1>4. CASE link' = NoLink
  BY <1>1, <1>2, <1>3, <1>4 DEF LinkOK
<1>5. CASE link' = link
  BY <1>1, <1>2, <1>5 DEF LinkOK, TypeOK
<1> QED
  BY <1>1, <1>4, <1>5

\* An event of the link's session that has been loaded is applied; others are not.
Applied(ev) ==
  /\ DOMAIN link'.snapshot.areas = DOMAIN link.snapshot.areas
  /\ DOMAIN link'.snapshot.zones = DOMAIN link.snapshot.zones
  /\ \A z \in DOMAIN link.snapshot.zones :
       /\ link'.snapshot.zones[z].area = link.snapshot.zones[z].area
       /\ link'.snapshot.zones[z].allowed = link.snapshot.zones[z].allowed
       /\ link'.snapshot.zones[z].input =
            IF z \in MovedZones(link.snapshot, ev) THEN EventInput(ev) ELSE link.snapshot.zones[z].input
  /\ \A a \in DOMAIN link.snapshot.areas :
       WasTriggered(link'.snapshot.areas, a) <=>
         WasTriggered(link.snapshot.areas, a) \/ a \in AlarmedAreas(link.snapshot, ev)

\* on_sia: ignored, or applied and published at once or after the queries.
LEMMA SiaStep ==
  ASSUME TypeOK, OnSia
  PROVE  /\ events # <<>> /\ Head(events).kind = "Sia" /\ events' = Tail(events)
         /\ LinkOK(link') /\ link'.id = link.id /\ link'.loaded = link.loaded /\ link'.read = link.read
         /\ task.at = "idle" /\ task'.at \in {"idle", "sia_status"}
         /\ \/ /\ link.id # Head(events).id \/ ~link.loaded
               /\ link' = link /\ task' = task /\ UNCHANGED <<discovery, outbox>>
            \/ /\ link.id = Head(events).id /\ link.loaded
               /\ Applied(Head(events).ev)
               /\ \/ /\ task'.at = "sia_status"
                     /\ task'.effect = EventEffect(link.snapshot, Head(events).ev)
                     /\ UNCHANGED <<discovery, outbox>>
                  \/ /\ Head(events).ev.code \in {"ZO", "ZC"}
                     /\ \E effect, areas : FinishSia(link', effect, areas)
         /\ UNCHANGED <<panelVars, alarmed, unheard, mqtt_up, conn, retained, mqtt_rx>>
<1> DEFINE ev     == Head(events).ev
           effect == EventEffect(link.snapshot, ev)
           n      == ApplyEvent(link.snapshot, ev)
           l      == [link EXCEPT !.snapshot = n]
<1>1. /\ events # <<>> /\ Head(events).kind = "Sia" /\ events' = Tail(events) /\ task = Idle
      /\ UNCHANGED <<panelVars, alarmed, unheard, mqtt_up, conn, retained, mqtt_rx>>
      /\ \/ (link.id # Head(events).id \/ ~link.loaded) /\ UNCHANGED <<link, task, discovery, outbox>>
         \/ /\ link.id = Head(events).id /\ link.loaded
            /\ \/ /\ link' = l /\ task' = [at |-> "sia_status", effect |-> effect]
                  /\ UNCHANGED <<discovery, outbox>>
               \/ ~effect.refresh_alerts /\ FinishSia(l, effect, effect.areas)
  BY DEF OnSia
<1>2. SnapshotOK(link.snapshot) /\ DOMAIN link = DOMAIN NoLink
      /\ link.loaded \in BOOLEAN /\ link.read \in BOOLEAN
  BY DEF TypeOK
<1>3. task.at = "idle"
  BY <1>1 DEF Idle
<1>4. effect.refresh_alerts <=> ev.code \notin {"ZO", "ZC"}
  BY DEF EventEffect
<1>5. CASE (link.id # Head(events).id \/ ~link.loaded) /\ UNCHANGED <<link, task, discovery, outbox>>
  <2>1. LinkOK(link')
    BY <1>2, <1>5 DEF LinkOK
  <2> HIDE DEF ev, effect, n, l
  <2> QED
    BY <1>1, <1>3, <1>5, <2>1
<1>6. CASE link.id = Head(events).id /\ link.loaded /\ link' = l
  <2>1. /\ SnapshotOK(n)
        /\ DOMAIN n.areas = DOMAIN link.snapshot.areas /\ DOMAIN n.zones = DOMAIN link.snapshot.zones
        /\ \A z \in DOMAIN link.snapshot.zones :
             /\ n.zones[z].area = link.snapshot.zones[z].area
             /\ n.zones[z].allowed = link.snapshot.zones[z].allowed
             /\ n.zones[z].input =
                  IF z \in MovedZones(link.snapshot, ev) THEN EventInput(ev) ELSE link.snapshot.zones[z].input
        /\ \A a \in DOMAIN link.snapshot.areas :
             WasTriggered(n.areas, a) <=>
               WasTriggered(link.snapshot.areas, a) \/ a \in AlarmedAreas(link.snapshot, ev)
    BY <1>2, EventApplied
  <2>2. /\ DOMAIN l = DOMAIN NoLink /\ l.snapshot = n
        /\ l.id = link.id /\ l.loaded = link.loaded /\ l.read = link.read
    BY LinkWith
  <2> HIDE DEF n, l, ev
  <2>3. LinkOK(link')
    BY <1>2, <1>6, <2>1, <2>2 DEF LinkOK
  <2>4. link'.snapshot = n
    BY <1>6, <2>2
  <2>5. Applied(ev)
    BY <2>1, <2>4 DEF Applied
  <2>6. \/ /\ task'.at = "sia_status" /\ task'.effect = effect
           /\ UNCHANGED <<discovery, outbox>>
        \/ /\ ev.code \in {"ZO", "ZC"} /\ task'.at = "idle"
           /\ FinishSia(link', effect, effect.areas)
    <3> HIDE DEF effect
    <3>1. CASE task' = [at |-> "sia_status", effect |-> effect] /\ UNCHANGED <<discovery, outbox>>
      BY <3>1
    <3>2. CASE ~effect.refresh_alerts /\ FinishSia(l, effect, effect.areas)
      <4>1. task'.at = "idle"
        BY <3>2 DEF FinishSia, Idle
      <4> QED
        BY <1>4, <1>6, <3>2, <4>1
    <3>3. CASE UNCHANGED <<link, task, discovery, outbox>> /\ (link.id # Head(events).id \/ ~link.loaded)
      BY <1>6, <3>3
    <3> QED
      BY <1>1, <3>1, <3>2, <3>3 
  <2> HIDE DEF effect
  <2> QED
    BY <1>1, <1>3, <1>6, <2>2, <2>3, <2>5, <2>6 DEF ev, effect
<1>7. FinishSia(l, effect, effect.areas) => link' = l
  BY DEF FinishSia
<1> HIDE DEF ev, effect, n, l
<1> QED
  BY <1>1, <1>5, <1>6, <1>7

-----------------------------------------------------------------------------
(* Types, and the order of the events. *)

\* TypeOK in three parts.
LinkTypes ==
  /\ PanelOK
  /\ session \in [last : Nat, alive : BOOLEAN, closing : SUBSET Nat]
  /\ session.closing \subseteq 1..session.last
  /\ events \in Seq(LinkEvent) /\ \A i \in DOMAIN events : events[i].id \in 1..session.last
  /\ LinkOK(link) /\ link.id \in 0..session.last
  /\ Len(events) <= QueueLen /\ alarmed \subseteq Areas /\ unheard \subseteq Zones
TaskTypes ==
  task.at \in {"idle", "info", "areas", "zones", "status", "sia_status", "sia_areas",
               "command", "reread"}
MqttTypes ==
  mqtt_rx \in Seq(MqttEvent) /\ mqtt_up \in BOOLEAN /\ conn \in BOOLEAN

\* They are all of it.
LEMMA TypesAre == TypeOK <=> LinkTypes /\ TaskTypes /\ MqttTypes
BY DEF TypeOK, LinkTypes, TaskTypes, MqttTypes, LinkOK

\* One event more, or one less.
LEMMA EventAdded ==
  ASSUME TypeOK, session.last <= session'.last, session'.last \in Nat,
         NEW e \in LinkEvent, e.id \in 1..session'.last, events' = Append(events, e)
  PROVE  /\ events' \in Seq(LinkEvent) /\ \A i \in DOMAIN events' : events'[i].id \in 1..session'.last
         /\ Len(events') = Len(events) + 1 /\ events'[Len(events) + 1] = e
         /\ \A i \in DOMAIN events : i \in DOMAIN events' /\ events'[i] = events[i]
         /\ \A i \in DOMAIN events' : i \in DOMAIN events \/ i = Len(events) + 1
<1>1. /\ events \in Seq(LinkEvent) /\ session.last \in Nat
      /\ \A i \in DOMAIN events : events[i].id \in 1..session.last
  BY DEF TypeOK
<1>2. /\ events' \in Seq(LinkEvent) /\ Len(events') = Len(events) + 1
      /\ events'[Len(events) + 1] = e
      /\ \A i \in DOMAIN events : i \in DOMAIN events' /\ events'[i] = events[i]
      /\ \A i \in DOMAIN events' : i \in DOMAIN events \/ i = Len(events) + 1
  BY <1>1, Appended
<1>3. \A i \in DOMAIN events : events[i].id \in 1..session'.last
  BY <1>1
<1>4. ASSUME NEW i \in DOMAIN events' PROVE events'[i].id \in 1..session'.last
  BY <1>2, <1>3
<1> QED
  BY <1>2, <1>4

\* The first event is taken: the others move up.
LEMMA EventTaken ==
  ASSUME TypeOK, events # <<>>, events' = Tail(events)
  PROVE  /\ events' \in Seq(LinkEvent) /\ \A i \in DOMAIN events' : events'[i].id \in 1..session.last
         /\ 1 \in DOMAIN events /\ Head(events) = events[1]
         /\ Head(events) \in LinkEvent /\ Head(events).id \in 1..session.last
         /\ Len(events') = Len(events) - 1 /\ Len(events') \in Nat
         /\ \A i \in DOMAIN events' : i + 1 \in DOMAIN events /\ events'[i] = events[i + 1]
         /\ \A i \in DOMAIN events : i > 1 => i - 1 \in DOMAIN events' /\ events'[i - 1] = events[i]
<1>1. /\ events \in Seq(LinkEvent)
      /\ \A i \in DOMAIN events : events[i].id \in 1..session.last
  BY DEF TypeOK
<1>2. /\ events' \in Seq(LinkEvent) /\ Len(events') = Len(events) - 1 /\ Len(events') \in Nat
      /\ 1 \in DOMAIN events /\ Head(events) = events[1] /\ events[1] \in LinkEvent
      /\ \A i \in DOMAIN events' : i + 1 \in DOMAIN events /\ events'[i] = events[i + 1]
      /\ \A i \in DOMAIN events : i > 1 => i - 1 \in DOMAIN events' /\ events'[i - 1] = events[i]
  BY <1>1, Popped
<1> QED
  BY <1>1, <1>2

\* What the sessions do.
LEMMA StartStep ==
  ASSUME TypeOK, SessionStarts
  PROVE  /\ ~session.alive /\ session'.alive = TRUE /\ session'.last = session.last + 1
         /\ session'.closing = session.closing
         /\ session' \in [last : Nat, alive : BOOLEAN, closing : SUBSET Nat]
         /\ Len(events) < QueueLen
         /\ \E e \in LinkEvent : /\ e.kind = "Ready" /\ e.id = session'.last
                                 /\ events' = Append(events, e)
         /\ UNCHANGED <<panel, bridgeVars, mqttVars, alarmed, unheard>>
<1>1. /\ ~session.alive /\ session' = [session EXCEPT !.last = session.last + 1, !.alive = TRUE]
      /\ events' = Append(events, [kind |-> "Ready", id |-> session'.last])
      /\ UNCHANGED <<panel, bridgeVars, mqttVars, alarmed, unheard>>
  BY DEF SessionStarts
<1>2. session \in [last : Nat, alive : BOOLEAN, closing : SUBSET Nat]
  BY DEF TypeOK
<1>3. /\ session'.alive = TRUE /\ session'.last = session.last + 1
      /\ session'.closing = session.closing
      /\ session' \in [last : Nat, alive : BOOLEAN, closing : SUBSET Nat]
  <2> DEFINE n == session.last + 1
  <2>1. n \in Nat
    BY <1>2
  <2> HIDE DEF n
  <2>2. session' = [session EXCEPT !.last = n, !.alive = TRUE]
    BY <1>1 DEF n
  <2>3. /\ session'.alive = TRUE /\ session'.last = n /\ session'.closing = session.closing
        /\ session' \in [last : Nat, alive : BOOLEAN, closing : SUBSET Nat]
    BY <1>2, <2>1, <2>2
  <2> QED
    BY <2>3 DEF n
<1> DEFINE e == [kind |-> "Ready", id |-> session'.last]
<1>4. e \in LinkEvent /\ e.kind = "Ready" /\ e.id = session'.last
  BY <1>3 DEF LinkEvent
<1>5. Len(events) < QueueLen
  BY RoomIs DEF SessionStarts
<1> QED
  BY <1>1, <1>3, <1>4, <1>5

\* A session ends: it will report, its alarms are no longer the bridge's to show.
LEMMA EndStep ==
  ASSUME TypeOK, SessionEnds
  PROVE  /\ session.alive /\ session'.alive = FALSE /\ session'.last = session.last
         /\ session'.closing = session.closing \cup {session.last}
         /\ session' \in [last : Nat, alive : BOOLEAN, closing : SUBSET Nat]
         /\ alarmed' = {} /\ unheard' = {}
         /\ UNCHANGED <<panel, events, bridgeVars, mqttVars>>
<1>1. /\ session.alive /\ alarmed' = {} /\ unheard' = {}
      /\ session' = [session EXCEPT !.alive = FALSE, !.closing = session.closing \cup {session.last}]
      /\ UNCHANGED <<panel, events, bridgeVars, mqttVars>>
  BY DEF SessionEnds
<1>2. session \in [last : Nat, alive : BOOLEAN, closing : SUBSET Nat]
  BY DEF TypeOK
<1> DEFINE c == session.closing \cup {session.last}
<1>3. c \in SUBSET Nat
  BY <1>2
<1> HIDE DEF c
<1>4. session' = [session EXCEPT !.alive = FALSE, !.closing = c]
  BY <1>1 DEF c
<1>5. /\ session'.alive = FALSE /\ session'.last = session.last /\ session'.closing = c
      /\ session' \in [last : Nat, alive : BOOLEAN, closing : SUBSET Nat]
  BY <1>2, <1>3, <1>4
<1> QED
  BY <1>1, <1>5 DEF c

\* One that has ended reports so.
LEMMA ReportStep ==
  ASSUME TypeOK, Reports
  PROVE  \E s \in session.closing :
           /\ session'.alive = session.alive /\ session'.last = session.last
           /\ session'.closing = session.closing \ {s}
           /\ session' \in [last : Nat, alive : BOOLEAN, closing : SUBSET Nat]
           /\ Len(events) < QueueLen
           /\ \E e \in LinkEvent : e.kind = "Closed" /\ e.id = s /\ events' = Append(events, e)
           /\ UNCHANGED <<panel, bridgeVars, mqttVars, alarmed, unheard>>
<1>1. PICK s \in session.closing : SessionReportsClosed(s)
  BY DEF Reports
<1>2. /\ session' = [session EXCEPT !.closing = session.closing \ {s}]
      /\ events' = Append(events, [kind |-> "Closed", id |-> s])
      /\ UNCHANGED <<panel, bridgeVars, mqttVars, alarmed, unheard>>
  BY <1>1 DEF SessionReportsClosed
<1>3. session \in [last : Nat, alive : BOOLEAN, closing : SUBSET Nat]
  BY DEF TypeOK
<1>4. /\ session'.alive = session.alive /\ session'.last = session.last
      /\ session'.closing = session.closing \ {s}
      /\ session' \in [last : Nat, alive : BOOLEAN, closing : SUBSET Nat]
  BY <1>2, <1>3
<1> DEFINE e == [kind |-> "Closed", id |-> s]
<1>5. e \in LinkEvent /\ e.kind = "Closed" /\ e.id = s
  BY <1>3 DEF LinkEvent
<1>6. Len(events) < QueueLen
  BY <1>1, RoomIs DEF SessionReportsClosed
<1> QED
  BY <1>2, <1>4, <1>5, <1>6

\* The types of panel, session, events and link are kept,
LEMMA LinkTypesStep ==
  ASSUME TypeOK, EventsInOrder, AlarmsAreKept, KnowsThePanel, [Next]_vars
  PROVE  LinkTypes'
<1>t. LinkTypes
  BY TypesAre
<1>n. session.last \in Nat /\ session.alive \in BOOLEAN
  BY <1>t DEF LinkTypes
<1>1. CASE PanelSteps
  <2>1. Told /\ UNCHANGED <<bridgeVars, mqttVars>>
    BY <1>1, PanelStep
  <2>2. ASSUME NEW i \in DOMAIN events' PROVE events'[i].id \in 1..session'.last
    <3>1. CASE i \in DOMAIN events
      BY <1>t, <2>1, <3>1 DEF Told, LinkTypes
    <3>2. CASE i \notin DOMAIN events
      BY <1>n, <2>1, <3>2 DEF Told, EventsInOrder
    <3> QED
      BY <3>1, <3>2
  <2> QED
    BY <1>t, <2>1, <2>2 DEF Told, LinkTypes, bridgeVars
<1>2. CASE SessionStarts
  <2>1. PICK e \in LinkEvent : /\ e.id = session'.last /\ events' = Append(events, e)
    BY <1>2, StartStep
  <2>2. /\ session'.last = session.last + 1 /\ session'.closing = session.closing
        /\ session' \in [last : Nat, alive : BOOLEAN, closing : SUBSET Nat]
        /\ UNCHANGED <<panel, link, alarmed, unheard>> /\ Len(events) < QueueLen
    BY <1>2, StartStep DEF bridgeVars
  <2>3. /\ session.last <= session'.last /\ e.id \in 1..session'.last /\ session'.last \in Nat
        /\ 1..session.last \subseteq 1..session'.last /\ 0..session.last \subseteq 0..session'.last
    BY <1>n, <2>1, <2>2
  <2>4. /\ events' \in Seq(LinkEvent) /\ \A i \in DOMAIN events' : events'[i].id \in 1..session'.last
        /\ Len(events') <= QueueLen
    BY <2>1, <2>2, <2>3, EventAdded, RoomIs
  <2>5. link'.id \in 0..session'.last /\ session'.closing \subseteq 1..session'.last
    BY <1>t, <2>2, <2>3 DEF LinkTypes
  <2>6. PanelOK' /\ LinkOK(link') /\ alarmed' \subseteq Areas /\ unheard' \subseteq Zones
    BY <1>t, <2>2 DEF LinkTypes, PanelOK
  <2> QED
    BY <2>2, <2>4, <2>5, <2>6 DEF LinkTypes
<1>3. CASE SessionEnds
  <2>1. /\ session.alive /\ session'.last = session.last
        /\ session'.closing = session.closing \cup {session.last}
        /\ session' \in [last : Nat, alive : BOOLEAN, closing : SUBSET Nat]
        /\ alarmed' = {} /\ unheard' = {} /\ UNCHANGED <<panel, events, link>>
    BY <1>3, EndStep DEF bridgeVars
  <2>2. session.last \in 1..session.last
    BY <1>n, <2>1 DEF EventsInOrder
  <2>3. session'.closing \subseteq 1..session'.last
    BY <1>t, <2>1, <2>2 DEF LinkTypes
  <2>4. PanelOK' /\ LinkOK(link') /\ alarmed' \subseteq Areas /\ unheard' \subseteq Zones
    BY <1>t, <2>1 DEF LinkTypes, PanelOK
  <2> QED
    BY <1>t, <2>1, <2>3, <2>4 DEF LinkTypes
<1>4. CASE Reports
  <2>1. PICK s \in session.closing :
           /\ session'.last = session.last /\ session'.closing = session.closing \ {s}
           /\ session' \in [last : Nat, alive : BOOLEAN, closing : SUBSET Nat]
           /\ \E e \in LinkEvent : e.id = s /\ events' = Append(events, e)
           /\ UNCHANGED <<panel, link, alarmed, unheard>> /\ Len(events) < QueueLen
    BY <1>4, ReportStep DEF bridgeVars
  <2>2. PICK e \in LinkEvent : e.id = s /\ events' = Append(events, e)
    BY <2>1
  <2>3. e.id \in 1..session'.last /\ session.last <= session'.last /\ session'.last \in Nat
    BY <1>t, <1>n, <2>1, <2>2 DEF LinkTypes
  <2>4. /\ events' \in Seq(LinkEvent) /\ \A i \in DOMAIN events' : events'[i].id \in 1..session'.last
        /\ Len(events') <= QueueLen
    BY <2>1, <2>2, <2>3, EventAdded, RoomIs
  <2>5. PanelOK' /\ LinkOK(link') /\ alarmed' \subseteq Areas /\ unheard' \subseteq Zones
    BY <1>t, <2>1 DEF LinkTypes, PanelOK
  <2>6. session'.closing \subseteq 1..session'.last
    BY <1>t, <2>1 DEF LinkTypes
  <2> QED
    BY <1>t, <2>1, <2>4, <2>5, <2>6 DEF LinkTypes
<1>5. CASE OnReady \/ OnClosed \/ OnSia
  <2>1. /\ events # <<>> /\ events' = Tail(events) /\ LinkOK(link')
        /\ UNCHANGED <<panel, session, alarmed, unheard>>
        /\ (link'.id = Head(events).id \/ link'.id = link.id \/ link'.id = 0)
    BY <1>5, ReadyStep, ClosedStep, SiaStep DEF panelVars
  <2>2. /\ events' \in Seq(LinkEvent) /\ \A i \in DOMAIN events' : events'[i].id \in 1..session.last
        /\ Head(events).id \in 1..session.last /\ Len(events') <= QueueLen
    BY <2>1, EventTaken, RoomIs
  <2>3. link'.id \in 0..session.last
    BY <1>n, <1>t, <2>1, <2>2 DEF LinkTypes
  <2>4. PanelOK'
    BY <1>t, <2>1 DEF LinkTypes, PanelOK
  <2> QED
    BY <1>t, <2>1, <2>2, <2>3, <2>4 DEF LinkTypes
<1>6. CASE InnerSteps
  <2>1. Inner
    BY <1>6, InnerStep
  <2> QED
    BY <1>t, <2>1 DEF Inner, SameWorld, SamePanel, LinkTypes
<1>7. CASE UNCHANGED vars
  BY <1>t, <1>7 DEF vars, panelVars, bridgeVars, LinkTypes, PanelOK
<1> QED
  BY <1>1, <1>2, <1>3, <1>4, <1>5, <1>6, <1>7, Kinds

\* those of the connection to the broker
LEMMA MqttTypesStep == ASSUME TypeOK, [Next]_vars PROVE MqttTypes'
<1>t. mqtt_rx \in Seq(MqttEvent) /\ mqtt_up \in BOOLEAN /\ conn \in BOOLEAN
  BY DEF TypeOK
<1>1. ASSUME UNCHANGED mqtt_rx, UNCHANGED mqtt_up, UNCHANGED conn PROVE MqttTypes'
  BY <1>t, <1>1 DEF MqttTypes
<1>2. ASSUME NEW m \in MqttEvent, mqtt_rx' = Append(mqtt_rx, m), mqtt_up' = mqtt_up, conn' \in BOOLEAN
      PROVE  MqttTypes'
  BY <1>t, <1>2 DEF MqttTypes
<1>3. ASSUME mqtt_rx # <<>>, mqtt_rx' = Tail(mqtt_rx), mqtt_up' \in BOOLEAN, conn' = conn PROVE MqttTypes'
  <2>1. mqtt_rx' \in Seq(MqttEvent)
    BY <1>t, <1>3, Popped
  <2> QED
    BY <1>t, <1>3, <2>1 DEF MqttTypes
<1>4. \A k \in {"Connected", "Disconnected", "HomeAssistantOnline"} : [kind |-> k] \in MqttEvent
  BY DEF MqttEvent
<1>5. CASE BrokerAccepts \/ BrokerLost \/ HomeAssistantStarts
  <2>1. \E k \in {"Connected", "Disconnected", "HomeAssistantOnline"} :
          mqtt_rx' = Append(mqtt_rx, [kind |-> k]) /\ mqtt_up' = mqtt_up /\ conn' \in BOOLEAN
    BY <1>t, <1>5 DEF BrokerAccepts, BrokerLost, HomeAssistantStarts, bridgeVars
  <2> QED
    BY <1>2, <1>4, <2>1
<1>6. ASSUME NEW t \in DOMAIN retained, NEW payload \in {"ON", "OFF"}, SwitchUsed(t, payload)
      PROVE  MqttTypes'
  <2>1. PICK target \in ZoneTargets(retained[t].command) :
          mqtt_rx' = Append(mqtt_rx, [kind |-> "ZoneCommand", zone |-> target[1],
                                      control |-> target[2], payload |-> payload])
    BY <1>6 DEF SwitchUsed
  <2>2. target[1] \in U8 /\ target[2] \in ZoneControls
    BY DEF ZoneTargets
  <2> DEFINE m == [kind |-> "ZoneCommand", zone |-> target[1], control |-> target[2], payload |-> payload]
  <2>3. m \in MqttEvent
    BY <1>6, <2>2 DEF MqttEvent
  <2>4. mqtt_rx' = Append(mqtt_rx, m) /\ mqtt_up' = mqtt_up /\ conn' = conn
    BY <1>6, <2>1 DEF SwitchUsed, bridgeVars
  <2> HIDE DEF m
  <2> QED
    BY <1>t, <1>2, <2>3, <2>4
<1>7. CASE OnConnected \/ OnDisconnected \/ OnHomeAssistantOnline \/ OnZoneCommand
  <2>1. mqtt_rx # <<>> /\ mqtt_rx' = Tail(mqtt_rx) /\ mqtt_up' \in BOOLEAN /\ conn' = conn
    BY <1>t, <1>7 DEF OnConnected, OnDisconnected, OnHomeAssistantOnline, OnZoneCommand, OnMqtt
  <2> QED
    BY <1>3, <2>1
<1>8. CASE PanelSteps \/ SessionStarts \/ SessionEnds \/ Reports
  <2>1. UNCHANGED mqtt_rx /\ UNCHANGED mqtt_up /\ UNCHANGED conn
    BY <1>8 DEF PanelSteps, PanelOpens, PanelCloses, PanelLosesZone, PanelArms, PanelAlert,
       SessionStarts, SessionEnds, Reports, SessionReportsClosed, bridgeVars, mqttVars
  <2> QED
    BY <1>1, <2>1
<1>9. CASE OnReady \/ OnClosed \/ OnSia \/ RefreshTick \/ Deliver
  <2>1. UNCHANGED mqtt_rx /\ UNCHANGED mqtt_up /\ UNCHANGED conn
    BY <1>9 DEF OnReady, OnClosed, OnSia, RefreshTick, Deliver, bridgeVars, mqttVars
  <2> QED
    BY <1>1, <2>1
<1>10. CASE \/ InfoRead \/ AreasRead \/ ZonesRead \/ StatusRead \/ BadStatusRead \/ RefreshFails
            \/ SiaStatusRead \/ SiaAreasRead \/ CommandReturns \/ ZonesReread
  <2>1. UNCHANGED mqtt_rx /\ UNCHANGED mqtt_up /\ UNCHANGED conn
    BY <1>10 DEF InfoRead, AreasRead, ZonesRead, StatusRead, BadStatusRead, RefreshFails,
       SiaStatusRead, SiaAreasRead, CommandReturns, ZonesReread, AfterQuery, mqttVars
  <2> QED
    BY <1>1, <2>1
<1>11. CASE UNCHANGED vars
  BY <1>1, <1>11 DEF vars, bridgeVars, mqttVars
<1> QED
  BY <1>5, <1>6, <1>7, <1>8, <1>9, <1>10, <1>11, Kinds DEF InnerSteps, CalmSteps

\* Which query a calm step waits for.
LEMMA CalmTask ==
  ASSUME CalmSteps
  PROVE  \/ task' = task
         \/ task'.at \in {"idle", "info", "command"}
         \/ task'.at = "areas" /\ link.loaded
<1>1. CASE RefreshTick
  <2>1. task' = [at |-> IF link.loaded THEN "areas" ELSE "info"]
    BY <1>1 DEF RefreshTick, StartRefresh
  <2>2. CASE link.loaded
    BY <2>1, <2>2
  <2>3. CASE ~link.loaded
    BY <2>1, <2>3
  <2> QED
    BY <2>2, <2>3
<1>2. CASE RefreshFails
  BY <1>2 DEF RefreshFails, Idle
<1>3. CASE OnZoneCommand
  <2>1. task' = Idle \/ \E zone, op : task' = [at |-> "command", zone |-> zone, op |-> op]
    BY <1>3 DEF OnZoneCommand
  <2> QED
    BY <2>1 DEF Idle
<1>4. CASE ~(RefreshTick \/ RefreshFails \/ OnZoneCommand)
  BY <1>4 DEF CalmSteps, OnConnected, OnDisconnected, OnHomeAssistantOnline,
       BrokerAccepts, BrokerLost, HomeAssistantStarts, Deliver, SwitchUsed, bridgeVars
<1> QED
  BY <1>1, <1>2, <1>3, <1>4

\* Of the panel and its sessions neither link nor task knows.
LEMMA WorldKeepsBridge ==
  ASSUME TypeOK, AlarmsAreKept, PanelSteps \/ SessionStarts \/ SessionEnds \/ Reports
  PROVE  UNCHANGED <<bridgeVars, mqttVars>>
BY PanelStep, StartStep, EndStep, ReportStep

\* and those of the task, with what it means that a link is loaded.
LEMMA LoadedStep ==
  ASSUME TypeOK, EventsInOrder, LoadedFirst, KnowsThePanel, AlarmsAreKept, [Next]_vars
  PROVE  TaskTypes' /\ LoadedFirst'
<1>t. TaskTypes /\ session.last \in Nat
  BY TypesAre DEF TypeOK
<1>1. CASE (PanelSteps \/ SessionStarts \/ SessionEnds \/ Reports) \/ UNCHANGED vars
  <2>1. UNCHANGED <<link, task>>
    BY <1>1, WorldKeepsBridge DEF bridgeVars, vars
  <2> QED
    BY <1>t, <2>1 DEF TaskTypes, LoadedFirst
<1>2. CASE OnReady
  <2>1. /\ link'.loaded = FALSE /\ link'.read = FALSE /\ link'.snapshot = NewSnapshot /\ task'.at = "info"
    BY <1>2, ReadyStep
  <2> QED
    BY <2>1 DEF TaskTypes, LoadedFirst
<1>3. CASE OnClosed
  <2>1. task' = task /\ task.at = "idle"
    BY <1>3, ClosedStep DEF OnClosed, Idle
  <2>2. \/ link' = link
        \/ link'.loaded = FALSE /\ link'.read = FALSE /\ link'.snapshot = NewSnapshot
    BY <1>3, ClosedStep
  <2> QED
    BY <2>1, <2>2 DEF TaskTypes, LoadedFirst
<1>4. CASE OnSia
  <2>1. /\ link'.id = link.id /\ link'.loaded = link.loaded /\ link'.read = link.read
        /\ task.at = "idle" /\ task'.at \in {"idle", "sia_status"}
        /\ \/ link' = link /\ task' = task
           \/ link.loaded
    BY <1>4, SiaStep
  <2> QED
    BY <2>1 DEF TaskTypes, LoadedFirst
<1>5. CASE CalmSteps
  <2>1. link' = link
    BY <1>5, CalmInner
  <2>2. \/ task' = task
        \/ task'.at \in {"idle", "info", "command"}
        \/ task'.at = "areas" /\ link.loaded
    BY <1>5, CalmTask
  <2> QED
    BY <1>t, <2>1, <2>2 DEF TaskTypes, LoadedFirst
<1>6. CASE InfoRead
  <2>1. /\ link' = [link EXCEPT !.loaded = TRUE] /\ task' = [at |-> "areas"] /\ Answers
        /\ DOMAIN link = DOMAIN NoLink
    BY <1>6 DEF InfoRead, TypeOK
  <2>2. link'.loaded = TRUE /\ link'.id = link.id /\ task'.at = "areas"
    BY <2>1 DEF NoLink
  <2>3. link.id >= 1
    BY <2>1 DEF Answers, EventsInOrder
  <2> QED
    BY <2>2, <2>3 DEF TaskTypes, LoadedFirst
<1>7. CASE AreasRead \/ ZonesRead
  <2>1. link' = link /\ task.at \in {"areas", "zones"} /\ task'.at \in {"zones", "status"}
    BY <1>7 DEF AreasRead, ZonesRead, AfterQuery
  <2> QED
    BY <2>1 DEF TaskTypes, LoadedFirst
<1>8. CASE StatusRead \/ BadStatusRead
  <2>1. Inner /\ link'.loaded = link.loaded /\ task'.at = "idle" /\ task.at = "status"
    BY <1>8, AppliesInner DEF StatusRead, BadStatusRead, AfterQuery
  <2> QED
    BY <2>1 DEF TaskTypes, LoadedFirst, Inner
<1>9. CASE SiaStatusRead \/ SiaAreasRead
  <2>1. /\ Inner /\ link'.loaded = link.loaded /\ link'.read = link.read
        /\ task'.at \in {"idle", "sia_areas"} /\ task.at \in {"sia_status", "sia_areas"}
    BY <1>9, SiaInner DEF SiaStatusRead, SiaAreasRead, AfterQuery
  <2> QED
    BY <2>1 DEF TaskTypes, LoadedFirst, Inner
<1>10. CASE CommandReturns \/ ZonesReread
  <2>1. /\ Inner /\ link'.loaded = link.loaded /\ link'.read = link.read
        /\ task'.at \in {"idle", "reread"} /\ (task'.at = "reread" => link.loaded)
    BY <1>10, CommandInner
  <2>2. link' = link \/ task.at = "reread"
    BY <1>10 DEF CommandReturns, ZonesReread, AfterQuery
  <2> QED
    BY <2>1, <2>2 DEF TaskTypes, LoadedFirst, Inner
<1> QED
  BY <1>1, <1>2, <1>3, <1>4, <1>5, <1>6, <1>7, <1>8, <1>9, <1>10, Kinds DEF InnerSteps

\* So all types are.
LEMMA TypeStep ==
  ASSUME TypeOK, EventsInOrder, LoadedFirst, KnowsThePanel, AlarmsAreKept, [Next]_vars
  PROVE  TypeOK'
<1>1. LinkTypes' /\ TaskTypes' /\ MqttTypes'
  BY LinkTypesStep, LoadedStep, MqttTypesStep
<1> QED
  BY <1>1 DEF LinkTypes, TaskTypes, MqttTypes, TypeOK, LinkOK

\* Sessions' events stay in order: Ready first, Closed last, no Sia after it.
LEMMA OrderStep ==
  ASSUME TypeOK, EventsInOrder, KnowsThePanel, AlarmsAreKept, [Next]_vars
  PROVE  EventsInOrder'
<1>t. /\ session.last \in Nat /\ session.closing \subseteq 1..session.last /\ link.id \in 0..session.last
      /\ session.alive \in BOOLEAN
      /\ events \in Seq(LinkEvent) /\ \A i \in DOMAIN events : events[i].id \in 1..session.last
  BY DEF TypeOK
<1>1. CASE PanelSteps
  <2>1. Told /\ link' = link
    BY <1>1, PanelStep DEF bridgeVars
  <2>2. /\ session' = session
        /\ \A i \in DOMAIN events : i \in DOMAIN events' /\ events'[i] = events[i]
        /\ \A i \in DOMAIN events' : i \notin DOMAIN events => events'[i].kind = "Sia"
        /\ events' \in Seq(LinkEvent)
    BY <2>1 DEF Told
  <2>3. ASSUME NEW i \in DOMAIN events'
        PROVE  /\ events'[i].kind = "Closed" /\ session.alive => events'[i].id # session.last
               /\ events'[i].kind = "Ready" =>
                    /\ link.id < events'[i].id
                    /\ \A j \in 1..(i - 1) : events'[j].kind = "Ready" => events'[j].id < events'[i].id
    <3>1. CASE i \in DOMAIN events
      <4>1. \A j \in 1..(i - 1) : j \in DOMAIN events
        BY <1>t, <3>1
      <4> QED
        BY <2>2, <3>1, <4>1 DEF EventsInOrder
    <3>2. CASE i \notin DOMAIN events
      BY <2>2, <3>2
    <3> QED
      BY <3>1, <3>2
  <2> QED
    BY <2>1, <2>2, <2>3 DEF EventsInOrder
<1>2. CASE SessionStarts
  <2>1. PICK e \in LinkEvent : e.kind = "Ready" /\ e.id = session'.last /\ events' = Append(events, e)
    BY <1>2, StartStep
  <2>2. /\ session'.last = session.last + 1 /\ session'.closing = session.closing /\ link' = link
    BY <1>2, StartStep DEF bridgeVars
  <2>3. session.last <= session'.last /\ e.id \in 1..session'.last /\ session'.last \in Nat
    BY <1>t, <2>1, <2>2
  <2>4. /\ Len(events') = Len(events) + 1 /\ events'[Len(events) + 1] = e
        /\ \A i \in DOMAIN events : i \in DOMAIN events' /\ events'[i] = events[i]
        /\ \A i \in DOMAIN events' : i \in DOMAIN events \/ i = Len(events) + 1
    BY <2>1, <2>3, EventAdded
  <2>5. \A i \in DOMAIN events : events[i].id < session'.last /\ events[i].id # session'.last
    BY <1>t, <2>2
  <2>6. link.id < session'.last
    BY <1>t, <2>2
  <2>7. ASSUME NEW i \in DOMAIN events'
        PROVE  /\ events'[i].kind = "Closed" => events'[i].id # session'.last
               /\ events'[i].kind = "Ready" =>
                    /\ link.id < events'[i].id
                    /\ \A j \in 1..(i - 1) : events'[j].kind = "Ready" => events'[j].id < events'[i].id
    <3>1. \A j \in 1..(i - 1) : j \in DOMAIN events
      <4>1. DOMAIN events = 1..Len(events) /\ Len(events) \in Nat
        BY <1>t
      <4> QED
        BY <2>4, <2>7, <4>1
    <3>2. CASE i \in DOMAIN events
      BY <2>4, <2>5, <3>1, <3>2 DEF EventsInOrder
    <3>3. CASE i = Len(events) + 1
      <4>1. events'[i] = e
        BY <2>4, <3>3
      <4> QED
        BY <2>1, <2>4, <2>5, <2>6, <3>1, <4>1
    <3> QED
      BY <2>4, <2>7, <3>2, <3>3
  <2>8. session'.last >= 1 /\ session'.last \notin session'.closing
    BY <1>t, <2>2
  <2> QED
    BY <2>2, <2>7, <2>8 DEF EventsInOrder
<1>3. CASE SessionEnds
  <2>1. session'.alive = FALSE /\ events' = events /\ link' = link
    BY <1>3, EndStep DEF bridgeVars
  <2> QED
    BY <2>1 DEF EventsInOrder
<1>4. CASE Reports
  <2>1. PICK s \in session.closing :
           /\ session'.last = session.last /\ session'.closing = session.closing \ {s}
           /\ session'.alive = session.alive /\ link' = link
           /\ \E e \in LinkEvent : e.kind = "Closed" /\ e.id = s /\ events' = Append(events, e)
    BY <1>4, ReportStep DEF bridgeVars
  <2>2. PICK e \in LinkEvent : e.kind = "Closed" /\ e.id = s /\ events' = Append(events, e)
    BY <2>1
  <2>3. e.id \in 1..session'.last /\ session.last <= session'.last /\ session'.last \in Nat
    BY <1>t, <2>1, <2>2
  <2>4. /\ Len(events') = Len(events) + 1 /\ events'[Len(events) + 1] = e
        /\ \A i \in DOMAIN events : i \in DOMAIN events' /\ events'[i] = events[i]
        /\ \A i \in DOMAIN events' : i \in DOMAIN events \/ i = Len(events) + 1
    BY <2>2, <2>3, EventAdded
  <2>5. session.alive => s # session.last
    BY DEF EventsInOrder
  <2>6. ASSUME NEW i \in DOMAIN events'
        PROVE  /\ events'[i].kind = "Closed" /\ session.alive => events'[i].id # session.last
               /\ events'[i].kind = "Ready" =>
                    /\ link.id < events'[i].id
                    /\ \A j \in 1..(i - 1) : events'[j].kind = "Ready" => events'[j].id < events'[i].id
    <3>1. CASE i \in DOMAIN events
      <4>1. \A j \in 1..(i - 1) : j \in DOMAIN events
        BY <1>t, <3>1
      <4> QED
        BY <2>4, <3>1, <4>1 DEF EventsInOrder
    <3>2. CASE i = Len(events) + 1
      <4>1. events'[i] = e
        BY <2>4, <3>2
      <4> QED
        BY <2>2, <2>5, <4>1
    <3> QED
      BY <2>4, <2>6, <3>1, <3>2
  <2> QED
    BY <2>1, <2>6 DEF EventsInOrder
<1>5. CASE OnReady \/ OnClosed \/ OnSia
  <2>1. /\ events # <<>> /\ events' = Tail(events) /\ session' = session
        /\ \/ Head(events).kind = "Ready" /\ link'.id = Head(events).id
           \/ link'.id = link.id
           \/ link'.id = 0
    BY <1>5, ReadyStep, ClosedStep, SiaStep DEF panelVars
  <2>2. /\ Head(events) = events[1] /\ 1 \in DOMAIN events
        /\ events' \in Seq(LinkEvent)
        /\ \A i \in DOMAIN events' : events'[i].id \in 1..session.last
        /\ \A i \in DOMAIN events' : i + 1 \in DOMAIN events /\ events'[i] = events[i + 1]
    BY <2>1, EventTaken
  <2>3. ASSUME NEW i \in DOMAIN events'
        PROVE  /\ events'[i].kind = "Closed" /\ session.alive => events'[i].id # session.last
               /\ events'[i].kind = "Ready" =>
                    /\ link'.id < events'[i].id
                    /\ \A j \in 1..(i - 1) : events'[j].kind = "Ready" => events'[j].id < events'[i].id
    <3>1. i \in Nat /\ i >= 1 /\ 1 \in 1..(i + 1 - 1)
      BY <2>2, <2>3
    <3>2. \A j \in 1..(i - 1) : j \in DOMAIN events' /\ j + 1 \in 1..(i + 1 - 1)
      BY <2>2, <2>3
    <3>3. /\ events'[i].kind = "Closed" /\ session.alive => events'[i].id # session.last
          /\ events'[i].kind = "Ready" =>
               /\ link.id < events'[i].id
               /\ \A k \in 1..(i + 1 - 1) : events[k].kind = "Ready" => events[k].id < events'[i].id
      BY <2>2, <2>3 DEF EventsInOrder
    <3>4. events'[i].kind = "Ready" => link'.id < events'[i].id
      <4>1. 0 < events'[i].id
        BY <2>2, <2>3
      <4> QED
        BY <2>1, <2>2, <3>1, <3>3, <4>1
    <3> QED
      BY <2>2, <3>2, <3>3, <3>4
  <2> QED
    BY <2>1, <2>3 DEF EventsInOrder
<1>6. CASE InnerSteps
  <2>1. Inner
    BY <1>6, InnerStep
  <2>2. session' = session /\ events' = events /\ link'.id = link.id
    BY <2>1 DEF Inner, SameWorld
  <2> QED
    BY <2>2 DEF EventsInOrder
<1>7. CASE UNCHANGED vars
  BY <1>7 DEF vars, panelVars, bridgeVars, EventsInOrder
<1> QED
  BY <1>1, <1>2, <1>3, <1>4, <1>5, <1>6, <1>7, Kinds

-----------------------------------------------------------------------------
(* The snapshot and the panel. *)

\* What an inner step makes of the zones, the areas and the replies that wait.
LEMMA InnerZones ==
  ASSUME TypeOK, KnowsThePanel, Inner
  PROVE  \/ link'.snapshot.zones = link.snapshot.zones
         \/ /\ Answers /\ DOMAIN link'.snapshot.zones = DOMAIN panel.zones
            /\ \A z \in DOMAIN panel.zones :
                 /\ link'.snapshot.zones[z].area = ZoneArea[z]
                 /\ z \in DOMAIN link.snapshot.zones =>
                      link.snapshot.zones[z].allowed \subseteq link'.snapshot.zones[z].allowed
                 /\ \/ link'.snapshot.zones[z].input = ZoneInput(panel.zones[z].input)
                    \/ /\ task.at = "status" /\ z \in ZoneIds(task.zones)
                       /\ link'.snapshot.zones[z].input = ZoneInput(RowOfZone(task.zones, z).INPUT)
<1>1. PanelOK
  BY DEF TypeOK
<1>2. \A z \in DOMAIN panel.zones : ZoneArea[z] \in U32
  <2>1. \A z \in DOMAIN panel.zones : ZoneArea[z] \in Areas
    BY <1>1, BridgeAssumption DEF PanelOK
  <2>2. \A a \in Areas : a \in U32
    BY BridgeAssumption DEF U8, U32
  <2> QED
    BY <2>1, <2>2
<1>3. CASE Answers /\ ZonesFrom(ZonesReply)
  BY <1>1, <1>2, <1>3, ZonesReplyIs DEF ZonesFrom
<1>4. CASE Answers /\ task.at = "status" /\ ZonesFrom(task.zones)
  BY <1>2, <1>4 DEF ZonesFrom, KnowsThePanel
<1> QED
  BY <1>3, <1>4 DEF Inner, ZonesAfter

\* A reply takes an alarm away only where the panel has unset the area.
LEMMA InnerAreas ==
  ASSUME TypeOK, KnowsThePanel, Inner
  PROVE  \/ link'.snapshot.areas = link.snapshot.areas
         \/ /\ Answers /\ DOMAIN link'.snapshot.areas = Areas
            /\ \A a \in Areas :
                 WasTriggered(link.snapshot.areas, a) =>
                   \/ WasTriggered(link'.snapshot.areas, a)
                   \/ ArmMode(panel.modes[a]) = "Unset"
                   \/ task.at = "status" /\ ArmMode(RowOfArea(task.areas, a).MODE) = "Unset"
<1>1. PanelOK
  BY DEF TypeOK
<1>2. CASE Answers /\ AreasFrom(AreasReply)
  BY <1>1, <1>2, AreasReplyIs DEF AreasFrom
<1>3. CASE Answers /\ task.at = "status" /\ AreasFrom(task.areas)
  BY <1>3 DEF AreasFrom, KnowsThePanel
<1> QED
  BY <1>2, <1>3 DEF Inner, AreasAfter

\* A snapshot that has just been read has the panel's areas and zones.
LEMMA InnerRead ==
  ASSUME TypeOK, KnowsThePanel, Inner, Answers, link'.read
  PROVE  DOMAIN link'.snapshot.areas = Areas /\ DOMAIN link'.snapshot.zones = DOMAIN panel.zones
<1>1. CASE link'.read = link.read
  <2>1. DOMAIN link.snapshot.areas = Areas /\ DOMAIN link.snapshot.zones = DOMAIN panel.zones
    BY <1>1 DEF KnowsThePanel
  <2> QED
    BY <2>1, InnerAreas, InnerZones
<1>2. CASE task.at = "status" /\ AreasFrom(task.areas) /\ ZonesFrom(task.zones)
  BY <1>2 DEF AreasFrom, ZonesFrom, KnowsThePanel
<1> QED
  BY <1>1, <1>2 DEF Inner, ReadAfter

\* The snapshot keeps its entities, and replies that wait are the panel's.
LEMMA KnownStep ==
  ASSUME TypeOK, EventsInOrder, LoadedFirst, KnowsThePanel, AlarmsAreKept, [Next]_vars
  PROVE  KnowsThePanel'
<1>t. /\ session.last \in Nat /\ link.id \in 0..session.last /\ session.alive \in BOOLEAN /\ PanelOK
  BY DEF TypeOK
<1>0. DOMAIN NewSnapshot.zones = {}
  BY DEF NewSnapshot, NoEntries
<1>1. CASE PanelSteps
  <2>1. Told /\ UNCHANGED <<link, task>>
    BY <1>1, PanelStep DEF bridgeVars
  <2>2. session' = session /\ (session.alive => DOMAIN panel'.zones = DOMAIN panel.zones)
    BY <2>1 DEF Told
  <2> QED
    BY <2>1, <2>2 DEF KnowsThePanel, Answers
<1>2. CASE SessionStarts
  <2>1. session'.last = session.last + 1 /\ link' = link
    BY <1>2, StartStep DEF bridgeVars
  <2> QED
    BY <1>t, <2>1 DEF KnowsThePanel, Answers
<1>3. CASE SessionEnds
  <2>1. session'.alive = FALSE
    BY <1>3, EndStep
  <2> QED
    BY <2>1 DEF KnowsThePanel, Answers
<1>4. CASE Reports
  <2>1. /\ session'.alive = session.alive /\ session'.last = session.last
        /\ UNCHANGED <<panel, link, task>>
    BY <1>4, ReportStep DEF bridgeVars
  <2> QED
    BY <2>1 DEF KnowsThePanel, Answers
<1>5. CASE OnReady
  <2>1. link'.read = FALSE /\ link'.snapshot = NewSnapshot /\ task'.at = "info"
    BY <1>5, ReadyStep
  <2> QED
    BY <1>0, <2>1 DEF KnowsThePanel
<1>6. CASE OnClosed
  <2>1. UNCHANGED <<panel, session, task>> /\ task.at = "idle"
    BY <1>6, ClosedStep DEF panelVars, OnClosed, Idle
  <2>2. link' = link \/ (link'.read = FALSE /\ link'.snapshot = NewSnapshot)
    BY <1>6, ClosedStep
  <2> QED
    BY <1>0, <2>1, <2>2 DEF KnowsThePanel, Answers
<1>7. CASE OnSia
  <2>1. /\ UNCHANGED <<panel, session>> /\ task'.at \in {"idle", "sia_status"}
        /\ link'.id = link.id /\ link'.read = link.read
        /\ link' = link \/ Applied(Head(events).ev)
    BY <1>7, SiaStep DEF panelVars
  <2> QED
    BY <2>1 DEF KnowsThePanel, Answers, Applied
<1>8. CASE InnerSteps
  <2>1. Inner
    BY <1>8, InnerStep
  <2>2. /\ session' = session /\ DOMAIN panel'.zones = DOMAIN panel.zones /\ link'.id = link.id
    BY <2>1 DEF Inner, SameWorld, SamePanel
  <2>3. SUFFICES ASSUME Answers'
                 PROVE  KnowsThePanel'
    BY DEF KnowsThePanel
  <2>4. Answers
    BY <2>2, <2>3 DEF Answers
  <2>5. /\ DOMAIN link'.snapshot.zones \subseteq DOMAIN panel.zones
        /\ \A z \in DOMAIN link'.snapshot.zones : link'.snapshot.zones[z].area = ZoneArea[z]
    BY <2>1, <2>4, InnerZones DEF KnowsThePanel
  <2>6. link'.read => /\ DOMAIN link'.snapshot.areas = Areas
                      /\ DOMAIN link'.snapshot.zones = DOMAIN panel.zones
    BY <2>1, <2>4, InnerRead
  <2>7. /\ task'.at \in {"zones", "status"} => AreaIds(task'.areas) = Areas
        /\ task'.at = "status" =>
             /\ ZoneIds(task'.zones) = DOMAIN panel.zones
             /\ \A z \in ZoneIds(task'.zones) : RowOfZone(task'.zones, z).AREA = ZoneArea[z]
    <3>1. CASE task'.at \notin {"zones", "status"}
      BY <3>1
    <3>2. CASE task' = task
      BY <2>4, <3>2 DEF KnowsThePanel
    <3>3. CASE task'.at = "zones" /\ task'.areas = AreasReply
      BY <1>t, <3>3, AreasReplyIs
    <3>4. CASE /\ task.at = "zones" /\ task'.at = "status"
               /\ task'.areas = task.areas /\ task'.zones = ZonesReply
      BY <1>t, <2>4, <3>4, ZonesReplyIs DEF KnowsThePanel
    <3> QED
      BY <2>1, <3>1, <3>2, <3>3, <3>4 DEF Inner, WaitsAfter
  <2> QED
    BY <2>2, <2>5, <2>6, <2>7 DEF KnowsThePanel
<1>9. CASE UNCHANGED vars
  BY <1>9 DEF vars, panelVars, bridgeVars, KnowsThePanel, Answers
<1> QED
  BY <1>1, <1>2, <1>3, <1>4, <1>5, <1>6, <1>7, <1>8, <1>9, Kinds

\* The i-th event moves zone z.
At(i, z) == Moves(events[i], z)

\* An event that has been handled moved no other zone, and the others are still there.
LEMMA MovingTaken ==
  ASSUME TypeOK, events # <<>>, events' = Tail(events), session' = session, NEW z
  PROVE  /\ Moving(z) => Moves(Head(events), z) \/ Moving(z)'
         /\ Moving(z)' => Moving(z)
         /\ \A i \in DOMAIN events' :
              /\ At(i, z)' <=> At(i + 1, z)
              /\ (\A j \in (i + 1)..Len(events') : ~At(j, z)') =>
                   \A j \in (i + 2)..Len(events) : ~At(j, z)
<1>1. /\ Head(events) = events[1] /\ 1 \in DOMAIN events
      /\ Len(events') = Len(events) - 1 /\ Len(events') \in Nat /\ events' \in Seq(LinkEvent)
      /\ \A i \in DOMAIN events' : i + 1 \in DOMAIN events /\ events'[i] = events[i + 1]
      /\ \A i \in DOMAIN events : i > 1 => i - 1 \in DOMAIN events' /\ events'[i - 1] = events[i]
  BY EventTaken
<1>t. events \in Seq(LinkEvent)
  BY DEF TypeOK
<1>2. \A i \in DOMAIN events' : At(i, z)' <=> At(i + 1, z)
  BY <1>1 DEF At, Moves
<1>3. Moving(z)' => Moving(z)
  BY <1>1, <1>2 DEF At, Moving
<1>4. ASSUME NEW i \in DOMAIN events, At(i, z) PROVE Moves(Head(events), z) \/ Moving(z)'
  <2>1. CASE i = 1
    BY <1>1, <1>4, <2>1 DEF At
  <2>2. CASE i # 1
    <3>1. i > 1 /\ i - 1 \in DOMAIN events' /\ (i - 1) + 1 = i
      BY <1>1, <1>t, <2>2
    <3>2. At(i - 1, z)'
      BY <1>2, <1>4, <3>1
    <3> QED
      BY <3>1, <3>2 DEF At, Moving
  <2> QED
    BY <2>1, <2>2
<1>5. ASSUME NEW i \in DOMAIN events', \A j \in (i + 1)..Len(events') : ~At(j, z)',
             NEW j \in (i + 2)..Len(events)
      PROVE  ~At(j, z)
  <2>1. j - 1 \in (i + 1)..Len(events') /\ j - 1 \in DOMAIN events' /\ (j - 1) + 1 = j
    BY <1>1, <1>t, <1>5
  <2> QED
    BY <1>2, <1>5, <2>1
<1> QED
  BY <1>2, <1>3, <1>4, <1>5 DEF At, Moving

\* An event that is added and is not of the session moves nothing.
LEMMA MovingAdded ==
  ASSUME TypeOK, NEW e \in LinkEvent, e.kind # "Sia", e.id \in 1..session.last,
         events' = Append(events, e), session'.last = session.last, NEW z
  PROVE  /\ Moving(z) => Moving(z)'
         /\ \A i \in DOMAIN events' :
              At(i, z)' =>
                /\ i \in DOMAIN events /\ events'[i] = events[i] /\ At(i, z)
                /\ (\A j \in (i + 1)..Len(events') : ~At(j, z)') =>
                     \A j \in (i + 1)..Len(events) : ~At(j, z)
<1>t. events \in Seq(LinkEvent) /\ session.last \in Nat
  BY DEF TypeOK
<1>1. /\ Len(events') = Len(events) + 1 /\ events'[Len(events) + 1] = e
      /\ \A i \in DOMAIN events : i \in DOMAIN events' /\ events'[i] = events[i]
      /\ \A i \in DOMAIN events' : i \in DOMAIN events \/ i = Len(events) + 1
      /\ events' \in Seq(LinkEvent)
  BY <1>t, EventAdded
<1>2. ~Moves(e, z)'
  BY DEF At, Moves
<1>3. \A i \in DOMAIN events : At(i, z)' <=> At(i, z)
  BY <1>1 DEF At, Moves
<1>4. \A i \in DOMAIN events' : At(i, z)' => i \in DOMAIN events
  BY <1>1, <1>2 DEF At, Moves
<1>5. ASSUME NEW i \in DOMAIN events, \A j \in (i + 1)..Len(events') : ~At(j, z)',
             NEW j \in (i + 1)..Len(events)
      PROVE  ~At(j, z)
  <2>1. j \in (i + 1)..Len(events') /\ j \in DOMAIN events
    BY <1>1, <1>t, <1>5
  <2> QED
    BY <1>3, <1>5, <2>1
<1> QED
  BY <1>1, <1>3, <1>4, <1>5 DEF At, Moving

\* A zone is shown as it is, or an event that says how it is is on its way, if none
\* was dropped.
LEMMA ToldStep ==
  ASSUME TypeOK, EventsInOrder, LoadedFirst, KnowsThePanel, AlarmsAreKept, ZonesAreTold, [Next]_vars
  PROVE  ZonesAreTold'
<1>t. /\ session.last \in Nat /\ link.id \in 0..session.last /\ session.alive \in BOOLEAN /\ PanelOK
      /\ events \in Seq(LinkEvent) /\ \A i \in DOMAIN events : events[i].id \in 1..session.last
  BY DEF TypeOK
<1>0. DOMAIN NewSnapshot.zones = {}
  BY DEF NewSnapshot, NoEntries
<1> DEFINE Input(z) == ZoneInput(panel.zones[z].input)
           Shown(z) ==
             /\ z \in DOMAIN link.snapshot.zones => link.snapshot.zones[z].input = Input(z)
             /\ task.at = "status" /\ z \in ZoneIds(task.zones) =>
                  ZoneInput(RowOfZone(task.zones, z).INPUT) = Input(z)
           Last(z) ==
             \A i \in DOMAIN events :
                At(i, z) /\ (\A j \in (i + 1)..Len(events) : ~At(j, z))
                  => EventInput(events[i].ev) = Input(z)
<1>a. ZonesAreTold <=> /\ session.alive => \A z \in DOMAIN panel.zones \ unheard : Last(z)
                       /\ Answers =>
                            \A z \in DOMAIN panel.zones \ unheard : Moving(z) \/ Shown(z)
  BY DEF ZonesAreTold, At
<1>b. ZonesAreTold' <=> /\ session'.alive => \A z \in DOMAIN panel'.zones \ unheard' : Last(z)'
                        /\ Answers' =>
                             \A z \in DOMAIN panel'.zones \ unheard' : Moving(z)' \/ Shown(z)'
  BY DEF ZonesAreTold, At
<1>1. CASE PanelSteps
  <2>1. Told /\ UNCHANGED <<link, task>>
    BY <1>1, PanelStep DEF bridgeVars
  <2>2. SUFFICES ASSUME session.alive
                 PROVE  ZonesAreTold'
    BY <2>1 DEF Told, ZonesAreTold, Answers
  <2>3. /\ session' = session /\ DOMAIN panel'.zones = DOMAIN panel.zones
        /\ events' \in Seq(LinkEvent)
        /\ \A i \in DOMAIN events : i \in DOMAIN events' /\ events'[i] = events[i]
    BY <2>1, <2>2 DEF Told
  <2>4. \A z, i : At(i, z)' <=> Moves(events'[i], z)
    BY <2>3 DEF At, Moves
  <2>5. ASSUME NEW z \in DOMAIN panel.zones \ unheard' PROVE Last(z)' /\ (Answers => Moving(z)' \/ Shown(z)')
    <3>1. /\ \A i \in DOMAIN events' :
               i \notin DOMAIN events /\ Moves(events'[i], z) =>
                 EventInput(events'[i].ev) = ZoneInput(panel'.zones[z].input)
          /\ \/ panel'.zones[z].input = panel.zones[z].input /\ z \notin unheard
             \/ \E i \in DOMAIN events' : i \notin DOMAIN events /\ Moves(events'[i], z)
      BY <2>1, <2>2, <2>3, <2>5 DEF Told
    <3>2. ASSUME NEW i \in DOMAIN events', Moves(events'[i], z),
                 \A j \in (i + 1)..Len(events') : ~Moves(events'[j], z)
          PROVE  EventInput(events'[i].ev) = ZoneInput(panel'.zones[z].input)
      <4>1. CASE i \notin DOMAIN events
        BY <3>1, <3>2, <4>1
      <4>2. CASE i \in DOMAIN events
        <5>1. \A j \in DOMAIN events' : j \notin DOMAIN events => j \in (i + 1)..Len(events')
          BY <1>t, <2>3, <4>2
        <5>2. panel'.zones[z].input = panel.zones[z].input /\ z \notin unheard
          BY <3>1, <3>2, <5>1
        <5>3. \A j \in (i + 1)..Len(events) : j \in DOMAIN events /\ j \in (i + 1)..Len(events')
          BY <1>t, <2>3, <4>2
        <5>4. \A j \in (i + 1)..Len(events) : ~At(j, z)
          BY <2>3, <3>2, <5>3 DEF At
        <5>5. At(i, z)
          BY <2>3, <3>2, <4>2 DEF At
        <5>6. Last(z)
          BY <1>a, <2>2, <2>5, <5>2
        <5>7. EventInput(events[i].ev) = Input(z)
          BY <4>2, <5>4, <5>5, <5>6
        <5> QED
          BY <2>3, <4>2, <5>2, <5>7
      <4> QED
        BY <4>1, <4>2
    <3>3. Last(z)'
      BY <2>4, <3>2
    <3>4. Answers => Moving(z)' \/ Shown(z)'
      <4>1. CASE panel'.zones[z].input = panel.zones[z].input /\ z \notin unheard
        <5>1. Moving(z) => Moving(z)'
          BY <2>3, <2>4 DEF At, Moving
        <5>2. Shown(z) => Shown(z)'
          BY <2>1, <4>1
        <5>3. Answers => Moving(z) \/ Shown(z)
          BY <1>a, <2>5, <4>1
        <5> QED
          BY <5>1, <5>2, <5>3
      <4>2. CASE \E i \in DOMAIN events' : i \notin DOMAIN events /\ Moves(events'[i], z)
        BY <2>4, <4>2 DEF At, Moving
      <4> QED
        BY <3>1, <4>1, <4>2
    <3> QED
      BY <3>3, <3>4
  <2>6. Answers' <=> Answers
    BY <2>1, <2>3 DEF Answers
  <2> HIDE DEF Last, Shown
  <2> QED
    BY <1>b, <2>3, <2>5, <2>6
<1>2. CASE SessionStarts
  <2>1. PICK e \in LinkEvent : e.kind = "Ready" /\ e.id = session'.last /\ events' = Append(events, e)
    BY <1>2, StartStep
  <2>2. session'.last = session.last + 1 /\ link' = link
    BY <1>2, StartStep DEF bridgeVars
  <2>3. session.last <= session'.last /\ e.id \in 1..session'.last /\ session'.last \in Nat
    BY <1>t, <2>1, <2>2
  <2>4. /\ events'[Len(events) + 1] = e
        /\ \A i \in DOMAIN events : i \in DOMAIN events' /\ events'[i] = events[i]
        /\ \A i \in DOMAIN events' : i \in DOMAIN events \/ i = Len(events) + 1
    BY <2>1, <2>3, EventAdded
  <2>5. \A i \in DOMAIN events : events[i].id # session'.last
    BY <1>t, <2>2
  <2>6. \A z, i : i \in DOMAIN events' => ~At(i, z)'
    BY <2>1, <2>4, <2>5 DEF At, Moves
  <2>7. ~Answers'
    BY <1>t, <2>2 DEF Answers
  <2> QED
    BY <1>b, <2>6, <2>7
<1>3. CASE SessionEnds
  <2>1. session'.alive = FALSE
    BY <1>3, EndStep
  <2> QED
    BY <2>1 DEF ZonesAreTold, Answers
<1>4. CASE Reports
  <2>1. PICK s \in session.closing :
           /\ session'.last = session.last /\ session'.alive = session.alive
           /\ UNCHANGED <<panel, link, task, unheard>>
           /\ \E e \in LinkEvent : e.kind = "Closed" /\ e.id = s /\ events' = Append(events, e)
    BY <1>4, ReportStep DEF bridgeVars
  <2>2. PICK e \in LinkEvent : e.kind = "Closed" /\ e.id = s /\ events' = Append(events, e)
    BY <2>1
  <2>3. e.kind # "Sia" /\ e.id \in 1..session.last
    BY <2>1, <2>2 DEF TypeOK
  <2>4. ASSUME NEW z PROVE (Moving(z) => Moving(z)') /\ (Last(z) => Last(z)') /\ (Shown(z) => Shown(z)')
    <3>1. /\ Moving(z) => Moving(z)'
          /\ \A i \in DOMAIN events' :
               At(i, z)' =>
                 /\ i \in DOMAIN events /\ events'[i] = events[i] /\ At(i, z)
                 /\ (\A j \in (i + 1)..Len(events') : ~At(j, z)') =>
                      \A j \in (i + 1)..Len(events) : ~At(j, z)
      BY <2>1, <2>2, <2>3, MovingAdded
    <3>2. Last(z) => Last(z)'
      BY <2>1, <3>1
    <3>3. Shown(z) => Shown(z)'
      BY <2>1
    <3> QED
      BY <3>1, <3>2, <3>3
  <2>5. Answers' <=> Answers
    BY <2>1 DEF Answers
  <2> HIDE DEF Last, Shown
  <2> QED
    BY <1>a, <1>b, <2>1, <2>4, <2>5
<1>5. CASE OnReady \/ OnClosed \/ OnSia
  <2>1. /\ events # <<>> /\ events' = Tail(events) /\ UNCHANGED <<panel, session, unheard>>
    BY <1>5, ReadyStep, ClosedStep, SiaStep DEF panelVars
  <2>2. Head(events) = events[1] /\ 1 \in DOMAIN events
        /\ \A i \in DOMAIN events' : i + 1 \in DOMAIN events /\ events'[i] = events[i + 1]
        /\ Len(events') = Len(events) - 1 /\ events' \in Seq(LinkEvent)
    BY <2>1, EventTaken
  <2>3. ASSUME NEW z PROVE Last(z) => Last(z)'
    <3>1. /\ \A i \in DOMAIN events' :
              /\ At(i, z)' <=> At(i + 1, z)
              /\ (\A j \in (i + 1)..Len(events') : ~At(j, z)') =>
                   \A j \in (i + 2)..Len(events) : ~At(j, z)
      BY <2>1, MovingTaken
    <3>2. \A i \in DOMAIN events' : (i + 1) + 1 = i + 2
      BY <2>2
    <3>3. ASSUME Last(z), NEW i \in DOMAIN events', At(i, z)',
                 \A j \in (i + 1)..Len(events') : ~At(j, z)'
          PROVE  EventInput(events'[i].ev) = Input(z)
      <4>1. At(i + 1, z) /\ \A j \in ((i + 1) + 1)..Len(events) : ~At(j, z)
        BY <3>1, <3>2, <3>3
      <4>2. EventInput(events[i + 1].ev) = Input(z)
        BY <2>2, <3>3, <4>1
      <4> QED
        BY <2>2, <3>3, <4>2
    <3> QED
      BY <2>1, <3>3
  <2>4. ASSUME Answers', NEW z \in DOMAIN panel.zones \ unheard PROVE Moving(z)' \/ Shown(z)'
    <3>1. /\ Moving(z) => Moves(Head(events), z) \/ Moving(z)'
      BY <2>1, MovingTaken
    <3>2. CASE OnReady
      BY <1>0, <3>2, ReadyStep
    <3>3. CASE OnClosed
      <4>1. task' = task /\ task.at = "idle" /\ Head(events).kind = "Closed"
        BY <3>3, ClosedStep DEF OnClosed, Idle
      <4>2. link' = link \/ link'.snapshot = NewSnapshot
        BY <3>3, ClosedStep
      <4>3. ~Moves(Head(events), z)
        BY <4>1 DEF At, Moves
      <4>4. CASE link' = link
        <5>1. Answers
          BY <2>1, <2>4, <4>4 DEF Answers
        <5> QED
          BY <1>a, <2>1, <2>4, <3>1, <4>1, <4>3, <4>4, <5>1
      <4>5. CASE link'.snapshot = NewSnapshot
        BY <1>0, <4>1, <4>5
      <4> QED
        BY <4>2, <4>4, <4>5
    <3>4. CASE OnSia
      <4> DEFINE h == Head(events)
      <4>1. /\ link'.id = link.id /\ h.kind = "Sia" /\ task'.at # "status"
            /\ \/ (link.id # h.id \/ ~link.loaded) /\ link' = link
               \/ link.id = h.id /\ link.loaded /\ Applied(h.ev)
        BY <3>4, SiaStep
      <4>2. Answers /\ link.id = session.last
        BY <2>1, <2>4, <4>1 DEF Answers
      <4>3. ASSUME ~Moving(z)', z \in DOMAIN link'.snapshot.zones
            PROVE  link'.snapshot.zones[z].input = Input(z)
        <5>1. CASE Moves(h, z)
          <6>1. h.id = session.last /\ h.ev.address = z
                /\ h.ev.code \in ZONE_ALARM_CODES \cup {"ZO", "ZC"}
            BY <5>1 DEF At, Moves
          <6>2. link.loaded
            BY <1>0, <4>1, <4>3 DEF LoadedFirst
          <6>3. Applied(h.ev)
            BY <4>1, <4>2, <6>1, <6>2
          <6>4. z \in DOMAIN link.snapshot.zones
            BY <4>3, <6>3 DEF Applied
          <6>5. z \in MovedZones(link.snapshot, h.ev)
            BY <6>1, <6>4 DEF MovedZones
          <6>6. link'.snapshot.zones[z].input = EventInput(h.ev)
            BY <6>3, <6>4, <6>5 DEF Applied
          <6>7. \A j \in (1 + 1)..Len(events) : ~At(j, z)
            <7>1. ASSUME NEW j \in (1 + 1)..Len(events) PROVE ~At(j, z)
              <8>1. j \in DOMAIN events /\ j > 1
                BY <1>t, <7>1
              <8>2. j - 1 \in DOMAIN events' /\ (j - 1) + 1 = j
                BY <2>1, <8>1, EventTaken
              <8>3. At(j - 1, z)' <=> At(j, z)
                BY <2>1, <8>2, MovingTaken
              <8> QED
                BY <4>3, <8>2, <8>3 DEF At, Moving
            <7> QED
              BY <7>1
          <6>8. Last(z)
            BY <1>a, <2>4, <4>2 DEF Answers
          <6>9. EventInput(events[1].ev) = Input(z)
            BY <2>2, <5>1, <6>7, <6>8 DEF At
          <6> QED
            BY <2>2, <6>6, <6>9
        <5>2. CASE ~Moves(h, z)
          <6>1. Shown(z)
            BY <1>a, <2>4, <3>1, <4>2, <4>3, <5>2
          <6>2. CASE link' = link
            BY <4>3, <6>1, <6>2
          <6>3. CASE link.id = h.id /\ Applied(h.ev)
            <7>1. z \in DOMAIN link.snapshot.zones
              BY <4>3, <6>3 DEF Applied
            <7>2. z \notin MovedZones(link.snapshot, h.ev)
              BY <4>1, <4>2, <5>2, <6>3 DEF MovedZones, Moves
            <7>3. link'.snapshot.zones[z].input = link.snapshot.zones[z].input
              BY <6>3, <7>1, <7>2 DEF Applied
            <7> QED
              BY <6>1, <7>1, <7>3
          <6> QED
            BY <4>1, <6>2, <6>3
        <5> QED
          BY <5>1, <5>2
      <4> QED
        BY <2>1, <4>1, <4>3
    <3> QED
      BY <1>5, <3>2, <3>3, <3>4
  <2> HIDE DEF Last, Shown
  <2> QED
    BY <1>a, <1>b, <2>1, <2>3, <2>4
<1>6. CASE InnerSteps
  <2>1. Inner
    BY <1>6, InnerStep
  <2>2. /\ session' = session /\ events' = events /\ link'.id = link.id /\ unheard' = unheard
        /\ DOMAIN panel'.zones = DOMAIN panel.zones
        /\ \A z \in DOMAIN panel.zones : panel'.zones[z].input = panel.zones[z].input
    BY <2>1 DEF Inner, SameWorld, SamePanel
  <2>3. /\ Answers' <=> Answers
        /\ \A z : Moving(z)' <=> Moving(z)
        /\ \A z, i : At(i, z)' <=> At(i, z)
    BY <2>2 DEF Answers, At, Moving, Moves
  <2>4. \A z \in DOMAIN panel.zones : Last(z) => Last(z)'
    BY <2>2, <2>3
  <2>5. ASSUME Answers, NEW z \in DOMAIN panel.zones, Shown(z) PROVE Shown(z)'
    <3>1. z \in DOMAIN link'.snapshot.zones => link'.snapshot.zones[z].input = Input(z)
      BY <2>1, <2>5, InnerZones
    <3>2. task'.at = "status" /\ z \in ZoneIds(task'.zones) =>
            ZoneInput(RowOfZone(task'.zones, z).INPUT) = Input(z)
      <4>1. CASE task'.at # "status"
        BY <4>1
      <4>2. CASE task' = task
        BY <2>5, <4>2
      <4>3. CASE task'.zones = ZonesReply
        BY <1>t, <2>5, <4>3, ZonesReplyIs
      <4> QED
        BY <2>1, <4>1, <4>2, <4>3 DEF Inner, WaitsAfter
    <3>3. Input(z)' = Input(z)
      BY <2>2, <2>5
    <3> HIDE DEF Input
    <3> QED
      BY <3>1, <3>2, <3>3
  <2> HIDE DEF Last, Shown
  <2> QED
    BY <1>a, <1>b, <2>2, <2>3, <2>4, <2>5
<1>7. CASE UNCHANGED vars
  BY <1>7 DEF vars, panelVars, bridgeVars, ZonesAreTold, Answers, Moving, Moves
<1> QED
  BY <1>1, <1>2, <1>3, <1>4, <1>5, <1>6, <1>7, Kinds

\* The i-th event raises the alarm of area a.
Rung(i, a) == Rings(events[i], a)

\* What is on its way stays there until it is handled.
LEMMA RingingKept ==
  ASSUME TypeOK, NEW a, session'.last = session.last, DOMAIN panel'.zones = DOMAIN panel.zones,
         Ringing(a)
  PROVE  /\ (\A i \in DOMAIN events : i \in DOMAIN events' /\ events'[i] = events[i]) => Ringing(a)'
         /\ events # <<>> /\ events' = Tail(events) => Rings(Head(events), a) \/ Ringing(a)'
<1>1. PICK i \in DOMAIN events : Rings(events[i], a)
  BY DEF Ringing
<1>2. ASSUME \A j \in DOMAIN events : j \in DOMAIN events' /\ events'[j] = events[j] PROVE Ringing(a)'
  <2>1. i \in DOMAIN events' /\ Rung(i, a)'
    BY <1>1, <1>2 DEF Rung, Rings
  <2> QED
    BY <2>1 DEF Ringing, Rung
<1>3. ASSUME events # <<>>, events' = Tail(events) PROVE Rings(Head(events), a) \/ Ringing(a)'
  <2>1. /\ Head(events) = events[1]
        /\ \A j \in DOMAIN events : j > 1 => j - 1 \in DOMAIN events' /\ events'[j - 1] = events[j]
    BY <1>3, EventTaken
  <2>2. CASE i = 1
    BY <1>1, <2>1, <2>2
  <2>3. CASE i # 1
    <3>1. i > 1
      BY <1>1, <2>3 DEF TypeOK
    <3>2. i - 1 \in DOMAIN events' /\ events'[i - 1] = events[i]
      BY <1>1, <2>1, <3>1
    <3>3. Rung(i - 1, a)'
      BY <1>1, <3>2 DEF Rung, Rings
    <3> QED
      BY <3>2, <3>3 DEF Ringing, Rung
  <2> QED
    BY <2>2, <2>3
<1> QED
  BY <1>2, <1>3

\* An alarm is only known to a session that answers.
LEMMA AlarmsStep ==
  ASSUME TypeOK, EventsInOrder, LoadedFirst, KnowsThePanel, AlarmsAreKept, [Next]_vars
  PROVE  AlarmsAreKept'
<1>t. /\ session.last \in Nat /\ link.id \in 0..session.last /\ session.alive \in BOOLEAN /\ PanelOK
      /\ alarmed \subseteq Areas
  BY DEF TypeOK
<1> DEFINE Shown(a) ==
             /\ WasTriggered(link.snapshot.areas, a)
             /\ task.at \in {"zones", "status"} => ArmMode(RowOfArea(task.areas, a).MODE) # "Unset"
<1>a. ASSUME NEW a \in alarmed PROVE Seen /\ panel.modes[a] # "0" /\ (Ringing(a) \/ Shown(a))
  BY <1>a DEF AlarmsAreKept, IsSet
<1>b. ASSUME \A a \in alarmed' : Seen' /\ panel'.modes[a] # "0" /\ (Ringing(a)' \/ Shown(a)')
      PROVE  AlarmsAreKept'
  BY <1>b DEF AlarmsAreKept, IsSet
<1>c. alarmed # {} => Seen
  BY DEF AlarmsAreKept
<1>1. CASE PanelSteps
  <2>1. Told /\ UNCHANGED <<link, task>>
    BY <1>1, PanelStep DEF bridgeVars
  <2>2. /\ session' = session
        /\ \A i \in DOMAIN events : i \in DOMAIN events' /\ events'[i] = events[i]
        /\ session.alive => DOMAIN panel'.zones = DOMAIN panel.zones
    BY <2>1 DEF Told
  <2>3. Seen' <=> Seen
    BY <2>1, <2>2 DEF Seen
  <2>4. ASSUME NEW a \in alarmed' PROVE Seen' /\ panel'.modes[a] # "0" /\ (Ringing(a)' \/ Shown(a)')
    <3>1. /\ panel'.modes[a] # "0"
          /\ \/ a \in alarmed
             \/ Seen /\ \E i \in DOMAIN events' : i \notin DOMAIN events /\ Rings(events'[i], a)
      BY <2>1, <2>4 DEF Told
    <3>2. CASE a \in alarmed
      <4>1. Seen /\ (Ringing(a) \/ Shown(a))
        BY <1>a, <3>2
      <4>2. DOMAIN panel'.zones = DOMAIN panel.zones
        BY <2>2, <4>1 DEF Seen
      <4>3. Ringing(a) => Ringing(a)'
        BY <2>2, <4>2, RingingKept
      <4>4. Shown(a) => Shown(a)'
        BY <2>1
      <4> QED
        BY <2>3, <3>1, <4>1, <4>3, <4>4
    <3>3. CASE Seen /\ \E i \in DOMAIN events' : i \notin DOMAIN events /\ Rings(events'[i], a)
      <4>1. DOMAIN panel'.zones = DOMAIN panel.zones
        BY <2>2, <3>3 DEF Seen
      <4>2. PICK i \in DOMAIN events' : Rings(events'[i], a)
        BY <3>3
      <4>3. Rung(i, a)'
        BY <2>2, <4>1, <4>2 DEF Rung, Rings
      <4>4. Ringing(a)'
        BY <4>3 DEF Rung, Ringing
      <4> QED
        BY <2>3, <3>1, <3>3, <4>4
    <3> QED
      BY <3>1, <3>2, <3>3
  <2> HIDE DEF Shown
  <2> QED
    BY <1>b, <2>4
<1>2. CASE SessionStarts
  <2>1. alarmed' = alarmed /\ ~session.alive
    BY <1>2, StartStep
  <2>2. alarmed' = {}
    BY <1>c, <2>1 DEF Seen
  <2> QED
    BY <2>2 DEF AlarmsAreKept
<1>3. CASE SessionEnds
  <2>1. alarmed' = {}
    BY <1>3, EndStep
  <2> QED
    BY <2>1 DEF AlarmsAreKept
<1>4. CASE Reports
  <2>1. PICK s \in session.closing :
           /\ session'.last = session.last /\ session'.alive = session.alive
           /\ UNCHANGED <<panel, link, task, alarmed>>
           /\ \E e \in LinkEvent : e.kind = "Closed" /\ e.id = s /\ events' = Append(events, e)
    BY <1>4, ReportStep DEF bridgeVars
  <2>2. PICK e \in LinkEvent : e.kind = "Closed" /\ e.id = s /\ events' = Append(events, e)
    BY <2>1
  <2>3. \A i \in DOMAIN events : i \in DOMAIN events' /\ events'[i] = events[i]
    BY <2>2, Appended DEF TypeOK
  <2>4. ASSUME NEW a \in alarmed' PROVE Seen' /\ panel'.modes[a] # "0" /\ (Ringing(a)' \/ Shown(a)')
    <3>1. Seen /\ panel.modes[a] # "0" /\ (Ringing(a) \/ Shown(a))
      BY <1>a, <2>1, <2>4
    <3>2. Ringing(a) => Ringing(a)'
      BY <2>1, <2>3, RingingKept
    <3>3. Shown(a) => Shown(a)'
      BY <2>1
    <3> HIDE DEF Shown
    <3> QED
      BY <2>1, <3>1, <3>2, <3>3 DEF Seen
  <2> HIDE DEF Shown
  <2> QED
    BY <1>b, <2>4
<1>5. CASE OnReady
  <2>1. /\ events # <<>> /\ Head(events).kind = "Ready" /\ events' = Tail(events) /\ alarmed' = alarmed
    BY <1>5, ReadyStep
  <2>2. Head(events) = events[1] /\ 1 \in DOMAIN events /\ Head(events).id \in 1..session.last
    BY <2>1, EventTaken
  <2>3. link.id < Head(events).id
    BY <2>1, <2>2 DEF EventsInOrder
  <2>4. link.id # session.last
    BY <1>t, <2>2, <2>3
  <2>5. alarmed' = {}
    BY <1>c, <2>1, <2>4 DEF Seen
  <2> QED
    BY <2>5 DEF AlarmsAreKept
<1>6. CASE OnClosed
  <2>1. /\ events # <<>> /\ Head(events).kind = "Closed" /\ events' = Tail(events)
        /\ UNCHANGED <<panel, session, task, alarmed>>
        /\ link.id = Head(events).id \/ link' = link
    BY <1>6, ClosedStep DEF panelVars
  <2>2. Head(events) = events[1] /\ 1 \in DOMAIN events
    BY <2>1, EventTaken
  <2>3. session.alive => Head(events).id # session.last
    BY <2>1, <2>2 DEF EventsInOrder
  <2>4. ASSUME NEW a \in alarmed' PROVE Seen' /\ panel'.modes[a] # "0" /\ (Ringing(a)' \/ Shown(a)')
    <3>1. Seen /\ panel.modes[a] # "0" /\ (Ringing(a) \/ Shown(a))
      BY <1>a, <2>1, <2>4
    <3>2. link' = link
      BY <2>1, <2>3, <3>1 DEF Seen
    <3>3. ~Rings(Head(events), a)
      BY <2>1 DEF Rings
    <3>4. Ringing(a) => Ringing(a)'
      BY <2>1, <3>3, RingingKept
    <3>5. Shown(a) => Shown(a)'
      BY <2>1, <3>2
    <3> HIDE DEF Shown
    <3> QED
      BY <2>1, <3>1, <3>2, <3>4, <3>5 DEF Seen
  <2> HIDE DEF Shown
  <2> QED
    BY <1>b, <2>4
<1>7. CASE OnSia
  <2> DEFINE h == Head(events)
  <2>1. /\ events # <<>> /\ h.kind = "Sia" /\ events' = Tail(events)
        /\ UNCHANGED <<panel, session, alarmed>>
        /\ link'.id = link.id /\ link'.read = link.read /\ task'.at \in {"idle", "sia_status"}
        /\ \/ (link.id # h.id \/ ~link.loaded) /\ link' = link
           \/ link.id = h.id /\ link.loaded /\ Applied(h.ev)
    BY <1>7, SiaStep DEF panelVars
  <2>2. ASSUME NEW a \in alarmed' PROVE Seen' /\ panel'.modes[a] # "0" /\ (Ringing(a)' \/ Shown(a)')
    <3>1. Seen /\ panel.modes[a] # "0" /\ (Ringing(a) \/ Shown(a)) /\ a \in Areas
      BY <1>a, <1>t, <2>1, <2>2
    <3>2. link.loaded /\ Answers
      BY <3>1 DEF Seen, LoadedFirst, Answers
    <3>3. DOMAIN link.snapshot.areas = Areas /\ DOMAIN link.snapshot.zones = DOMAIN panel.zones
      BY <3>1, <3>2 DEF Seen, KnowsThePanel
    <3>4. Ringing(a) => Rings(h, a) \/ Ringing(a)'
      BY <2>1, RingingKept
    <3>5. Rings(h, a) => WasTriggered(link'.snapshot.areas, a)
      <4>1. SUFFICES ASSUME Rings(h, a)
                     PROVE  WasTriggered(link'.snapshot.areas, a)
        OBVIOUS
      <4>2. /\ h.id = session.last /\ h.ev.code = "BA" /\ h.ev.address \in DOMAIN panel.zones
            /\ ZoneArea[h.ev.address] = a
        BY <4>1 DEF Rings
      <4>3. Applied(h.ev)
        BY <2>1, <3>1, <3>2, <4>2 DEF Seen
      <4>4. link.snapshot.zones[h.ev.address].area = a
        BY <3>2, <3>3, <4>2 DEF KnowsThePanel
      <4>5. a \in U8
        BY <3>1, BridgeAssumption
      <4>6. a \in AlarmedAreas(link.snapshot, h.ev)
        BY <3>1, <3>3, <4>2, <4>4, <4>5 DEF AlarmedAreas, ZONE_ALARM_CODES
      <4> QED
        BY <3>1, <3>3, <4>3, <4>6 DEF Applied
    <3>6. WasTriggered(link.snapshot.areas, a) => WasTriggered(link'.snapshot.areas, a)
      BY <2>1, <3>1, <3>3 DEF Applied
    <3>7. Shown(a)' \/ Ringing(a)'
      BY <2>1, <3>1, <3>4, <3>5, <3>6
    <3> QED
      BY <2>1, <3>1, <3>7 DEF Seen
  <2> HIDE DEF Shown
  <2> QED
    BY <1>b, <2>2
<1>8. CASE InnerSteps
  <2>1. Inner
    BY <1>8, InnerStep
  <2>2. /\ session' = session /\ events' = events /\ alarmed' = alarmed /\ link'.id = link.id
        /\ DOMAIN panel'.zones = DOMAIN panel.zones /\ panel'.modes = panel.modes
    BY <2>1 DEF Inner, SameWorld, SamePanel
  <2>3. ASSUME NEW a \in alarmed' PROVE Seen' /\ panel'.modes[a] # "0" /\ (Ringing(a)' \/ Shown(a)')
    <3>1. Seen /\ panel.modes[a] # "0" /\ (Ringing(a) \/ Shown(a)) /\ a \in Areas
      BY <1>a, <1>t, <2>2, <2>3
    <3>2. Answers
      BY <3>1 DEF Seen, Answers
    <3>3. Ringing(a) => Ringing(a)'
      BY <2>2 DEF Ringing, Rings
    <3>4. link'.read
      BY <2>1, <3>1 DEF Inner, ReadAfter, Seen, AreasFrom
    <3>5. ArmMode(panel.modes[a]) # "Unset"
      BY <3>1 DEF ArmMode
    <3>6. Shown(a) => WasTriggered(link'.snapshot.areas, a)
      <4>1. CASE link'.snapshot.areas = link.snapshot.areas
        BY <4>1
      <4>2. CASE link'.snapshot.areas # link.snapshot.areas
        BY <2>1, <3>1, <3>5, <4>2, InnerAreas
      <4> QED
        BY <4>1, <4>2
    <3>7. ASSUME Shown(a), task'.at \in {"zones", "status"}
          PROVE  ArmMode(RowOfArea(task'.areas, a).MODE) # "Unset"
      <4>1. CASE task' = task
        BY <3>7, <4>1
      <4>2. CASE task'.areas = AreasReply
        BY <1>t, <3>1, <3>5, <4>2, AreasReplyIs
      <4>3. CASE task.at = "zones" /\ task'.areas = task.areas
        BY <3>7, <4>3
      <4> QED
        BY <2>1, <3>7, <4>1, <4>2, <4>3 DEF Inner, WaitsAfter
    <3>8. Shown(a) => Shown(a)'
      BY <3>6, <3>7
    <3> HIDE DEF Shown
    <3> QED
      BY <2>2, <3>1, <3>3, <3>4, <3>8 DEF Seen
  <2> HIDE DEF Shown
  <2> QED
    BY <1>b, <2>3
<1>9. CASE UNCHANGED vars
  BY <1>9 DEF vars, panelVars, bridgeVars, AlarmsAreKept, Seen, IsSet, Ringing, Rings
<1> QED
  BY <1>1, <1>2, <1>3, <1>4, <1>5, <1>6, <1>7, <1>8, <1>9, Kinds

-----------------------------------------------------------------------------
(* The connection to the broker, as the bridge has heard of it. *)

\* The i-th event of the connection is a turn of it.
TurnsAt(i) == Turns(mqtt_rx[i])

\* A turn of the connection is queued when it happens, and heard of in order.
LEMMA MqttMoves ==
  ASSUME TypeOK, [Next]_vars
  PROVE  \/ /\ BrokerAccepts \/ BrokerLost
            /\ mqtt_up' = mqtt_up
            /\ \E m \in MqttEvent :
                 mqtt_rx' = Append(mqtt_rx, m) /\ Turns(m) /\ (m.kind = "Connected") = conn'
         \/ /\ mqtt_up' = mqtt_up /\ conn' = conn
            /\ \E m \in MqttEvent : mqtt_rx' = Append(mqtt_rx, m) /\ ~Turns(m)
         \/ /\ mqtt_rx # <<>> /\ mqtt_rx' = Tail(mqtt_rx) /\ conn' = conn
            /\ \/ Head(mqtt_rx).kind = "Connected" /\ mqtt_up' = TRUE /\ OnConnected
               \/ Head(mqtt_rx).kind = "Disconnected" /\ mqtt_up' = FALSE
               \/ ~Turns(Head(mqtt_rx)) /\ mqtt_up' = mqtt_up
         \/ UNCHANGED mqtt_rx /\ UNCHANGED mqtt_up /\ UNCHANGED conn
<1>t. mqtt_rx \in Seq(MqttEvent) /\ mqtt_up \in BOOLEAN /\ conn \in BOOLEAN
  BY DEF TypeOK
<1>1. \A k \in {"Connected", "Disconnected", "HomeAssistantOnline"} : [kind |-> k] \in MqttEvent
  BY DEF MqttEvent
<1>2. CASE BrokerAccepts
  <2> DEFINE m == [kind |-> "Connected"]
  <2>1. m \in MqttEvent /\ Turns(m) /\ m.kind = "Connected"
    BY <1>1 DEF Turns
  <2>2. mqtt_rx' = Append(mqtt_rx, m) /\ mqtt_up' = mqtt_up /\ conn' = TRUE
    BY <1>2 DEF BrokerAccepts, bridgeVars
  <2> HIDE DEF m
  <2>3. (m.kind = "Connected") = conn'
    BY <2>1, <2>2
  <2> QED
    BY <1>2, <2>1, <2>2, <2>3
<1>3. CASE BrokerLost
  <2> DEFINE m == [kind |-> "Disconnected"]
  <2>1. m \in MqttEvent /\ Turns(m) /\ m.kind # "Connected"
    BY <1>1 DEF Turns
  <2>2. mqtt_rx' = Append(mqtt_rx, m) /\ mqtt_up' = mqtt_up /\ conn' = FALSE
    BY <1>3 DEF BrokerLost, bridgeVars
  <2> HIDE DEF m
  <2>3. (m.kind = "Connected") = conn'
    BY <2>1, <2>2
  <2> QED
    BY <1>3, <2>1, <2>2, <2>3
<1>4. CASE HomeAssistantStarts
  <2> DEFINE m == [kind |-> "HomeAssistantOnline"]
  <2>1. m \in MqttEvent /\ ~Turns(m)
    BY <1>1 DEF Turns
  <2>2. mqtt_rx' = Append(mqtt_rx, m) /\ mqtt_up' = mqtt_up /\ conn' = conn
    BY <1>4 DEF HomeAssistantStarts, bridgeVars
  <2> HIDE DEF m
  <2> QED
    BY <2>1, <2>2
<1>5. ASSUME NEW t \in DOMAIN retained, NEW payload \in {"ON", "OFF"}, SwitchUsed(t, payload)
      PROVE  /\ mqtt_up' = mqtt_up /\ conn' = conn
             /\ \E m \in MqttEvent : mqtt_rx' = Append(mqtt_rx, m) /\ ~Turns(m)
  <2>1. PICK target \in ZoneTargets(retained[t].command) :
          mqtt_rx' = Append(mqtt_rx, [kind |-> "ZoneCommand", zone |-> target[1],
                                      control |-> target[2], payload |-> payload])
    BY <1>5 DEF SwitchUsed
  <2>2. target[1] \in U8 /\ target[2] \in ZoneControls
    BY DEF ZoneTargets
  <2> DEFINE m == [kind |-> "ZoneCommand", zone |-> target[1], control |-> target[2], payload |-> payload]
  <2>3. m \in MqttEvent /\ ~Turns(m)
    BY <1>5, <2>2 DEF MqttEvent, Turns
  <2>4. mqtt_rx' = Append(mqtt_rx, m) /\ mqtt_up' = mqtt_up /\ conn' = conn
    BY <1>5, <2>1 DEF SwitchUsed, bridgeVars
  <2> HIDE DEF m
  <2> QED
    BY <2>3, <2>4
<1>6. CASE OnConnected \/ OnDisconnected \/ OnHomeAssistantOnline \/ OnZoneCommand
  <2>1. mqtt_rx # <<>> /\ mqtt_rx' = Tail(mqtt_rx) /\ conn' = conn
    BY <1>6 DEF OnConnected, OnDisconnected, OnHomeAssistantOnline, OnZoneCommand, OnMqtt
  <2>2. OnConnected => Head(mqtt_rx).kind = "Connected" /\ mqtt_up' = TRUE
    BY DEF OnConnected, OnMqtt
  <2>3. OnDisconnected => Head(mqtt_rx).kind = "Disconnected" /\ mqtt_up' = FALSE
    BY DEF OnDisconnected, OnMqtt
  <2>4. OnHomeAssistantOnline \/ OnZoneCommand => ~Turns(Head(mqtt_rx)) /\ mqtt_up' = mqtt_up
    BY DEF OnHomeAssistantOnline, OnZoneCommand, OnMqtt, Turns
  <2> QED
    BY <1>6, <2>1, <2>2, <2>3, <2>4
<1>7. CASE PanelSteps \/ SessionStarts \/ SessionEnds \/ Reports
  <2>1. UNCHANGED mqtt_rx /\ UNCHANGED mqtt_up /\ UNCHANGED conn
    BY <1>7 DEF PanelSteps, PanelOpens, PanelCloses, PanelLosesZone, PanelArms, PanelAlert,
       SessionStarts, SessionEnds, Reports, SessionReportsClosed, bridgeVars, mqttVars
  <2> QED
    BY <2>1
<1>8. CASE OnReady \/ OnClosed \/ OnSia \/ RefreshTick \/ Deliver
  <2>1. UNCHANGED mqtt_rx /\ UNCHANGED mqtt_up /\ UNCHANGED conn
    BY <1>8 DEF OnReady, OnClosed, OnSia, RefreshTick, Deliver, bridgeVars, mqttVars
  <2> QED
    BY <2>1
<1>9. CASE \/ InfoRead \/ AreasRead \/ ZonesRead \/ StatusRead \/ BadStatusRead \/ RefreshFails
           \/ SiaStatusRead \/ SiaAreasRead \/ CommandReturns \/ ZonesReread
  <2>1. UNCHANGED mqtt_rx /\ UNCHANGED mqtt_up /\ UNCHANGED conn
    BY <1>9 DEF InfoRead, AreasRead, ZonesRead, StatusRead, BadStatusRead, RefreshFails,
       SiaStatusRead, SiaAreasRead, CommandReturns, ZonesReread, AfterQuery, mqttVars
  <2> QED
    BY <2>1
<1>10. CASE UNCHANGED vars
  BY <1>10 DEF vars, bridgeVars, mqttVars
<1> QED
  BY <1>2, <1>3, <1>4, <1>5, <1>6, <1>7, <1>8, <1>9, <1>10, Kinds DEF InnerSteps, CalmSteps

\* The last turn that is queued is how the connection is.
LEMMA ConnectionStep ==
  ASSUME TypeOK, ConnectionIsKnown, [Next]_vars
  PROVE  /\ ConnectionIsKnown'
         /\ Current' => ~BrokerAccepts /\ ~BrokerLost /\ (Current \/ OnConnected)
<1>t. mqtt_rx \in Seq(MqttEvent) /\ mqtt_up \in BOOLEAN /\ conn \in BOOLEAN
  BY DEF TypeOK
<1>a. /\ (\A i \in DOMAIN mqtt_rx : ~TurnsAt(i)) => mqtt_up = conn
      /\ \A i \in DOMAIN mqtt_rx :
           TurnsAt(i) /\ (\A j \in (i + 1)..Len(mqtt_rx) : ~TurnsAt(j))
             => (mqtt_rx[i].kind = "Connected") = conn
  BY DEF ConnectionIsKnown, TurnsAt
<1>b. ASSUME (\A i \in DOMAIN mqtt_rx' : ~TurnsAt(i)') => mqtt_up' = conn',
             \A i \in DOMAIN mqtt_rx' :
               TurnsAt(i)' /\ (\A j \in (i + 1)..Len(mqtt_rx') : ~TurnsAt(j)')
                 => (mqtt_rx'[i].kind = "Connected") = conn'
      PROVE  ConnectionIsKnown'
  BY <1>b DEF ConnectionIsKnown, TurnsAt
<1>c. Current <=> conn /\ \A i \in DOMAIN mqtt_rx : ~TurnsAt(i)
  BY DEF Current, TurnsAt
<1>d. Current' <=> conn' /\ \A i \in DOMAIN mqtt_rx' : ~TurnsAt(i)'
  BY DEF Current, TurnsAt
<1>1. ASSUME NEW m \in MqttEvent, mqtt_rx' = Append(mqtt_rx, m), NEW n, n = Len(mqtt_rx) + 1
      PROVE  /\ Len(mqtt_rx') = n /\ Len(mqtt_rx) \in Nat
             /\ DOMAIN mqtt_rx = 1..Len(mqtt_rx) /\ DOMAIN mqtt_rx' = 1..n
             /\ mqtt_rx'[n] = m /\ (TurnsAt(n)' <=> Turns(m))
             /\ \A i \in DOMAIN mqtt_rx :
                  i \in DOMAIN mqtt_rx' /\ mqtt_rx'[i] = mqtt_rx[i] /\ (TurnsAt(i)' <=> TurnsAt(i))
  <2>1. /\ Len(mqtt_rx') = Len(mqtt_rx) + 1
        /\ mqtt_rx' \in Seq(MqttEvent)
        /\ mqtt_rx'[Len(mqtt_rx) + 1] = m
        /\ \A i \in DOMAIN mqtt_rx : i \in DOMAIN mqtt_rx' /\ mqtt_rx'[i] = mqtt_rx[i]
    BY <1>t, <1>1, Appended
  <2>2. Len(mqtt_rx) \in Nat /\ DOMAIN mqtt_rx = 1..Len(mqtt_rx) /\ DOMAIN mqtt_rx' = 1..Len(mqtt_rx')
    BY <1>t, <2>1
  <2>3. mqtt_rx'[n] = m /\ Len(mqtt_rx') = n
    BY <1>1, <2>1
  <2> QED
    BY <2>1, <2>2, <2>3 DEF TurnsAt, Turns
<1>2. CASE /\ BrokerAccepts \/ BrokerLost
           /\ mqtt_up' = mqtt_up
           /\ \E m \in MqttEvent :
                mqtt_rx' = Append(mqtt_rx, m) /\ Turns(m) /\ (m.kind = "Connected") = conn'
  <2>1. PICK m \in MqttEvent :
          mqtt_rx' = Append(mqtt_rx, m) /\ Turns(m) /\ (m.kind = "Connected") = conn'
    BY <1>2
  <2>n. PICK n : n = Len(mqtt_rx) + 1
    OBVIOUS
  <2>2. /\ Len(mqtt_rx) \in Nat /\ DOMAIN mqtt_rx' = 1..n /\ Len(mqtt_rx') = n
        /\ mqtt_rx'[n] = m /\ TurnsAt(n)'
    BY <1>1, <2>1, <2>n
  <2>3. n \in DOMAIN mqtt_rx'
    BY <2>2, <2>n
  <2>4. ASSUME NEW i \in DOMAIN mqtt_rx', i # n PROVE n \in (i + 1)..Len(mqtt_rx')
    BY <2>2, <2>4
  <2>5. ~Current'
    BY <1>d, <2>2, <2>3
  <2>6. ConnectionIsKnown'
    BY <1>b, <2>1, <2>2, <2>3, <2>4
  <2> QED
    BY <2>5, <2>6
<1>3. CASE /\ mqtt_up' = mqtt_up /\ conn' = conn
           /\ \E m \in MqttEvent : mqtt_rx' = Append(mqtt_rx, m) /\ ~Turns(m)
  <2>0. ~BrokerAccepts /\ ~BrokerLost
    BY <1>3 DEF BrokerAccepts, BrokerLost
  <2>1. PICK m \in MqttEvent : mqtt_rx' = Append(mqtt_rx, m) /\ ~Turns(m)
    BY <1>3
  <2>n. PICK n : n = Len(mqtt_rx) + 1
    OBVIOUS
  <2>2. /\ Len(mqtt_rx) \in Nat /\ DOMAIN mqtt_rx' = 1..n /\ Len(mqtt_rx') = n
        /\ DOMAIN mqtt_rx = 1..Len(mqtt_rx) /\ ~TurnsAt(n)'
        /\ \A i \in DOMAIN mqtt_rx :
             i \in DOMAIN mqtt_rx' /\ mqtt_rx'[i] = mqtt_rx[i] /\ (TurnsAt(i)' <=> TurnsAt(i))
    BY <1>1, <2>1, <2>n
  <2>3. \A i \in DOMAIN mqtt_rx' : TurnsAt(i)' => i \in DOMAIN mqtt_rx /\ TurnsAt(i)
    <3>1. \A i \in DOMAIN mqtt_rx' : i \in DOMAIN mqtt_rx \/ i = n
      BY <2>2, <2>n
    <3> QED
      BY <2>2, <3>1
  <2>4. Current' => Current
    BY <1>3, <1>c, <1>d, <2>2
  <2>5. (\A i \in DOMAIN mqtt_rx' : ~TurnsAt(i)') => mqtt_up' = conn'
    BY <1>3, <1>a, <2>2
  <2>6. ASSUME NEW i \in DOMAIN mqtt_rx', TurnsAt(i)',
               \A j \in (i + 1)..Len(mqtt_rx') : ~TurnsAt(j)'
        PROVE  (mqtt_rx'[i].kind = "Connected") = conn'
    <3>1. i \in DOMAIN mqtt_rx /\ TurnsAt(i) /\ mqtt_rx'[i] = mqtt_rx[i]
      BY <2>2, <2>3, <2>6
    <3>2. \A j \in (i + 1)..Len(mqtt_rx) : j \in (i + 1)..Len(mqtt_rx') /\ j \in DOMAIN mqtt_rx
      BY <2>2, <2>n, <3>1
    <3>3. \A j \in (i + 1)..Len(mqtt_rx) : ~TurnsAt(j)
      BY <2>2, <2>6, <3>2
    <3> QED
      BY <1>3, <1>a, <3>1, <3>3
  <2> QED
    BY <1>b, <2>0, <2>4, <2>5, <2>6
<1>4. CASE /\ mqtt_rx # <<>> /\ mqtt_rx' = Tail(mqtt_rx) /\ conn' = conn
           /\ \/ Head(mqtt_rx).kind = "Connected" /\ mqtt_up' = TRUE /\ OnConnected
              \/ Head(mqtt_rx).kind = "Disconnected" /\ mqtt_up' = FALSE
              \/ ~Turns(Head(mqtt_rx)) /\ mqtt_up' = mqtt_up
  <2>0. ~BrokerAccepts /\ ~BrokerLost
    BY <1>4 DEF BrokerAccepts, BrokerLost
  <2>1. /\ mqtt_rx' \in Seq(MqttEvent) /\ Len(mqtt_rx') = Len(mqtt_rx) - 1 /\ Len(mqtt_rx') \in Nat
        /\ 1 \in DOMAIN mqtt_rx /\ Head(mqtt_rx) = mqtt_rx[1]
        /\ \A i \in DOMAIN mqtt_rx' : i + 1 \in DOMAIN mqtt_rx /\ mqtt_rx'[i] = mqtt_rx[i + 1]
        /\ \A i \in DOMAIN mqtt_rx : i > 1 => i - 1 \in DOMAIN mqtt_rx' /\ mqtt_rx'[i - 1] = mqtt_rx[i]
    BY <1>t, <1>4, Popped
  <2>2. /\ \A i \in DOMAIN mqtt_rx' : TurnsAt(i)' <=> TurnsAt(i + 1)
        /\ \A i \in DOMAIN mqtt_rx : i > 1 => (TurnsAt(i - 1)' <=> TurnsAt(i))
        /\ TurnsAt(1) <=> Turns(Head(mqtt_rx))
    BY <2>1 DEF TurnsAt, Turns
  <2>3. /\ DOMAIN mqtt_rx = 1..Len(mqtt_rx) /\ Len(mqtt_rx) \in Nat
        /\ DOMAIN mqtt_rx' = 1..Len(mqtt_rx')
    BY <1>t, <2>1
  <2>4. ASSUME \A i \in DOMAIN mqtt_rx' : ~TurnsAt(i)'
        PROVE  /\ \A j \in (1 + 1)..Len(mqtt_rx) : ~TurnsAt(j)
               /\ Turns(Head(mqtt_rx)) => (Head(mqtt_rx).kind = "Connected") = conn
               /\ mqtt_up' = conn'
    <3>1. \A j \in (1 + 1)..Len(mqtt_rx) : j \in DOMAIN mqtt_rx /\ j > 1
      BY <2>3
    <3>2. \A j \in (1 + 1)..Len(mqtt_rx) : ~TurnsAt(j)
      BY <2>1, <2>2, <2>4, <3>1
    <3>3. Turns(Head(mqtt_rx)) => (Head(mqtt_rx).kind = "Connected") = conn
      BY <1>a, <2>1, <2>2, <3>2
    <3>4. CASE Turns(Head(mqtt_rx))
      BY <1>4, <1>t, <3>2, <3>3, <3>4 DEF Turns
    <3>5. CASE ~Turns(Head(mqtt_rx))
      <4>1. \A i \in DOMAIN mqtt_rx : i = 1 \/ i \in (1 + 1)..Len(mqtt_rx)
        BY <2>3
      <4>2. mqtt_up = conn
        BY <1>a, <2>2, <3>2, <3>5, <4>1
      <4>3. mqtt_up' = mqtt_up
        BY <1>4, <3>5 DEF Turns
      <4> QED
        BY <1>4, <3>2, <3>5, <4>2, <4>3
    <3> QED
      BY <3>4, <3>5
  <2>5. ASSUME NEW i \in DOMAIN mqtt_rx', TurnsAt(i)',
               \A j \in (i + 1)..Len(mqtt_rx') : ~TurnsAt(j)'
        PROVE  (mqtt_rx'[i].kind = "Connected") = conn'
    <3>1. i + 1 \in DOMAIN mqtt_rx /\ TurnsAt(i + 1) /\ mqtt_rx'[i] = mqtt_rx[i + 1]
      BY <2>1, <2>2, <2>5
    <3>2. \A j \in ((i + 1) + 1)..Len(mqtt_rx) :
             j - 1 \in (i + 1)..Len(mqtt_rx') /\ j \in DOMAIN mqtt_rx /\ j > 1
      BY <2>1, <2>3, <3>1
    <3>3. \A j \in ((i + 1) + 1)..Len(mqtt_rx) : ~TurnsAt(j)
      BY <2>2, <2>5, <3>2
    <3> QED
      BY <1>4, <1>a, <3>1, <3>3
  <2>6. ConnectionIsKnown'
    BY <1>b, <2>4, <2>5
  <2>7. ASSUME Current' PROVE Current \/ OnConnected
    <3>1. conn /\ \A i \in DOMAIN mqtt_rx' : ~TurnsAt(i)'
      BY <1>4, <1>d, <2>7
    <3>2. /\ \A j \in (1 + 1)..Len(mqtt_rx) : ~TurnsAt(j)
          /\ Turns(Head(mqtt_rx)) => (Head(mqtt_rx).kind = "Connected") = conn
      BY <2>4, <3>1
    <3>3. CASE Turns(Head(mqtt_rx))
      BY <1>4, <3>1, <3>2, <3>3
    <3>4. CASE ~Turns(Head(mqtt_rx))
      <4>1. \A i \in DOMAIN mqtt_rx : i = 1 \/ i \in (1 + 1)..Len(mqtt_rx)
        BY <2>3
      <4> QED
        BY <1>c, <2>2, <3>1, <3>2, <3>4, <4>1
    <3> QED
      BY <3>3, <3>4
  <2> QED
    BY <2>0, <2>6, <2>7
<1>5. CASE UNCHANGED mqtt_rx /\ UNCHANGED mqtt_up /\ UNCHANGED conn
  <2>0. ~BrokerAccepts /\ ~BrokerLost
    BY <1>5 DEF BrokerAccepts, BrokerLost
  <2> QED
    BY <1>5, <2>0 DEF ConnectionIsKnown, Current
<1> QED
  BY <1>2, <1>3, <1>4, <1>5, MqttMoves

\* Once it knows, it takes itself for connected.
LEMMA CurrentIsUp == ASSUME ConnectionIsKnown, Current PROVE mqtt_up
BY DEF ConnectionIsKnown, Current

-----------------------------------------------------------------------------
(* What each step says: all of it but what the broker does. *)

\* The queries that follow an event.
SiaTasks == {"sia_status", "sia_areas"}

\* The configs on record are those of the link.
Due == mqtt_up' /\ link'.loaded => discovery' = DiscoveryMessages(link'.snapshot)

\* A step says M: honestly, with the configs up to date or as they were, with
\* status if the link is another one's and with the alarms an event was about.
Says(M, forgot) ==
  /\ Published(M, forgot)
  /\ \/ Due /\ (mqtt_up => mqtt_up')
     \/ discovery' = discovery /\ ~forgot /\ (mqtt_up' => mqtt_up) /\ (link'.read => link.read)
  /\ forgot => /\ StatusTopic \in DOMAIN M
               /\ link'.loaded => \A a \in DOMAIN link'.snapshot.areas : AlarmTopic(a) \in DOMAIN M
  /\ \/ StatusTopic \in DOMAIN M
     \/ (link.id >= 1 => link'.id >= 1) /\ (link'.read => link.read)
  /\ OnConnected => forgot
  /\ task.at \in SiaTasks =>
       \/ task'.at \in SiaTasks /\ task'.effect = task.effect
       \/ \A a \in task.effect.areas \cap DOMAIN link'.snapshot.areas : AlarmTopic(a) \in DOMAIN M

\* Most steps say nothing.
LEMMA QuietSays ==
  ASSUME ~OnConnected, discovery' = discovery, outbox' = outbox, retained' = retained,
         mqtt_up' => mqtt_up, link.id >= 1 => link'.id >= 1, link'.read => link.read,
         task.at \in SiaTasks => task' = task
  PROVE  Says(NoMessages, FALSE)
<1>1. Published(NoMessages, FALSE)
  BY QuietIs
<1>2. task.at \in SiaTasks => task'.at \in SiaTasks /\ task'.effect = task.effect
  OBVIOUS
<1> QED
  BY <1>1, <1>2 DEF Says

\* publish_all, with the record of configs forgotten or not.
LEMMA AllSays ==
  ASSUME NEW forgot \in BOOLEAN, NEW disc, PublishAll(link', mqtt_up', disc),
         IF forgot THEN disc = NoMessages ELSE disc = discovery,
         OnConnected => forgot, retained' = retained, mqtt_up' \in BOOLEAN, mqtt_up => mqtt_up',
         SnapshotOK(link'.snapshot), ConfigTopics(discovery), task.at \notin SiaTasks
  PROVE  Says(AllMessages(link'), forgot)
<1> DEFINE M == AllMessages(link')
<1>1. /\ HonestFor(link', M) /\ StatusTopic \in DOMAIN M
      /\ link'.loaded => \A a \in DOMAIN link'.snapshot.areas : AlarmTopic(a) \in DOMAIN M
  BY AllIsHonest
<1>2. Announce(link', mqtt_up', disc, M)
  BY DEF PublishAll, AllMessages
<1> HIDE DEF M
<1>3. Published(M, forgot) /\ Due
  BY <1>1, <1>2, AnnouncedIs DEF Due
<1>4. Says(M, forgot)
  BY <1>1, <1>3 DEF Says
<1> QED
  BY <1>4 DEF M

\* The end of on_sia.
LEMMA SiaSays ==
  ASSUME NEW effect, NEW areas, FinishSia(link', effect, areas),
         ~OnConnected, retained' = retained, mqtt_up' \in BOOLEAN, mqtt_up' = mqtt_up,
         SnapshotOK(link'.snapshot), ConfigTopics(discovery),
         link'.id = link.id, link'.read = link.read,
         task.at \in SiaTasks =>
           task.effect.areas \cap DOMAIN link'.snapshot.areas \subseteq areas
  PROVE  Says(SiaMessages(link', effect, areas), FALSE)
<1> DEFINE M == SiaMessages(link', effect, areas)
<1>1. /\ HonestFor(link', M)
      /\ \A a \in areas \cap DOMAIN link'.snapshot.areas : AlarmTopic(a) \in DOMAIN M
  BY SiaIsHonest
<1>2. Announce(link', mqtt_up', discovery, M)
  BY DEF FinishSia, SiaMessages
<1> HIDE DEF M
<1>3. Published(M, FALSE) /\ Due
  BY <1>1, <1>2, AnnouncedIs DEF Due
<1>4. task.at \in SiaTasks =>
        \A a \in task.effect.areas \cap DOMAIN link'.snapshot.areas : AlarmTopic(a) \in DOMAIN M
  BY <1>1
<1>5. Says(M, FALSE)
  BY <1>3, <1>4 DEF Says
<1> QED
  BY <1>5 DEF M

\* OnConnected and OnHomeAssistantOnline forget the record and say everything.
LEMMA MqttSays ==
  ASSUME TypeOK, TypeOK', ConfigTopics(discovery), OnConnected \/ OnHomeAssistantOnline
  PROVE  Says(AllMessages(link'), TRUE)
<1>1. /\ task = Idle /\ link' = link /\ retained' = retained
      /\ mqtt_up' \in BOOLEAN /\ (mqtt_up => mqtt_up') /\ SnapshotOK(link'.snapshot)
  <2>1. mqtt_up' \in BOOLEAN /\ SnapshotOK(link'.snapshot)
    BY DEF TypeOK
  <2>2. OnConnected => mqtt_up' = TRUE
    BY DEF OnConnected
  <2>3. OnHomeAssistantOnline => mqtt_up' = mqtt_up
    BY DEF OnHomeAssistantOnline
  <2>4. task = Idle /\ link' = link /\ retained' = retained
    BY DEF OnConnected, OnHomeAssistantOnline, OnMqtt
  <2> QED
    BY <2>1, <2>2, <2>3, <2>4
<1>2. task.at \notin SiaTasks
  BY <1>1 DEF Idle, SiaTasks
<1>3. PublishAll(link', mqtt_up', NoMessages)
  <2>1. CASE OnConnected
    <3>1. mqtt_up' = TRUE /\ PublishAll(link, TRUE, NoMessages)
      BY <2>1 DEF OnConnected, Forget
    <3> QED
      BY <1>1, <3>1
  <2>2. CASE OnHomeAssistantOnline
    <3>1. mqtt_up' = mqtt_up /\ PublishAll(link, mqtt_up, NoMessages)
      BY <2>2 DEF OnHomeAssistantOnline, Forget
    <3> QED
      BY <1>1, <3>1
  <2> QED
    BY <2>1, <2>2
<1> QED
  BY <1>1, <1>2, <1>3, AllSays

\* The queries after an event end in what the event was about.
LEMMA QuerySays ==
  ASSUME TypeOK, TypeOK', KnowsThePanel, ConfigTopics(discovery), ~OnConnected,
         SiaStatusRead \/ SiaAreasRead
  PROVE  \E M : Says(M, FALSE)
<1>1. /\ link'.id = link.id /\ link'.read = link.read
      /\ retained' = retained /\ mqtt_up' = mqtt_up /\ task.at \in SiaTasks
  <2>1. Inner /\ link'.read = link.read
    BY SiaInner
  <2>2. retained' = retained /\ mqtt_up' = mqtt_up /\ task.at \in SiaTasks
    BY DEF SiaStatusRead, SiaAreasRead, AfterQuery, SiaTasks
  <2> QED
    BY <2>1, <2>2 DEF Inner
<1>2. mqtt_up' \in BOOLEAN /\ SnapshotOK(link'.snapshot)
  BY DEF TypeOK
<1>3. ASSUME NEW effect, NEW areas, FinishSia(link', effect, areas),
             task.effect.areas \cap DOMAIN link'.snapshot.areas \subseteq areas
      PROVE  \E M : Says(M, FALSE)
  <2>1. Says(SiaMessages(link', effect, areas), FALSE)
    BY <1>1, <1>2, <1>3, SiaSays
  <2> QED
    BY <2>1
<1>4. ASSUME NEW l, FinishSia(l, task.effect, task.effect.areas) PROVE \E M : Says(M, FALSE)
  <2>1. link' = l
    BY <1>4 DEF FinishSia
  <2>2. FinishSia(link', task.effect, task.effect.areas)
    BY <1>4, <2>1
  <2> QED
    BY <1>3, <2>2
<1>5. ASSUME NEW l, SiaAreas(l) PROVE \E M : Says(M, FALSE)
  <2>1. CASE FinishSia(l, task.effect, task.effect.areas)
    BY <1>4, <2>1
  <2>2. CASE /\ task' = [at |-> "sia_areas", effect |-> task.effect]
             /\ UNCHANGED <<discovery, outbox>>
    <3>1. task'.at \in SiaTasks /\ task'.effect = task.effect
      BY <2>2 DEF SiaTasks
    <3>2. Published(NoMessages, FALSE)
      BY <1>1, <2>2, QuietIs
    <3>3. Says(NoMessages, FALSE)
      BY <1>1, <2>2, <3>1, <3>2 DEF Says
    <3> QED
      BY <3>3
  <2> QED
    BY <1>5, <2>1, <2>2 DEF SiaAreas
<1>6. CASE SiaStatusRead
  <2>1. \E l : SiaAreas(l)
    BY <1>6 DEF SiaStatusRead
  <2> QED
    BY <1>5, <2>1
<1>7. CASE SiaAreasRead
  <2>1. CASE FinishSia(link, task.effect, task.effect.areas)
    BY <1>4, <2>1
  <2>2. CASE \E l : FinishSia(l, task.effect, DOMAIN l.snapshot.areas)
    <3>1. PICK l : FinishSia(l, task.effect, DOMAIN l.snapshot.areas)
      BY <2>2
    <3>2. link' = l
      BY <3>1 DEF FinishSia
    <3>3. FinishSia(link', task.effect, DOMAIN link'.snapshot.areas)
      BY <3>1, <3>2
    <3>4. task.effect.areas \cap DOMAIN link'.snapshot.areas \subseteq DOMAIN link'.snapshot.areas
      OBVIOUS
    <3> QED
      BY <1>3, <3>3, <3>4
  <2> QED
    BY <1>7, <2>1, <2>2 DEF SiaAreasRead
<1> QED
  BY <1>6, <1>7

\* Link events say status, or what the event is about.
LEMMA EventSays ==
  ASSUME TypeOK, TypeOK', ConfigTopics(discovery), ~OnConnected, OnReady \/ OnClosed \/ OnSia
  PROVE  \E M : Says(M, FALSE)
<1>1. mqtt_up' = mqtt_up /\ retained' = retained /\ task = Idle
  BY DEF OnReady, OnClosed, OnSia, mqttVars
<1>2. task.at \notin SiaTasks
  BY <1>1 DEF Idle, SiaTasks
<1>3. mqtt_up' \in BOOLEAN /\ SnapshotOK(link'.snapshot)
  BY DEF TypeOK
<1>4. CASE OnReady
  <2>1. /\ events # <<>> /\ events' = Tail(events) /\ link'.id = Head(events).id /\ link'.read = FALSE
        /\ UNCHANGED <<discovery, mqttVars>>
    BY <1>4, ReadyStep
  <2>2. Head(events).id \in 1..session.last
    BY <2>1, EventTaken
  <2>3. link'.id >= 1
    BY <2>1, <2>2 DEF TypeOK
  <2>4. Says(NoMessages, FALSE)
    BY <1>1, <1>2, <2>1, <2>3, QuietSays DEF mqttVars
  <2> QED
    BY <2>4
<1>5. CASE OnClosed
  <2>1. \/ /\ link' = NoLink /\ link'.read = FALSE /\ Publish(mqtt_up, Status(NoLink))
        \/ UNCHANGED <<link, outbox>>
    BY <1>5, ClosedStep
  <2>2. discovery' = discovery
    BY <1>5, ClosedStep
  <2>3. CASE link' = NoLink /\ link'.read = FALSE /\ Publish(mqtt_up, Status(NoLink))
    <3> DEFINE M == Status(link')
    <3>1. Publish(mqtt_up', M)
      BY <1>1, <2>3
    <3>2. HonestFor(link', M)
      BY HonestMessages
    <3>3. DOMAIN M = {StatusTopic}
      BY OtherTopics
    <3> HIDE DEF M
    <3>4. Published(M, FALSE)
      BY <1>1, <1>3, <2>2, <3>1, <3>2, SaidIs
    <3>5. Says(M, FALSE)
      BY <1>1, <1>2, <2>2, <2>3, <3>3, <3>4 DEF Says
    <3> QED
      BY <3>5
  <2>4. CASE UNCHANGED <<link, outbox>>
    <3>1. Says(NoMessages, FALSE)
      BY <1>1, <1>2, <2>2, <2>4, QuietSays
    <3> QED
      BY <3>1
  <2> QED
    BY <2>1, <2>3, <2>4
<1>6. CASE OnSia
  <2>1. /\ link'.id = link.id /\ link'.read = link.read
        /\ \/ UNCHANGED <<discovery, outbox>>
           \/ \E effect, areas : FinishSia(link', effect, areas)
    BY <1>6, SiaStep
  <2>2. CASE UNCHANGED <<discovery, outbox>>
    <3>1. Says(NoMessages, FALSE)
      BY <1>1, <1>2, <2>1, <2>2, QuietSays
    <3> QED
      BY <3>1
  <2>3. CASE \E effect, areas : FinishSia(link', effect, areas)
    <3>1. PICK effect, areas : FinishSia(link', effect, areas)
      BY <2>3
    <3>2. Says(SiaMessages(link', effect, areas), FALSE)
      BY <1>1, <1>2, <1>3, <2>1, <3>1, SiaSays
    <3> QED
      BY <3>2
  <2> QED
    BY <2>1, <2>2, <2>3
<1> QED
  BY <1>4, <1>5, <1>6

\* The refresh, the zone commands and what is only noted.
LEMMA InnerSays ==
  ASSUME TypeOK, TypeOK', KnowsThePanel, ConfigTopics(discovery), ~OnConnected, InnerSteps,
         ~BrokerAccepts, ~BrokerLost, ~Deliver
  PROVE  (\E M : Says(M, TRUE)) \/ (\E M : Says(M, FALSE))
<1>1. Inner
  BY InnerStep
<1>2. link'.id = link.id
  BY <1>1 DEF Inner
<1>3. mqtt_up' \in BOOLEAN /\ SnapshotOK(link'.snapshot)
  BY DEF TypeOK
<1>4. ASSUME discovery' = discovery, outbox' = outbox, retained' = retained,
             mqtt_up' => mqtt_up, link'.read => link.read, task.at \in SiaTasks => task' = task
      PROVE  (\E M : Says(M, TRUE)) \/ (\E M : Says(M, FALSE))
  <2>1. Says(NoMessages, FALSE)
    BY <1>2, <1>4, QuietSays
  <2> QED
    BY <2>1
<1>5. CASE OnHomeAssistantOnline
  BY <1>5, MqttSays
<1>6. CASE SiaStatusRead \/ SiaAreasRead
  BY <1>6, QuerySays
<1>7. CASE StatusRead
  <2>1. /\ PublishAll(link', mqtt_up', discovery) /\ retained' = retained /\ mqtt_up' = mqtt_up
        /\ task.at = "status"
    <3>1. mqtt_up' = mqtt_up /\ PublishAll(link', mqtt_up, discovery)
      BY <1>7 DEF StatusRead, AfterQuery
    <3>2. retained' = retained /\ task.at = "status"
      BY <1>7 DEF StatusRead, AfterQuery
    <3> QED
      BY <3>1, <3>2
  <2>2. task.at \notin SiaTasks
    BY <2>1 DEF SiaTasks
  <2>3. Says(AllMessages(link'), FALSE)
    BY <1>3, <2>1, <2>2, AllSays
  <2> QED
    BY <2>3
<1>8. CASE ZonesReread
  <2> DEFINE M == ZoneMessages(link'.snapshot, {task.zone})
  <2>1. /\ Publish(mqtt_up', M) /\ discovery' = discovery /\ retained' = retained
        /\ mqtt_up' = mqtt_up /\ task.at = "reread"
    BY <1>8 DEF ZonesReread, AfterQuery
  <2>2. link'.read = link.read
    BY <1>8, CommandInner
  <2>3. HonestFor(link', M)
    BY HonestMessages
  <2> HIDE DEF M
  <2>4. Published(M, FALSE)
    BY <1>3, <2>1, <2>3, SaidIs
  <2>5. task.at \notin SiaTasks
    BY <2>1 DEF SiaTasks
  <2>6. Says(M, FALSE)
    BY <1>2, <2>1, <2>2, <2>4, <2>5 DEF Says
  <2> QED
    BY <2>6
<1>9. CASE InfoRead \/ AreasRead \/ ZonesRead \/ BadStatusRead \/ CommandReturns
  <2>1. /\ discovery' = discovery /\ outbox' = outbox /\ retained' = retained /\ mqtt_up' = mqtt_up
        /\ task.at \in {"info", "areas", "zones", "status", "command"}
    BY <1>9 DEF InfoRead, AreasRead, ZonesRead, BadStatusRead, CommandReturns, AfterQuery, mqttVars
  <2>2. link'.read = link.read
    <3>1. CASE InfoRead
      <4>1. link' = [link EXCEPT !.loaded = TRUE] /\ DOMAIN link = DOMAIN NoLink
        BY <3>1 DEF InfoRead, TypeOK
      <4> QED
        BY <4>1 DEF NoLink
    <3>2. CASE BadStatusRead
      <4>1. \E s : link' = [link EXCEPT !.snapshot = s]
        BY <3>2 DEF BadStatusRead
      <4> QED
        BY <4>1, LinkWith
    <3>3. CASE AreasRead \/ ZonesRead \/ CommandReturns
      BY <3>3 DEF AreasRead, ZonesRead, CommandReturns
    <3> QED
      BY <1>9, <3>1, <3>2, <3>3
  <2>3. task.at \notin SiaTasks
    BY <2>1 DEF SiaTasks
  <2> QED
    BY <1>4, <2>1, <2>2, <2>3
<1>10. CASE OnDisconnected \/ OnZoneCommand \/ RefreshTick \/ RefreshFails
  <2>1. /\ discovery' = discovery /\ outbox' = outbox /\ retained' = retained
        /\ link' = link /\ (mqtt_up' => mqtt_up)
    BY <1>10 DEF OnDisconnected, OnZoneCommand, OnMqtt, RefreshTick, RefreshFails, AfterQuery, mqttVars
  <2>2. task = Idle \/ task.at \in {"info", "areas", "zones", "status"}
    BY <1>10 DEF OnDisconnected, OnZoneCommand, OnMqtt, RefreshTick, RefreshFails, AfterQuery
  <2>3. task.at \notin SiaTasks
    BY <2>2 DEF SiaTasks, Idle
  <2> QED
    BY <1>4, <2>1, <2>3
<1>11. CASE \/ HomeAssistantStarts
            \/ \E t \in DOMAIN retained, payload \in {"ON", "OFF"} : SwitchUsed(t, payload)
  <2>1. /\ discovery' = discovery /\ outbox' = outbox /\ retained' = retained
        /\ link' = link /\ mqtt_up' = mqtt_up /\ task' = task
    BY <1>11 DEF HomeAssistantStarts, SwitchUsed, bridgeVars
  <2> QED
    BY <1>4, <2>1
<1> QED
  BY <1>5, <1>6, <1>7, <1>8, <1>9, <1>10, <1>11 DEF InnerSteps, CalmSteps

\* All steps but the broker's say something honest, if only nothing.
LEMMA SaysStep ==
  ASSUME TypeOK, TypeOK', KnowsThePanel, AlarmsAreKept, ConfigTopics(discovery), [Next]_vars,
         ~BrokerAccepts, ~BrokerLost, ~Deliver
  PROVE  (\E M : Says(M, TRUE)) \/ (\E M : Says(M, FALSE))
<1>1. CASE OnConnected
  BY <1>1, MqttSays
<1>2. CASE ~OnConnected /\ (OnReady \/ OnClosed \/ OnSia)
  BY <1>2, EventSays
<1>3. CASE ~OnConnected /\ InnerSteps
  BY <1>3, InnerSays
<1>4. CASE /\ ~OnConnected
           /\ (PanelSteps \/ SessionStarts \/ SessionEnds \/ Reports) \/ UNCHANGED vars
  <2>1. UNCHANGED <<bridgeVars, mqttVars>>
    BY <1>4, WorldKeepsBridge DEF vars
  <2>2. /\ discovery' = discovery /\ outbox' = outbox /\ retained' = retained
        /\ link' = link /\ mqtt_up' = mqtt_up /\ task' = task
    BY <2>1 DEF bridgeVars, mqttVars
  <2>3. Says(NoMessages, FALSE)
    BY <1>4, <2>2, QuietSays
  <2> QED
    BY <2>3
<1> QED
  BY <1>1, <1>2, <1>3, <1>4, Kinds

-----------------------------------------------------------------------------
(* What is on record at the broker, or on its way there. *)

\* What is upcoming changes only in what was published.
LEMMA UpcomingAfter ==
  /\ \A t \in DOMAIN outbox' : t \in DOMAIN Upcoming' /\ Upcoming'[t] = outbox'[t]
  /\ retained' = retained =>
       \A t : SameAt(t) =>
         /\ t \in DOMAIN Upcoming' <=> t \in DOMAIN Upcoming
         /\ t \in DOMAIN Upcoming => Upcoming'[t] = Upcoming[t]
<1>1. /\ DOMAIN Upcoming = (DOMAIN outbox) \cup (DOMAIN retained)
      /\ \A t \in DOMAIN outbox : Upcoming[t] = outbox[t]
      /\ \A t \in DOMAIN retained : t \notin DOMAIN outbox => Upcoming[t] = retained[t]
  BY Joined DEF Upcoming
<1>2. /\ DOMAIN Upcoming' = (DOMAIN outbox') \cup (DOMAIN retained')
      /\ \A t \in DOMAIN outbox' : Upcoming'[t] = outbox'[t]
      /\ \A t \in DOMAIN retained' : t \notin DOMAIN outbox' => Upcoming'[t] = retained'[t]
  BY Joined DEF Upcoming
<1>3. ASSUME retained' = retained, NEW t, SameAt(t)
      PROVE  /\ t \in DOMAIN Upcoming' <=> t \in DOMAIN Upcoming
             /\ t \in DOMAIN Upcoming => Upcoming'[t] = Upcoming[t]
  BY <1>1, <1>2, <1>3 DEF SameAt
<1> QED
  BY <1>2, <1>3

\* Delivery makes what was upcoming retained, but for deleted configs.
LEMMA Delivered ==
  ASSUME Deliver
  PROVE  /\ DOMAIN outbox' = {}
         /\ \A t : /\ t \in DOMAIN retained' <=>
                         t \in DOMAIN Upcoming /\ ~(t[1] = "config" /\ Upcoming[t] = Empty)
                   /\ t \in DOMAIN Upcoming' <=> t \in DOMAIN retained'
                   /\ t \in DOMAIN retained' => Upcoming'[t] = Upcoming[t]
<1> DEFINE after == Upcoming
<1>1. retained' = [t \in DOMAIN after \ Deletes(after) |-> after[t]] /\ outbox' = NoMessages
  BY DEF Deliver, Upcoming
<1>2. \A t : t \in Deletes(after) <=> t \in DOMAIN after /\ t[1] = "config" /\ after[t] = Empty
  BY DEF Deletes
<1> HIDE DEF after
<1>3. DOMAIN outbox' = {}
  BY <1>1 DEF NoMessages, NoEntries
<1>4. /\ DOMAIN retained' = DOMAIN after \ Deletes(after)
      /\ \A t \in DOMAIN retained' : retained'[t] = after[t]
  BY <1>1
<1>5. /\ DOMAIN Upcoming' = (DOMAIN outbox') \cup (DOMAIN retained')
      /\ \A t \in DOMAIN retained' : t \notin DOMAIN outbox' => Upcoming'[t] = retained'[t]
  BY Joined DEF Upcoming
<1> QED
  BY <1>2, <1>3, <1>4, <1>5 DEF after

\* The record of configs is kept, forgotten or that of the link.
LEMMA DiscoveryStep ==
  ASSUME TypeOK, TypeOK', KnowsThePanel, AlarmsAreKept, ConfigTopics(discovery), [Next]_vars
  PROVE  \/ discovery' = discovery
         \/ discovery' = NoMessages
         \/ link'.loaded /\ discovery' = DiscoveryMessages(link'.snapshot)
<1>1. CASE BrokerAccepts \/ BrokerLost \/ Deliver
  BY <1>1 DEF BrokerAccepts, BrokerLost, Deliver, bridgeVars
<1>2. CASE ~(BrokerAccepts \/ BrokerLost \/ Deliver)
  <2>1. ASSUME NEW M, NEW forgot \in BOOLEAN, Says(M, forgot)
        PROVE  \/ discovery' = discovery
               \/ discovery' = NoMessages
               \/ link'.loaded /\ discovery' = DiscoveryMessages(link'.snapshot)
    BY <2>1 DEF Says, Published
  <2>2. (\E M : Says(M, TRUE)) \/ (\E M : Says(M, FALSE))
    BY <1>2, SaysStep
  <2> QED
    BY <2>1, <2>2
<1> QED
  BY <1>1, <1>2

\* The three parts of what BridgeInv says of one config.
OnRecord(t) ==
  IF discovery[t] = Empty
  THEN IF t \in DOMAIN outbox THEN outbox[t] = Empty ELSE t \notin DOMAIN retained
  ELSE t \in DOMAIN Upcoming /\ Upcoming[t] = discovery[t]

FormedTopic(t) ==
  /\ t[1] = "config"
  /\ IsSwitch(t) => t = SwitchConfig(t[4], t[5]) /\ t[4] \in Zones /\ t[5] \in ZoneControls
FormedCommand(t, config) ==
  "command" \in DOMAIN config =>
    /\ config.command = SetTopic(config.state)
    /\ IF IsSwitch(t)
       THEN config.state = SwitchTopic(t[4], t[5]) /\ config.options = {"ON", "OFF"}
       ELSE /\ \E a \in Areas \cup {AllAreas} : config.state = ModeTopic(a)
            /\ config.options = {Labels[m] : m \in Modes}

\* The configs of a snapshot are formed as those on record are.
LEMMA FormedConfigs ==
  ASSUME NEW s, SnapshotOK(s), NEW t \in DOMAIN DiscoveryMessages(s)
  PROVE  /\ FormedTopic(t) /\ FormedCommand(t, DiscoveryMessages(s)[t])
         /\ IsSwitch(t) => t[4] \in DOMAIN s.zones /\ t[5] \in s.zones[t[4]].allowed
<1>1. ConfigOK(s, t, DiscoveryMessages(s)[t])
  BY DiscoveryOK DEF ConfigsOK
<1>2. IsSwitch(t) =>
        /\ t[4] \in DOMAIN s.zones /\ t[5] \in s.zones[t[4]].allowed /\ t[5] \in ZoneControls
  BY <1>1 DEF ConfigOK, Offered
<1>3. DOMAIN s.zones \subseteq Zones
  BY DEF SnapshotOK
<1>4. FormedTopic(t)
  BY <1>1, <1>2, <1>3 DEF ConfigOK, FormedTopic
<1>5. FormedCommand(t, DiscoveryMessages(s)[t])
  BY <1>1 DEF ConfigOK, FormedCommand
<1> QED
  BY <1>2, <1>4, <1>5

\* What is on record are configs.
LEMMA ConfigsAreTopics == ASSUME ConfigsAreOnRecord PROVE ConfigTopics(discovery)
BY DEF ConfigsAreOnRecord, ConfigTopics

\* Configs keep the form of their topics and commands.
LEMMA FormedStep ==
  ASSUME TypeOK, TypeOK', KnowsThePanel, AlarmsAreKept, ConfigsAreOnRecord, CommandsAreFormed,
         [Next]_vars
  PROVE  /\ \A t \in DOMAIN discovery' : FormedTopic(t)
         /\ CommandsAreFormed'
<1>1. /\ \A t \in DOMAIN discovery : FormedTopic(t)
      /\ \A t \in DOMAIN discovery : FormedCommand(t, discovery[t])
  BY DEF ConfigsAreOnRecord, FormedTopic, CommandsAreFormed, FormedCommand
<1>2. SnapshotOK(link'.snapshot)
  BY DEF TypeOK
<1>3. /\ \A t \in DOMAIN discovery' : FormedTopic(t)
      /\ \A t \in DOMAIN discovery' : FormedCommand(t, discovery'[t])
  <2>1. CASE discovery' = discovery
    BY <1>1, <2>1
  <2>2. CASE discovery' = NoMessages
    BY <2>2 DEF NoMessages, NoEntries
  <2>3. CASE discovery' = DiscoveryMessages(link'.snapshot)
    BY <1>2, <2>3, FormedConfigs
  <2> QED
    BY <2>1, <2>2, <2>3, DiscoveryStep, ConfigsAreTopics
<1>4. CommandsAreFormed'
  BY <1>3 DEF CommandsAreFormed, FormedCommand
<1> QED
  BY <1>3, <1>4

\* The record is what the broker has or will have.
LEMMA ConfigsStep ==
  ASSUME TypeOK, TypeOK', KnowsThePanel, AlarmsAreKept, ConnectionIsKnown, ConfigsAreOnRecord,
         CommandsAreFormed, [Next]_vars
  PROVE  ConfigsAreOnRecord' /\ CommandsAreFormed'
<1>1. (\A t \in DOMAIN discovery' : FormedTopic(t)) /\ CommandsAreFormed'
  BY FormedStep
<1>2. /\ ConnectionIsKnown'
      /\ Current' => ~BrokerAccepts /\ ~BrokerLost /\ (Current \/ OnConnected)
  BY ConnectionStep
<1>3. Current' => mqtt_up'
  BY <1>2 DEF ConnectionIsKnown, Current
<1>4. ASSUME Current' PROVE \A t \in DOMAIN discovery' : OnRecord(t)'
  <2>1. CASE Deliver
    <3>1. Current /\ discovery' = discovery
      BY <1>4, <2>1 DEF Deliver, Current, bridgeVars
    <3>2. \A t \in DOMAIN discovery : FormedTopic(t) /\ OnRecord(t)
      BY <3>1 DEF ConfigsAreOnRecord, FormedTopic, OnRecord
    <3>3. /\ DOMAIN outbox' = {}
          /\ \A t : /\ t \in DOMAIN retained' <=>
                          t \in DOMAIN Upcoming /\ ~(t[1] = "config" /\ Upcoming[t] = Empty)
                    /\ t \in DOMAIN Upcoming' <=> t \in DOMAIN retained'
                    /\ t \in DOMAIN retained' => Upcoming'[t] = Upcoming[t]
      BY <2>1, Delivered
    <3>4. /\ DOMAIN Upcoming = (DOMAIN outbox) \cup (DOMAIN retained)
          /\ \A t \in DOMAIN outbox : Upcoming[t] = outbox[t]
      BY Joined DEF Upcoming
    <3>5. ASSUME NEW t \in DOMAIN discovery PROVE OnRecord(t)'
      <4>1. t[1] = "config" /\ OnRecord(t)
        BY <3>2 DEF FormedTopic
      <4>2. CASE discovery[t] = Empty
        <5>1. t \notin DOMAIN retained'
          BY <3>3, <3>4, <4>1, <4>2 DEF OnRecord
        <5> QED
          BY <3>1, <3>3, <4>2, <5>1 DEF OnRecord
      <4>3. CASE discovery[t] # Empty
        <5>1. t \in DOMAIN Upcoming /\ Upcoming[t] = discovery[t]
          BY <4>1, <4>3 DEF OnRecord
        <5>2. t \in DOMAIN Upcoming' /\ Upcoming'[t] = discovery[t]
          BY <3>3, <4>3, <5>1
        <5> QED
          BY <3>1, <4>3, <5>2 DEF OnRecord
      <4> QED
        BY <4>2, <4>3
    <3> QED
      BY <3>1, <3>5
  <2>2. CASE ~Deliver
    <3>1. ASSUME NEW M, NEW forgot \in BOOLEAN, Says(M, forgot), NEW t \in DOMAIN discovery'
          PROVE  OnRecord(t)'
      <4>1. /\ retained' = retained /\ Recorded(forgot) /\ (OnConnected => forgot)
        BY <1>3, <1>4, <3>1 DEF Says, Published
      <4>2. CASE t \in DOMAIN outbox' /\ outbox'[t] = discovery'[t]
        <5>1. t \in DOMAIN Upcoming' /\ Upcoming'[t] = discovery'[t]
          BY <4>2, UpcomingAfter
        <5> QED
          BY <4>2, <5>1 DEF OnRecord
      <4>3. CASE ~forgot /\ t \in DOMAIN discovery /\ discovery[t] = discovery'[t] /\ SameAt(t)
        <5>1. Current
          BY <1>2, <1>4, <4>1, <4>3
        <5>2. OnRecord(t)
          BY <4>3, <5>1 DEF ConfigsAreOnRecord, OnRecord
        <5>3. /\ t \in DOMAIN Upcoming' <=> t \in DOMAIN Upcoming
              /\ t \in DOMAIN Upcoming => Upcoming'[t] = Upcoming[t]
          BY <4>1, <4>3, UpcomingAfter
        <5>4. CASE discovery[t] = Empty
          BY <4>1, <4>3, <5>2, <5>4 DEF OnRecord, SameAt
        <5>5. CASE discovery[t] # Empty
          BY <4>3, <5>2, <5>3, <5>5 DEF OnRecord
        <5> QED
          BY <5>4, <5>5
      <4> QED
        BY <3>1, <4>1, <4>2, <4>3 DEF Recorded
    <3>2. (\E M : Says(M, TRUE)) \/ (\E M : Says(M, FALSE))
      BY <1>2, <1>4, <2>2, SaysStep, ConfigsAreTopics
    <3> QED
      BY <3>1, <3>2
  <2> QED
    BY <2>1, <2>2
<1>5. ConfigsAreOnRecord'
  BY <1>1, <1>4 DEF ConfigsAreOnRecord, FormedTopic, OnRecord
<1> QED
  BY <1>1, <1>5

\* Status at the broker is, or will be, that of the link.
LEMMA StatusStep ==
  ASSUME TypeOK, TypeOK', LoadedFirst', KnowsThePanel, AlarmsAreKept, ConnectionIsKnown,
         ConfigsAreOnRecord, StatusIsOnRecord, [Next]_vars
  PROVE  StatusIsOnRecord'
<1> SUFFICES ASSUME Current' PROVE StatusIsOnRecord'
  BY DEF StatusIsOnRecord
<1>1. /\ ConnectionIsKnown'
      /\ ~BrokerAccepts /\ ~BrokerLost /\ (Current \/ OnConnected)
  BY ConnectionStep
<1>2. mqtt_up'
  BY <1>1 DEF ConnectionIsKnown, Current
<1>3. CASE Deliver
  <2>1. Current /\ link' = link
    BY <1>3 DEF Deliver, Current, bridgeVars
  <2>2. StatusTopic[1] # "config"
    BY DEF StatusTopic
  <2>3. StatusTopic \in DOMAIN Upcoming
    BY <2>1 DEF StatusIsOnRecord
  <2>4. StatusTopic \in DOMAIN Upcoming' /\ Upcoming'[StatusTopic] = Upcoming[StatusTopic]
    BY <1>3, <2>2, <2>3, Delivered
  <2> QED
    BY <2>1, <2>4 DEF StatusIsOnRecord
<1>4. CASE ~Deliver
  <2>1. ASSUME NEW M, NEW forgot \in BOOLEAN, Says(M, forgot)
        PROVE  StatusIsOnRecord'
    <3>1. /\ retained' = retained /\ (OnConnected => forgot)
          /\ \A t \in DOMAIN M : t \in DOMAIN outbox' /\ outbox'[t] = M[t]
          /\ \A t : t[1] # "config" /\ t \notin DOMAIN M => SameAt(t)
          /\ forgot => StatusTopic \in DOMAIN M
          /\ \/ StatusTopic \in DOMAIN M
             \/ (link.id >= 1 => link'.id >= 1) /\ (link'.read => link.read)
          /\ StatusTopic \in DOMAIN M => M[StatusTopic] = IF link'.loaded THEN "online" ELSE "offline"
      BY <1>2, <2>1 DEF Says, Published, HonestFor
    <3>2. CASE StatusTopic \in DOMAIN M
      <4>1. /\ StatusTopic \in DOMAIN Upcoming'
            /\ Upcoming'[StatusTopic] = IF link'.loaded THEN "online" ELSE "offline"
        BY <3>1, <3>2, UpcomingAfter
      <4> QED
        BY <4>1 DEF StatusIsOnRecord, LoadedFirst
    <3>3. CASE StatusTopic \notin DOMAIN M
      <4>1. Current /\ (link.id >= 1 => link'.id >= 1) /\ (link'.read => link.read)
        BY <1>1, <3>1, <3>3
      <4>2. StatusTopic[1] # "config"
        BY DEF StatusTopic
      <4>3. SameAt(StatusTopic)
        BY <3>1, <3>3, <4>2
      <4>4. /\ StatusTopic \in DOMAIN Upcoming' <=> StatusTopic \in DOMAIN Upcoming
            /\ StatusTopic \in DOMAIN Upcoming => Upcoming'[StatusTopic] = Upcoming[StatusTopic]
        BY <3>1, <4>3, UpcomingAfter
      <4> QED
        BY <4>1, <4>4 DEF StatusIsOnRecord
    <3> QED
      BY <3>2, <3>3
  <2>2. (\E M : Says(M, TRUE)) \/ (\E M : Says(M, FALSE))
    BY <1>1, <1>4, SaysStep, ConfigsAreTopics
  <2> QED
    BY <2>1, <2>2
<1> QED
  BY <1>3, <1>4

\* An alarm that has just been handled is about to be published.
LEMMA RungStep ==
  ASSUME TypeOK, EventsInOrder, LoadedFirst, KnowsThePanel, AlarmsAreKept, [Next]_vars,
         NEW a \in alarmed', ~Ringing(a)'
  PROVE  /\ a \in alarmed
         /\ Ringing(a) => task'.at \in SiaTasks /\ a \in task'.effect.areas
<1>t. /\ session.last \in Nat /\ link.id \in 0..session.last /\ session.alive \in BOOLEAN /\ PanelOK
      /\ alarmed \subseteq Areas
  BY DEF TypeOK
<1>c. alarmed # {} => Seen
  BY DEF AlarmsAreKept
<1>1. CASE PanelSteps
  <2>1. Told /\ UNCHANGED <<link, task>>
    BY <1>1, PanelStep DEF bridgeVars
  <2>2. /\ session' = session
        /\ \A i \in DOMAIN events : i \in DOMAIN events' /\ events'[i] = events[i]
        /\ session.alive => DOMAIN panel'.zones = DOMAIN panel.zones
        /\ \/ a \in alarmed
           \/ Seen /\ \E i \in DOMAIN events' : i \notin DOMAIN events /\ Rings(events'[i], a)
    BY <2>1 DEF Told
  <2>3. DOMAIN panel'.zones = DOMAIN panel.zones
    BY <1>c, <2>2 DEF Seen
  <2>4. CASE a \in alarmed
    <3>1. ~Ringing(a)
      BY <2>2, <2>3, RingingKept
    <3> QED
      BY <2>4, <3>1
  <2>5. CASE Seen /\ \E i \in DOMAIN events' : i \notin DOMAIN events /\ Rings(events'[i], a)
    <3>1. PICK i \in DOMAIN events' : Rings(events'[i], a)
      BY <2>5
    <3>2. Rung(i, a)'
      BY <2>2, <2>3, <3>1 DEF Rung, Rings
    <3>3. Ringing(a)'
      BY <3>2 DEF Rung, Ringing
    <3> QED
      BY <3>3
  <2> QED
    BY <2>2, <2>4, <2>5
<1>2. CASE SessionStarts
  <2>1. alarmed' = alarmed /\ ~session.alive
    BY <1>2, StartStep
  <2>2. alarmed' = {}
    BY <1>c, <2>1 DEF Seen
  <2> QED
    BY <2>2
<1>3. CASE SessionEnds
  BY <1>3, EndStep
<1>4. CASE Reports
  <2>1. PICK s \in session.closing :
           /\ session'.last = session.last
           /\ UNCHANGED <<panel, link, task, alarmed>>
           /\ \E e \in LinkEvent : e.kind = "Closed" /\ e.id = s /\ events' = Append(events, e)
    BY <1>4, ReportStep DEF bridgeVars
  <2>2. PICK e \in LinkEvent : e.kind = "Closed" /\ e.id = s /\ events' = Append(events, e)
    BY <2>1
  <2>3. \A i \in DOMAIN events : i \in DOMAIN events' /\ events'[i] = events[i]
    BY <2>2, Appended DEF TypeOK
  <2>4. ~Ringing(a)
    BY <2>1, <2>3, RingingKept
  <2> QED
    BY <2>1, <2>4
<1>5. CASE OnReady
  <2>1. /\ events # <<>> /\ Head(events).kind = "Ready" /\ events' = Tail(events) /\ alarmed' = alarmed
        /\ UNCHANGED <<panel, session>>
    BY <1>5, ReadyStep DEF panelVars
  <2>2. ~Rings(Head(events), a)
    BY <2>1 DEF Rings
  <2>3. ~Ringing(a)
    BY <2>1, <2>2, RingingKept
  <2> QED
    BY <2>1, <2>3
<1>6. CASE OnClosed
  <2>1. /\ events # <<>> /\ Head(events).kind = "Closed" /\ events' = Tail(events) /\ alarmed' = alarmed
        /\ UNCHANGED <<panel, session>>
    BY <1>6, ClosedStep DEF panelVars
  <2>2. ~Rings(Head(events), a)
    BY <2>1 DEF Rings
  <2>3. ~Ringing(a)
    BY <2>1, <2>2, RingingKept
  <2> QED
    BY <2>1, <2>3
<1>7. CASE OnSia
  <2> DEFINE h == Head(events)
  <2>1. /\ events # <<>> /\ h.kind = "Sia" /\ events' = Tail(events)
        /\ UNCHANGED <<panel, session, alarmed>>
        /\ \/ link.id # h.id \/ ~link.loaded
           \/ task'.at = "sia_status" /\ task'.effect = EventEffect(link.snapshot, h.ev)
           \/ h.ev.code \in {"ZO", "ZC"}
    BY <1>7, SiaStep DEF panelVars
  <2>2. a \in alarmed /\ Seen /\ a \in Areas
    BY <1>t, <1>c, <2>1
  <2>3. Ringing(a) => Rings(h, a)
    BY <2>1, RingingKept
  <2>4. SUFFICES ASSUME Rings(h, a)
                 PROVE  task'.at \in SiaTasks /\ a \in task'.effect.areas
    BY <2>2, <2>3
  <2>5. /\ h.id = session.last /\ h.ev.code = "BA" /\ h.ev.address \in DOMAIN panel.zones
        /\ ZoneArea[h.ev.address] = a
    BY <2>4 DEF Rings
  <2>6. link.id = h.id /\ link.loaded /\ Answers
    BY <2>2, <2>5 DEF Seen, LoadedFirst, Answers
  <2>7. task'.at = "sia_status" /\ task'.effect = EventEffect(link.snapshot, h.ev)
    BY <2>1, <2>5, <2>6
  <2>8. DOMAIN link.snapshot.areas = Areas /\ DOMAIN link.snapshot.zones = DOMAIN panel.zones
    BY <2>2, <2>6 DEF Seen, KnowsThePanel
  <2>9. link.snapshot.zones[h.ev.address].area = a
    BY <2>5, <2>6, <2>8 DEF KnowsThePanel
  <2>10. a \in U8
    BY <2>2, BridgeAssumption
  <2>11. a \in AlarmedAreas(link.snapshot, h.ev)
    BY <2>2, <2>5, <2>8, <2>9, <2>10 DEF AlarmedAreas, ZONE_ALARM_CODES
  <2>12. task'.effect.areas = AlarmedAreas(link.snapshot, h.ev)
    BY <2>7 DEF EventEffect
  <2> QED
    BY <2>7, <2>11, <2>12 DEF SiaTasks
<1>8. CASE InnerSteps
  <2>1. Inner
    BY <1>8, InnerStep
  <2>2. /\ session' = session /\ events' = events /\ alarmed' = alarmed
        /\ DOMAIN panel'.zones = DOMAIN panel.zones
    BY <2>1 DEF Inner, SameWorld, SamePanel
  <2>3. ~Ringing(a)
    BY <2>2 DEF Ringing, Rings
  <2> QED
    BY <2>2, <2>3
<1>9. CASE UNCHANGED vars
  BY <1>9 DEF vars, panelVars, bridgeVars, Ringing, Rings
<1> QED
  BY <1>1, <1>2, <1>3, <1>4, <1>5, <1>6, <1>7, <1>8, <1>9, Kinds

\* An alarm is ringing, being handled, upcoming or retained.
LEMMA AlarmRecordStep ==
  ASSUME TypeOK, TypeOK', EventsInOrder, LoadedFirst, LoadedFirst', KnowsThePanel, AlarmsAreKept,
         AlarmsAreKept', ConnectionIsKnown, ConfigsAreOnRecord, AlarmsAreOnRecord, [Next]_vars
  PROVE  AlarmsAreOnRecord'
<1> DEFINE Pending(a) == task.at \in {"sia_status", "sia_areas"} /\ a \in task.effect.areas
           Shown(a)   == AlarmTopic(a) \in DOMAIN Upcoming /\ Upcoming[AlarmTopic(a)] = "ON"
<1>b. ASSUME \A a \in alarmed' : Ringing(a)' \/ Pending(a)' \/ Shown(a)'
      PROVE  AlarmsAreOnRecord'
  BY <1>b DEF AlarmsAreOnRecord
<1> SUFFICES ASSUME Current', NEW a \in alarmed', ~Ringing(a)' PROVE Pending(a)' \/ Shown(a)'
  BY <1>b DEF AlarmsAreOnRecord
<1>1. /\ ConnectionIsKnown'
      /\ ~BrokerAccepts /\ ~BrokerLost /\ (Current \/ OnConnected)
  BY ConnectionStep
<1>2. mqtt_up'
  BY <1>1 DEF ConnectionIsKnown, Current
<1>3. /\ a \in DOMAIN link'.snapshot.areas /\ link'.snapshot.areas[a].triggered
      /\ link'.loaded
  BY DEF AlarmsAreKept, WasTriggered, Seen, LoadedFirst
<1>4. /\ a \in alarmed
      /\ Ringing(a) => task'.at \in SiaTasks /\ a \in task'.effect.areas
  BY RungStep
<1>5. AlarmTopic(a)[1] # "config"
  BY DEF AlarmTopic
<1>6. Current => Ringing(a) \/ Pending(a) \/ Shown(a)
  BY <1>4 DEF AlarmsAreOnRecord
<1>7. Ringing(a) => Pending(a)'
  BY <1>4 DEF SiaTasks
<1>8. CASE Deliver
  <2>1. Current /\ task' = task
    BY <1>8 DEF Deliver, Current, bridgeVars
  <2>2. Pending(a) => Pending(a)'
    BY <2>1
  <2>3. Shown(a) => Shown(a)'
    BY <1>5, <1>8, Delivered
  <2> QED
    BY <1>6, <1>7, <2>1, <2>2, <2>3
<1>9. CASE ~Deliver
  <2>1. ASSUME NEW M, NEW forgot \in BOOLEAN, Says(M, forgot)
        PROVE  Pending(a)' \/ Shown(a)'
    <3>1. /\ retained' = retained /\ (OnConnected => forgot)
          /\ \A t \in DOMAIN M : t \in DOMAIN outbox' /\ outbox'[t] = M[t]
          /\ \A t : t[1] # "config" /\ t \notin DOMAIN M => SameAt(t)
          /\ forgot => AlarmTopic(a) \in DOMAIN M
          /\ AlarmTopic(a) \in DOMAIN M =>
               M[AlarmTopic(a)] = OnOff(link'.snapshot.areas[a].triggered)
      BY <1>2, <1>3, <2>1 DEF Says, Published, HonestFor
    <3>2. CASE AlarmTopic(a) \in DOMAIN M
      <4>1. M[AlarmTopic(a)] = "ON"
        BY <1>3, <3>1, <3>2 DEF OnOff
      <4>2. AlarmTopic(a) \in DOMAIN outbox' /\ outbox'[AlarmTopic(a)] = "ON"
        BY <3>1, <3>2, <4>1
      <4>3. Shown(a)'
        BY <4>2, UpcomingAfter
      <4> QED
        BY <4>3
    <3>3. CASE AlarmTopic(a) \notin DOMAIN M
      <4>1. Current
        BY <1>1, <3>1, <3>3
      <4>2. SameAt(AlarmTopic(a))
        BY <1>5, <3>1, <3>3
      <4>3. Shown(a) => Shown(a)'
        BY <3>1, <4>2, UpcomingAfter
      <4>4. ASSUME Pending(a) PROVE Pending(a)'
        <5>1. task.at \in SiaTasks /\ a \in task.effect.areas \cap DOMAIN link'.snapshot.areas
          BY <1>3, <4>4 DEF SiaTasks
        <5>2. task'.at \in SiaTasks /\ task'.effect = task.effect
          BY <2>1, <3>3, <5>1 DEF Says
        <5> QED
          BY <5>1, <5>2 DEF SiaTasks
      <4> QED
        BY <1>6, <1>7, <4>1, <4>3, <4>4
    <3> QED
      BY <3>2, <3>3
  <2>2. (\E M : Says(M, TRUE)) \/ (\E M : Says(M, FALSE))
    BY <1>1, <1>9, SaysStep, ConfigsAreTopics
  <2> QED
    BY <2>1, <2>2
<1> QED
  BY <1>8, <1>9

\* A control that a zone has had stays while the panel is known.
LEMMA ZonesGrow ==
  ASSUME TypeOK, LoadedFirst, KnowsThePanel, AlarmsAreKept, [Next]_vars, link.read, link'.read
  PROVE  \A z \in DOMAIN link'.snapshot.zones :
           /\ z \in DOMAIN link.snapshot.zones
           /\ link.snapshot.zones[z].allowed \subseteq link'.snapshot.zones[z].allowed
<1>1. CASE (PanelSteps \/ SessionStarts \/ SessionEnds \/ Reports) \/ UNCHANGED vars
  <2>1. link' = link
    BY <1>1, WorldKeepsBridge DEF bridgeVars, vars
  <2> QED
    BY <2>1
<1>2. CASE OnReady
  BY <1>2, ReadyStep
<1>3. CASE OnClosed
  BY <1>3, ClosedStep
<1>4. CASE OnSia
  <2>1. link' = link \/ Applied(Head(events).ev)
    BY <1>4, SiaStep
  <2> QED
    BY <2>1 DEF Applied
<1>5. CASE InnerSteps
  <2>1. Inner
    BY <1>5, InnerStep
  <2>2. Answers => DOMAIN link.snapshot.zones = DOMAIN panel.zones
    BY DEF KnowsThePanel
  <2> QED
    BY <2>1, <2>2, InnerZones
<1> QED
  BY <1>1, <1>2, <1>3, <1>4, <1>5, Kinds

\* How the record of configs changes while they can be published.
LEMMA RecordIs ==
  ASSUME TypeOK, TypeOK', KnowsThePanel, AlarmsAreKept, ConfigTopics(discovery), [Next]_vars
  PROVE  \/ Due /\ (mqtt_up => mqtt_up')
         \/ discovery' = discovery /\ (mqtt_up' => mqtt_up) /\ (link'.read => link.read)
<1>1. CASE BrokerAccepts \/ BrokerLost \/ Deliver
  BY <1>1 DEF BrokerAccepts, BrokerLost, Deliver, bridgeVars
<1>2. CASE ~(BrokerAccepts \/ BrokerLost \/ Deliver)
  <2>1. ASSUME NEW M, NEW forgot \in BOOLEAN, Says(M, forgot)
        PROVE  \/ Due /\ (mqtt_up => mqtt_up')
               \/ discovery' = discovery /\ (mqtt_up' => mqtt_up) /\ (link'.read => link.read)
    BY <2>1 DEF Says
  <2>2. (\E M : Says(M, TRUE)) \/ (\E M : Says(M, FALSE))
    BY <1>2, SaysStep
  <2> QED
    BY <2>1, <2>2
<1> QED
  BY <1>1, <1>2

\* No switch is on record that the snapshot does not allow.
LEMMA SwitchesStep ==
  ASSUME TypeOK, TypeOK', LoadedFirst, LoadedFirst', KnowsThePanel, AlarmsAreKept,
         ConfigsAreOnRecord, SwitchesAreOffered, [Next]_vars
  PROVE  SwitchesAreOffered'
<1> SUFFICES ASSUME mqtt_up', link'.read, NEW t \in DOMAIN discovery', IsSwitch(t),
                    t[4] \in DOMAIN link'.snapshot.zones
             PROVE  t[5] \in link'.snapshot.zones[t[4]].allowed
  BY DEF SwitchesAreOffered
<1>1. link'.loaded /\ SnapshotOK(link'.snapshot)
  BY DEF LoadedFirst, TypeOK
<1>2. CASE Due
  <2>1. discovery' = DiscoveryMessages(link'.snapshot)
    BY <1>1, <1>2 DEF Due
  <2> QED
    BY <1>1, <2>1, FormedConfigs
<1>3. CASE discovery' = discovery /\ mqtt_up /\ link.read
  <2>1. /\ t[4] \in DOMAIN link.snapshot.zones
        /\ link.snapshot.zones[t[4]].allowed \subseteq link'.snapshot.zones[t[4]].allowed
    BY <1>3, ZonesGrow
  <2>2. t[5] \in link.snapshot.zones[t[4]].allowed
    BY <1>3, <2>1 DEF SwitchesAreOffered
  <2> QED
    BY <2>1, <2>2
<1> QED
  BY <1>2, <1>3, RecordIs, ConfigsAreTopics

-----------------------------------------------------------------------------
(* The invariant. *)

\* It holds at the start,
LEMMA InitInv == Init => BridgeInv
<1> SUFFICES ASSUME Init PROVE BridgeInv
  OBVIOUS
<1>1. /\ panel = NewPanel /\ session = [last |-> 0, alive |-> FALSE, closing |-> {}]
      /\ events = <<>> /\ link = NoLink /\ task = Idle /\ mqtt_rx = <<>> /\ mqtt_up = FALSE
      /\ discovery = NoMessages /\ conn = FALSE /\ alarmed = {} /\ unheard = {}
  BY DEF Init
<1>2. /\ session.last = 0 /\ session.alive = FALSE /\ session.closing = {} /\ task.at = "idle"
      /\ link.id = 0 /\ link.loaded = FALSE /\ link.read = FALSE /\ link.snapshot = NewSnapshot
      /\ DOMAIN link = DOMAIN NoLink /\ DOMAIN discovery = {}
  BY <1>1 DEF NoLink, Idle, NoMessages, NoEntries
<1>3. PanelOK
  <2>1. /\ panel.modes = [a \in Areas |-> "3"]
        /\ panel.zones = [z \in Zones |-> [input |-> "0", status |-> "0"]]
    BY <1>1 DEF NewPanel
  <2>2. \A z \in Zones : DOMAIN panel.zones[z] = {"input", "status"}
    BY <2>1
  <2> QED
    BY <1>1, <2>1, <2>2 DEF PanelOK
<1>4. SnapshotOK(link.snapshot)
  BY <1>2 DEF SnapshotOK, NewSnapshot, NoEntries
<1>5. session \in [last : Nat, alive : BOOLEAN, closing : SUBSET Nat]
  BY <1>1
<1>6. events \in Seq(LinkEvent) /\ DOMAIN events = {} /\ mqtt_rx \in Seq(MqttEvent) /\ DOMAIN mqtt_rx = {}
  BY <1>1
<1>7. TypeOK
  <2>0. link.loaded \in BOOLEAN /\ link.read \in BOOLEAN
    BY <1>2
  <2>1. LinkOK(link) /\ link.id \in 0..session.last
    <3>1. LinkOK(link)
      BY <1>2, <1>4, <2>0 DEF LinkOK
    <3> QED
      BY <1>2, <3>1
  <2>2. LinkTypes
    <3>1. Len(events) <= QueueLen
      BY <1>1, BridgeAssumption
    <3> QED
      BY <1>1, <1>2, <1>3, <1>5, <1>6, <2>1, <3>1 DEF LinkTypes
  <2>3. TaskTypes /\ MqttTypes
    BY <1>1, <1>2, <1>6 DEF TaskTypes, MqttTypes
  <2> QED
    BY <2>2, <2>3, TypesAre
<1>8. EventsInOrder /\ LoadedFirst
  BY <1>2, <1>6 DEF EventsInOrder, LoadedFirst
<1>9. KnowsThePanel /\ ZonesAreTold /\ AlarmsAreKept
  BY <1>1, <1>2 DEF KnowsThePanel, ZonesAreTold, AlarmsAreKept, Answers
<1>10. ConnectionIsKnown
  BY <1>1, <1>6 DEF ConnectionIsKnown
<1>11. ConfigsAreOnRecord /\ StatusIsOnRecord /\ AlarmsAreOnRecord
  BY <1>1, <1>2 DEF ConfigsAreOnRecord, StatusIsOnRecord, AlarmsAreOnRecord, Current
<1>12. SwitchesAreOffered /\ CommandsAreFormed
  BY <1>2 DEF SwitchesAreOffered, CommandsAreFormed
<1> QED
  BY <1>7, <1>8, <1>9, <1>10, <1>11, <1>12 DEF BridgeInv

\* and every step keeps it.
LEMMA StepInv == ASSUME BridgeInv, [Next]_vars PROVE BridgeInv'
<1>1. /\ TypeOK /\ EventsInOrder /\ LoadedFirst /\ KnowsThePanel /\ ZonesAreTold /\ AlarmsAreKept
      /\ ConnectionIsKnown /\ ConfigsAreOnRecord /\ StatusIsOnRecord /\ AlarmsAreOnRecord
      /\ SwitchesAreOffered /\ CommandsAreFormed
  BY DEF BridgeInv
<1>2. TypeOK'
  BY <1>1, TypeStep
<1>3. EventsInOrder'
  BY <1>1, OrderStep
<1>4. LoadedFirst'
  BY <1>1, LoadedStep
<1>5. KnowsThePanel'
  BY <1>1, KnownStep
<1>6. ZonesAreTold'
  BY <1>1, ToldStep
<1>7. AlarmsAreKept'
  BY <1>1, AlarmsStep
<1>8. ConnectionIsKnown'
  BY <1>1, ConnectionStep
<1>9. ConfigsAreOnRecord' /\ CommandsAreFormed'
  BY <1>1, <1>2, ConfigsStep
<1>10. StatusIsOnRecord'
  BY <1>1, <1>2, <1>4, StatusStep
<1>11. AlarmsAreOnRecord'
  BY <1>1, <1>2, <1>4, <1>7, AlarmRecordStep
<1>12. SwitchesAreOffered'
  BY <1>1, <1>2, <1>4, SwitchesStep
<1> QED
  BY <1>2, <1>3, <1>4, <1>5, <1>6, <1>7, <1>8, <1>9, <1>10, <1>11, <1>12 DEF BridgeInv

\* The invariant that everything below rests on holds of the bridge: the order of
\* the sessions' events, what the snapshot knows of the panel, and what is on
\* record at the broker.
THEOREM BridgeInvariance == Spec => []BridgeInv
<1>1. BridgeInv /\ [Next]_vars => BridgeInv'
  BY StepInv
<1> QED
  BY InitInv, <1>1, PTL DEF Spec

-----------------------------------------------------------------------------
(* What it is for. *)

\* Nothing is under way: what was pending is retained.
LEMMA SettledIs ==
  ASSUME Settled
  PROVE  /\ Current /\ task.at = "idle" /\ \A a : ~Ringing(a)
         /\ DOMAIN outbox = {} /\ DOMAIN Upcoming = DOMAIN retained
         /\ \A t \in DOMAIN retained : Upcoming[t] = retained[t]
<1>1. outbox = NoMessages /\ task = Idle /\ events = <<>> /\ conn /\ mqtt_rx = <<>>
  BY DEF Settled
<1>2. DOMAIN outbox = {}
  BY <1>1 DEF NoMessages, NoEntries
<1>3. /\ DOMAIN Upcoming = (DOMAIN outbox) \cup (DOMAIN retained)
      /\ \A t \in DOMAIN retained : t \notin DOMAIN outbox => Upcoming[t] = retained[t]
  BY Joined DEF Upcoming
<1>4. Current
  BY <1>1 DEF Current
<1>5. task.at = "idle" /\ \A a : ~Ringing(a)
  BY <1>1 DEF Idle, Ringing
<1> QED
  BY <1>2, <1>3, <1>4, <1>5

\* With nothing under way, upcoming is retained: status says what the link is.
LEMMA StatusFollows == BridgeInv => StatusIsHonest
<1> SUFFICES ASSUME BridgeInv, Settled
             PROVE  /\ StatusTopic \in DOMAIN retained
                    /\ retained[StatusTopic] = "online" => link # NoLink
                    /\ link.read => retained[StatusTopic] = "online"
  BY DEF StatusIsHonest
<1>1. StatusIsOnRecord
  BY DEF BridgeInv
<1>2. NoLink.id = 0
  BY DEF NoLink
<1>3. /\ StatusTopic \in DOMAIN retained
      /\ retained[StatusTopic] = "online" => link.id >= 1
      /\ link.read => retained[StatusTopic] = "online"
  BY <1>1, SettledIs DEF StatusIsOnRecord
<1>4. link.id >= 1 => link # NoLink
  BY <1>2
<1> QED
  BY <1>3, <1>4

\* So is each config on record.
LEMMA RecordFollows == BridgeInv => SkippedConfigsAreRetained
<1> SUFFICES ASSUME BridgeInv, Settled PROVE mqtt_up /\ IsRetained(discovery)
  BY DEF SkippedConfigsAreRetained
<1>1. ConfigsAreOnRecord /\ ConnectionIsKnown
  BY DEF BridgeInv
<1>2. mqtt_up
  BY <1>1, SettledIs, CurrentIsUp
<1>3. \A t \in DOMAIN discovery : FormedTopic(t) /\ OnRecord(t)
  BY <1>1, SettledIs DEF ConfigsAreOnRecord, FormedTopic, OnRecord
<1>4. ASSUME NEW t \in DOMAIN discovery
      PROVE  /\ t \in Deletes(discovery) => t \notin DOMAIN retained
             /\ t \notin Deletes(discovery) => t \in DOMAIN retained /\ retained[t] = discovery[t]
  <2>1. t[1] = "config"
    BY <1>3 DEF FormedTopic
  <2>2. t \in Deletes(discovery) <=> discovery[t] = Empty
    BY <2>1 DEF Deletes
  <2>3. CASE discovery[t] = Empty
    BY <1>3, <2>2, <2>3, SettledIs DEF OnRecord
  <2>4. CASE discovery[t] # Empty
    BY <1>3, <2>2, <2>4, SettledIs DEF OnRecord
  <2> QED
    BY <2>3, <2>4
<1>5. Deletes(discovery) \subseteq DOMAIN discovery
  BY DEF Deletes
<1>6. IsRetained(discovery)
  BY <1>4, <1>5 DEF IsRetained
<1> QED
  BY <1>2, <1>6

\* With all events handled, no zone waits to be told of.
LEMMA ZonesFollow == BridgeInv => ZonesFollowThePanel
<1> SUFFICES ASSUME BridgeInv, task = Idle, events = <<>>, Seen,
                    NEW z \in DOMAIN link.snapshot.zones \ unheard
             PROVE  link.snapshot.zones[z].input = ZoneInput(panel.zones[z].input)
  BY DEF ZonesFollowThePanel
<1>1. ZonesAreTold /\ KnowsThePanel
  BY DEF BridgeInv
<1>2. Answers /\ ~Moving(z)
  BY DEF Seen, Answers, Moving
<1>3. z \in DOMAIN panel.zones
  BY <1>1, <1>2 DEF KnowsThePanel
<1> QED
  BY <1>1, <1>2, <1>3 DEF ZonesAreTold

\* Nor is an alarm on its way.
LEMMA AlarmsFollow == BridgeInv => AlarmIsShown
<1> SUFFICES ASSUME BridgeInv, Settled, Seen, NEW a \in alarmed
             PROVE  IsRetained(One(AlarmTopic(a), "ON"))
  BY DEF AlarmIsShown
<1>1. AlarmsAreOnRecord
  BY DEF BridgeInv
<1>2. AlarmTopic(a) \in DOMAIN Upcoming /\ Upcoming[AlarmTopic(a)] = "ON"
  BY <1>1, SettledIs DEF AlarmsAreOnRecord
<1>3. AlarmTopic(a) \in DOMAIN retained /\ retained[AlarmTopic(a)] = "ON"
  BY <1>2, SettledIs
<1> DEFINE M == One(AlarmTopic(a), "ON")
<1>4. DOMAIN M = {AlarmTopic(a)} /\ M[AlarmTopic(a)] = "ON"
  BY DEF One, All
<1>5. AlarmTopic(a)[1] # "config"
  BY DEF AlarmTopic
<1> HIDE DEF M
<1>6. Deletes(M) = {}
  BY <1>4, <1>5 DEF Deletes
<1>7. IsRetained(M)
  BY <1>3, <1>4, <1>6 DEF IsRetained
<1> QED
  BY <1>7 DEF M

\* Appending makes a sequence one longer and leaves what is in it.
LEMMA AppendedTo ==
  ASSUME NEW S, NEW q \in Seq(S), NEW v \in S
  PROVE  /\ Len(Append(q, v)) = Len(q) + 1
         /\ \A i \in DOMAIN q : Append(q, v)[i] = q[i]
  OBVIOUS

\* The parts of a command topic.
LEMMA SetTopicIs ==
  ASSUME NEW x, NEW y, NEW w
  PROVE  /\ Len(SetTopic(<<x, y, w>>)) = 4
         /\ SetTopic(<<x, y, w>>)[1] = x /\ SetTopic(<<x, y, w>>)[2] = y
         /\ SetTopic(<<x, y, w>>)[3] = w
<1> DEFINE S == {x, y, w, "set"}
           q == <<x, y, w>>
<1>1. q \in Seq(S) /\ Len(q) = 3 /\ q[1] = x /\ q[2] = y /\ q[3] = w /\ "set" \in S
  OBVIOUS
<1> HIDE DEF q, S
<1> DEFINE p == Append(q, "set")
<1>2. /\ Len(p) = Len(q) + 1
      /\ \A i \in DOMAIN q : p[i] = q[i]
  BY <1>1, AppendedTo
<1> HIDE DEF p
<1>3. 1 \in DOMAIN q /\ 2 \in DOMAIN q /\ 3 \in DOMAIN q
  BY <1>1
<1>4. Len(p) = 4 /\ p[1] = x /\ p[2] = y /\ p[3] = w
  BY <1>1, <1>2, <1>3
<1> QED
  BY <1>4 DEF p, q, SetTopic

\* The meaning of what a switch and a mode select can send.
LEMMA SwitchOptions ==
  ASSUME NEW k
  PROVE  /\ \A o \in {"ON", "OFF"} : ZoneOps(k, o) # {}
         /\ ZoneOps(k, "ON") \cap ZoneOps(k, "OFF") = {}
<1>1. [control |-> k, on |-> TRUE] \in ZoneOps(k, "ON")
  BY DEF ZoneOps, OnOff
<1>2. [control |-> k, on |-> FALSE] \in ZoneOps(k, "OFF")
  BY DEF ZoneOps, OnOff
<1>3. \A op \in ZoneOps(k, "ON") : OnOff(op.on) = "ON"
  BY DEF ZoneOps
<1>4. \A op \in ZoneOps(k, "OFF") : OnOff(op.on) = "OFF"
  BY DEF ZoneOps
<1> QED
  BY <1>1, <1>2, <1>3, <1>4

\* The labels of two modes are never the same mode.
LEMMA ModeOptions ==
  /\ \A o \in {Labels[m] : m \in Modes} : ModesOf(o) # {}
  /\ \A o, p : o # p => ModesOf(o) \cap ModesOf(p) = {}
BY DEF ModesOf

\* All configs are formed so that the bridge finds their entity again, if it has an
\* id of eight bits.
LEMMA CommandsFollow == BridgeInv => CommandsReachTheirEntity
<1> SUFFICES ASSUME BridgeInv, NEW t \in DOMAIN discovery, "command" \in DOMAIN discovery[t]
             PROVE  LET config == discovery[t]
                        meaning == [o \in config.options |->
                                      IF IsSwitch(t) THEN ZoneOps(t[5], o) ELSE ModesOf(o)]
                    IN  /\ IF IsSwitch(t)
                           THEN ZoneTargets(config.command)
                                  = {<<t[4], t[5]>>} \cap (U8 \X ZoneControls)
                           ELSE AreaTargets(config.command) = {config.state[2]}
                        /\ \A o \in config.options : meaning[o] # {}
                        /\ \A o, p \in config.options : o # p => meaning[o] \cap meaning[p] = {}
  BY DEF CommandsReachTheirEntity
<1> DEFINE config == discovery[t]
<1>1. FormedTopic(t) /\ FormedCommand(t, config)
  BY DEF BridgeInv, ConfigsAreOnRecord, CommandsAreFormed, FormedTopic, FormedCommand
<1> HIDE DEF config
<1>2. config.command = SetTopic(config.state)
  BY <1>1 DEF FormedCommand, config
<1>3. CASE IsSwitch(t)
  <2>1. /\ config.state = SwitchTopic(t[4], t[5]) /\ config.options = {"ON", "OFF"}
    BY <1>1, <1>3 DEF FormedTopic, FormedCommand, config
  <2>2. config.command = SetTopic(<<"zone", t[4], t[5]>>)
    BY <1>2, <2>1 DEF SwitchTopic
  <2>3. ZoneTargets(config.command) = {<<t[4], t[5]>>} \cap (U8 \X ZoneControls)
    <3> DEFINE c == config.command
    <3>1. Len(c) = 4 /\ c[1] = "zone" /\ c[2] = t[4] /\ c[3] = t[5]
      BY <2>2, SetTopicIs
    <3> HIDE DEF c
    <3>2. ZoneTargets(c) = {<<t[4], t[5]>>} \cap (U8 \X ZoneControls)
      BY <3>1 DEF ZoneTargets
    <3> QED
      BY <3>2 DEF c
  <2>4. /\ \A o \in config.options : ZoneOps(t[5], o) # {}
        /\ \A o, p \in config.options : o # p => ZoneOps(t[5], o) \cap ZoneOps(t[5], p) = {}
    BY <2>1, SwitchOptions
  <2> QED
    BY <1>3, <2>3, <2>4 DEF config
<1>4. CASE ~IsSwitch(t)
  <2>1. config.options = {Labels[m] : m \in Modes}
    BY <1>1, <1>4 DEF FormedCommand, config
  <2>2. PICK a \in Areas \cup {AllAreas} : config.state = ModeTopic(a)
    BY <1>1, <1>4 DEF FormedCommand, config
  <2>3. config.command = SetTopic(<<"area", a, "mode">>) /\ config.state[2] = a
    BY <1>2, <2>2 DEF ModeTopic
  <2>4. AreaTargets(config.command) = {config.state[2]}
    <3> DEFINE c == config.command
    <3>1. Len(c) = 4 /\ c[1] = "area" /\ c[2] = a /\ c[3] = "mode"
      BY <2>3, SetTopicIs
    <3> HIDE DEF c
    <3>2. AreaTargets(c) = {a} \cap (U8 \cup {AllAreas})
      BY <3>1 DEF AreaTargets
    <3>3. a \in U8 \cup {AllAreas}
      BY BridgeAssumption
    <3> QED
      BY <2>3, <3>2, <3>3 DEF c
  <2>5. /\ \A o \in config.options : ModesOf(o) # {}
        /\ \A o, p \in config.options : o # p => ModesOf(o) \cap ModesOf(p) = {}
    BY <2>1, ModeOptions
  <2> QED
    BY <1>4, <2>4, <2>5 DEF config
<1> QED
  BY <1>3, <1>4

\* Whatever the broker lost, and whenever: once nothing is under way, status is
\* retained, "online" only with a session and always with one that has been read.
THEOREM StatusHonest == Spec => []StatusIsHonest
<1>1. BridgeInv => StatusIsHonest
  BY StatusFollows
<1> QED
  BY <1>1, BridgeInvariance, PTL

\* publish_discovery may skip what it has on record: the broker retains it.
THEOREM SkippedRetained == Spec => []SkippedConfigsAreRetained
<1>1. BridgeInv => SkippedConfigsAreRetained
  BY RecordFollows
<1> QED
  BY <1>1, BridgeInvariance, PTL

\* Replies and events may be applied in any order in which they can come: with
\* all events handled, the zones of the snapshot are open as the panel has them.
THEOREM ZonesShown == Spec => []ZonesFollowThePanel
<1>1. BridgeInv => ZonesFollowThePanel
  BY ZonesFollow
<1> QED
  BY <1>1, BridgeInvariance, PTL

\* An alarm the session has seen is retained until its area is unset.
THEOREM AlarmShown == Spec => []AlarmIsShown
<1>1. BridgeInv => AlarmIsShown
  BY AlarmsFollow
<1> QED
  BY <1>1, BridgeInvariance, PTL

\* The command topic of each config is understood as that of its entity, or as nobody's
\* for the switches of a zone whose id has more than the 8 bits of a zone command, and
\* all its options are.
THEOREM CommandsReach == Spec => []CommandsReachTheirEntity
<1>1. BridgeInv => CommandsReachTheirEntity
  BY CommandsFollow
<1> QED
  BY <1>1, BridgeInvariance, PTL

\* A session that is kept has been read as before.
LEMMA ReadKept ==
  ASSUME TypeOK, EventsInOrder, LoadedFirst, KnowsThePanel, AlarmsAreKept, [Next]_vars,
         link.read, link'.id = link.id
  PROVE  link'.read
<1>1. CASE (PanelSteps \/ SessionStarts \/ SessionEnds \/ Reports) \/ UNCHANGED vars
  <2>1. link' = link
    BY <1>1, WorldKeepsBridge DEF bridgeVars, vars
  <2> QED
    BY <2>1
<1>2. CASE OnReady
  <2>1. /\ events # <<>> /\ Head(events).kind = "Ready" /\ events' = Tail(events)
        /\ link'.id = Head(events).id
    BY <1>2, ReadyStep
  <2>2. Head(events) = events[1] /\ 1 \in DOMAIN events /\ Head(events).id \in 1..session.last
    BY <2>1, EventTaken
  <2>3. link.id < Head(events).id
    BY <2>1, <2>2 DEF EventsInOrder
  <2> QED
    BY <2>1, <2>2, <2>3 DEF TypeOK
<1>3. CASE OnClosed
  <2>1. link'.id = 0 \/ link' = link
    BY <1>3, ClosedStep
  <2>2. link.id >= 1
    BY DEF LoadedFirst
  <2> QED
    BY <2>1, <2>2
<1>4. CASE OnSia
  BY <1>4, SiaStep
<1>5. CASE InnerSteps
  <2>1. Inner
    BY <1>5, InnerStep
  <2> QED
    BY <2>1 DEF Inner, ReadAfter
<1> QED
  BY <1>1, <1>2, <1>3, <1>4, <1>5, Kinds

\* The configs of a zone's switches go only with the zone.
THEOREM SwitchesKept == Spec => SwitchesStay
<1> DEFINE Stay ==
             mqtt_up /\ link.read /\ link'.id = link.id =>
               \A t \in DOMAIN discovery \ DOMAIN discovery' :
                  IsSwitch(t) => t[4] \notin DOMAIN link'.snapshot.zones
<1>1. ASSUME BridgeInv, [Next]_vars PROVE Stay
  <2>1. /\ TypeOK /\ EventsInOrder /\ LoadedFirst /\ KnowsThePanel /\ AlarmsAreKept
        /\ ConfigsAreOnRecord /\ SwitchesAreOffered
    BY <1>1 DEF BridgeInv
  <2>2. TypeOK' /\ LoadedFirst'
    BY <1>1, StepInv DEF BridgeInv
  <2> SUFFICES ASSUME mqtt_up, link.read, link'.id = link.id, NEW t \in DOMAIN discovery, IsSwitch(t),
                      t[4] \in DOMAIN link'.snapshot.zones, t \notin DOMAIN discovery'
               PROVE  FALSE
    OBVIOUS
  <2>3. link'.read
    BY <1>1, <2>1, ReadKept
  <2>4. link'.loaded /\ mqtt_up' /\ discovery' = DiscoveryMessages(link'.snapshot)
    <3>1. Due /\ mqtt_up'
      BY <1>1, <2>1, <2>2, RecordIs, ConfigsAreTopics
    <3>2. link'.loaded
      BY <2>2, <2>3 DEF LoadedFirst
    <3> QED
      BY <3>1, <3>2 DEF Due
  <2>5. /\ t[4] \in DOMAIN link.snapshot.zones
        /\ link.snapshot.zones[t[4]].allowed \subseteq link'.snapshot.zones[t[4]].allowed
    BY <1>1, <2>1, <2>3, ZonesGrow
  <2>6. t[5] \in link'.snapshot.zones[t[4]].allowed
    BY <2>1, <2>5 DEF SwitchesAreOffered
  <2>7. t = SwitchConfig(t[4], t[5]) /\ t[5] \in ZoneControls
    BY <2>1 DEF ConfigsAreOnRecord
  <2>8. <<t[4], t[5]>> \in Offered(link'.snapshot)
    BY <2>6, <2>7 DEF Offered
  <2>9. SnapshotOK(link'.snapshot)
    BY <2>2 DEF TypeOK
  <2>10. \A p \in Offered(link'.snapshot) :
            SwitchConfig(p[1], p[2]) \in DOMAIN DiscoveryMessages(link'.snapshot)
    BY <2>9, DiscoveryOK
  <2> QED
    BY <2>4, <2>7, <2>8, <2>10
<1>2. BridgeInv /\ [Next]_vars => [Stay]_vars
  BY <1>1
<1> QED
  BY <1>2, BridgeInvariance, PTL DEF Spec, SwitchesStay
=============================================================================
