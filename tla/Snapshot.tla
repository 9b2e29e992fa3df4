------------------------------ MODULE Snapshot ------------------------------
(***************************************************************************)
(* The panel snapshot (src/src/edp/panel.rs) and the XML replies it is     *)
(* built from (src/src/edp/xml.rs), as operators; Bridge keeps the state.  *)
(*                                                                         *)
(* A snapshot has `areas' and `zones', functions of the ids the panel      *)
(* reported, and `alerts', the masks of the status reply as sets of bits.  *)
(* A number in a reply or event that does not parse is -1.                 *)
(***************************************************************************)
EXTENDS Integers

U8  == 0..255
U32 == Nat

AREA_REFRESH_CODES == {"BV", "CG", "CL", "NL", "OG", "OP"}
ZONE_ALARM_CODES   == {"BA", "FA", "PA", "HA", "TA"}

ArmMode(token) ==
  CASE token = "0" -> "Unset"    [] token = "1" -> "PartSetA"
    [] token = "2" -> "PartSetB" [] token = "3" -> "FullSet"
    [] OTHER -> "None"

\* "fault" is any of the supervision states, which say nothing about open or closed.
ZoneInput(token) ==
  CASE token = "0" -> "closed" [] token = "1" -> "open" [] OTHER -> "fault"
IsOpen(input) ==
  CASE input = "open" -> "ON" [] input = "closed" -> "OFF" [] OTHER -> "None"

ZoneStatus(token) ==
  CASE token = "0" -> "normal"   [] token = "1" -> "inhibited"
    [] token = "2" -> "isolated" [] OTHER -> "other"

\* Home Assistant's class of a zone by its type; a type or a class that is not
\* listed is "opening".
DeviceClass(type) ==
  CASE type \in {"1", "2", "30"} -> "door"     [] type = "0" -> "motion"
    [] type \in {"3", "4"} -> "smoke"          [] type = "8" -> "tamper"
    [] type \in {"6", "7", "10"} -> "safety"   [] type \in {"17", "23"} -> "vibration"
    [] type = "24" -> "moisture"               [] type = "25" -> "heat"
    [] type = "27" -> "gas"                    [] type = "29" -> "carbon_monoxide"
    [] OTHER -> "opening"

NoEntries   == [i \in {} |-> 0]
NoAlerts    == [input |-> {}, alert |-> {}, inhibit |-> {}, isolate |-> {}]
NewSnapshot == [areas |-> NoEntries, zones |-> NoEntries, alerts |-> NoAlerts]

-----------------------------------------------------------------------------
\* A section with children is the rows of these, one without is a single row of
\* its own attributes.
ParseReply(sections) ==
  [t \in {s.tag : s \in sections} |->
     LET s == CHOOSE s \in sections : s.tag = t
     IN  IF s.children # {} THEN s.children ELSE {s.attributes}]

Rows(reply, section) == IF section \in DOMAIN reply THEN reply[section] ELSE {}

RowOf(rows, id) == CHOOSE r \in rows : r.ID = id

\* Rows without a valid id are skipped.
Ids(rows, valid) == {r.ID : r \in rows} \cap valid

\* The one row of an INFO reply has the serial number; others may be missing.
PanelInfo(reply) ==
  {r \in Rows(reply, "INFO") : r.SN # ""}

-----------------------------------------------------------------------------
WasTriggered(areas, id) == id \in DOMAIN areas /\ areas[id].triggered

\* Mutant: the alarm is forgotten by a re-read.
AreaOfRowFresh(areas, r) ==
  [name |-> r.NAME, mode |-> ArmMode(r.MODE), triggered |-> FALSE]
\* The alarm outlives re-reads until the panel reports the area unset.
AreaOfRow(areas, r) ==
  [name |-> r.NAME, mode |-> ArmMode(r.MODE),
   triggered |-> WasTriggered(areas, r.ID) /\ ArmMode(r.MODE) # "Unset"]

ApplyAreas(snap, reply) ==
  LET rows == Rows(reply, "AREA_STATUS")
  IN  [snap EXCEPT !.areas =
        [id \in Ids(rows, U8) |-> AreaOfRow(snap.areas, RowOf(rows, id))]]

ZoneControls == {"inhibit", "isolate"}
ActiveStatus(control) == IF control = "inhibit" THEN "inhibited" ELSE "isolated"

\* Mutant: only what the panel allows right now.
AllowedNow(zones, r) == {c \in ZoneControls : c \in r.ALLOWED}
\* A control is there if the panel allows it now, if it is in use, or if it was
\* there before.
Allowed(zones, r) ==
  {c \in ZoneControls :
     \/ c \in r.ALLOWED
     \/ ZoneStatus(r.STATUS) = ActiveStatus(c)
     \/ r.ID \in DOMAIN zones /\ c \in zones[r.ID].allowed}

ApplyZones(snap, reply) ==
  LET rows == Rows(reply, "ZONE_STATUS")
  IN  [snap EXCEPT !.zones =
        [id \in Ids(rows, U32) |->
           LET r == RowOf(rows, id)
           IN  [name |-> r.ZONE_NAME, area |-> IF r.AREA \in U32 THEN r.AREA ELSE 0, type |-> r.TYPE,
                input |-> ZoneInput(r.INPUT), status |-> ZoneStatus(r.STATUS),
                allowed |-> Allowed(snap.zones, r)]]]

\* A status reply is an error unless SYSALERT has all four masks.
Masks(reply) == {r \in Rows(reply, "SYSALERT") : DOMAIN r = DOMAIN NoAlerts}
ApplyStatus(snap, reply) == [snap EXCEPT !.alerts = CHOOSE r \in Masks(reply) : TRUE]

\* The mode all areas share, if there is one that is recognised.
CommonMode(snap) ==
  LET modes == {snap.areas[a].mode : a \in DOMAIN snap.areas}
  IN  IF \E m \in modes : modes = {m} THEN CHOOSE m \in modes : TRUE ELSE "None"

IsActive(alerts, bit)    == bit \in alerts.input \cup alerts.alert
IsInhibited(alerts, bit) == bit \in alerts.inhibit
IsIsolated(alerts, bit)  == bit \in alerts.isolate
UnmappedActive(alerts, known) == (alerts.input \cup alerts.alert) \ known

-----------------------------------------------------------------------------
\* The area in alarm: the one a verified alarm addresses, or that of the zone.
AlarmedAreas(snap, ev) ==
  LET id == IF ev.code = "BV" THEN ev.address
            ELSE IF ev.code \in ZONE_ALARM_CODES /\ ev.address \in DOMAIN snap.zones
            THEN snap.zones[ev.address].area ELSE -1
  IN  {id} \cap U8 \cap DOMAIN snap.areas

\* The zone an event opens or closes, if the snapshot has it.
MovedZones(snap, ev) ==
  IF ev.code \in ZONE_ALARM_CODES \cup {"ZO", "ZC"}
  THEN {ev.address} \cap DOMAIN snap.zones ELSE {}

\* Mutant: a closed zone stays open.
EventInputOpen(ev) == "open"
EventInput(ev) == IF ev.code = "ZC" THEN "closed" ELSE "open"

ApplyEvent(snap, ev) ==
  [snap EXCEPT
     !.zones = [z \in DOMAIN @ |-> IF z \in MovedZones(snap, ev)
                                   THEN [@[z] EXCEPT !.input = EventInput(ev)] ELSE @[z]],
     !.areas = [a \in DOMAIN @ |-> IF a \in AlarmedAreas(snap, ev)
                                   THEN [@[a] EXCEPT !.triggered = TRUE] ELSE @[a]]]

EventEffect(snap, ev) ==
  [zones |-> MovedZones(snap, ev), areas |-> AlarmedAreas(snap, ev),
   refresh_areas |-> ev.code \in AREA_REFRESH_CODES,
   refresh_alerts |-> ev.code \notin {"ZO", "ZC"}]
=============================================================================
