----------------------------- MODULE AreaCommand -----------------------------
(***************************************************************************)
(* Area mode commands from MQTT (src/src/bridge.rs: area_command,          *)
(* all_areas_command, all_areas_plan, command, reread).                    *)
(*                                                                         *)
(* The bridge handles one command at a time, but awaits the panel several  *)
(* times on the way: the command itself, the re-read that tells what a     *)
(* failed all-areas command changed, one command per area to roll back,    *)
(* and a final re-read.  Meanwhile people use the keypads, and any of the  *)
(* exchanges may be refused, lost or time out, with its request still on   *)
(* the way to the panel.  Exchanges are abstracted from CommandChannel:    *)
(* one at a time, in order, an answer only for the request it belongs to.  *)
(*                                                                         *)
(* The panel is outside the repository.  It does what the code expects: it *)
(* handles requests in order, and one that it rejects may have changed     *)
(* some of the areas it addresses.  MQTT is taken to be up.                *)
(***************************************************************************)
EXTENDS Naturals, Sequences, FiniteSets

CONSTANTS
  Areas,         \* area ids of the panel, not 0
  Modes,         \* ArmMode, "unset" among them
  None,          \* a mode the bridge does not recognise (Option::None)
  MaxCommands,   \* bound on commands from MQTT (model only)
  MaxKeypad,     \* bound on mode changes at the keypads (model only)
  MaxWire        \* bound on requests on their way to the panel (model only)

ALL_AREAS_TARGET == 0

ASSUME AreaAssumption ==
  /\ Areas \subseteq Nat \ {ALL_AREAS_TARGET} /\ IsFiniteSet(Areas)
  /\ "unset" \in Modes
  /\ None \notin Modes
  /\ MaxCommands \in Nat /\ MaxKeypad \in Nat /\ MaxWire \in Nat

VARIABLES
  panel,      \* the panel's mode of each area
  wire,       \* requests on their way to the panel
  answer,     \* the panel's answer to the exchange in progress
  link,       \* "none", "connected" (`loaded' is None) or "loaded"
  snap,       \* the modes in the snapshot; its domain is the areas it has
  pc,         \* what the bridge awaits
  cmd,        \* the command being handled
  plan,       \* areas an all-areas command is meant to change, with their modes
  undo,       \* the part of the plan still to be rolled back
  published,  \* retained mode topic of each area
  common,     \* retained mode topic of all areas
  unanswered, \* mode topics commanded and not published since
  start,      \* the panel's modes when the plan was made
  undoing,    \* the last all-areas command failed and called for a rollback
  touched,    \* the plan was not the panel's state, or a keypad was used since
  failed,     \* a re-read or rollback command of that command failed
  stirred,    \* what was published of all areas may be out of date (see below)
  commands, keypad  \* counters for the model's bounds

panelVars == <<panel, wire, answer>>
viewVars  == <<published, common, unanswered>>
planVars  == <<plan, start>>
ghostVars == <<undoing, touched, failed>>
vars == <<panelVars, link, snap, pc, cmd, planVars, undo, viewVars, ghostVars,
          stirred, commands, keypad>>

AnyMode == Modes \cup {None}
Targets == {ALL_AREAS_TARGET} \cup Areas
Causes  == {"one", "all", "undo", "read"}
Request == [cause : Causes, mode : AnyMode, target : Targets, live : BOOLEAN]
Command == [kind : {"one", "all"}, target : Targets, mode : Modes]

NoAreas   == [a \in {} |-> None]
NoAnswer  == [is |-> "none", modes |-> NoAreas]
NoCommand == [kind |-> "none", target |-> ALL_AREAS_TARGET, mode |-> None]

Init ==
  /\ panel \in [Areas -> Modes]
  /\ wire = <<>>
  /\ answer = NoAnswer
  /\ link = "none"
  /\ snap = NoAreas
  /\ pc = "idle"
  /\ cmd = NoCommand
  /\ plan = {}
  /\ undo = {}
  /\ published = [a \in Areas |-> None]
  /\ common = None
  /\ unanswered = {}
  /\ start = NoAreas
  /\ undoing = FALSE
  /\ touched = FALSE
  /\ failed = FALSE
  /\ stirred = TRUE
  /\ commands = 0
  /\ keypad = 0

-----------------------------------------------------------------------------
(* The panel and the people at its keypads.                                *)

Addressed(r) == IF r.target = ALL_AREAS_TARGET THEN Areas ELSE {r.target}

\* The panel answers a read, accepts a command, or rejects one, having changed
\* some areas anyway if it addressed all of them.
PanelHandles ==
  LET r == Head(wire)
      SetAreas(A) ==
        panel' = [a \in Areas |-> IF a \in A THEN r.mode ELSE panel[a]]
      Answer(is) == answer' = IF r.live THEN [is |-> is, modes |-> panel] ELSE answer
  IN  /\ wire # <<>>
      /\ wire' = Tail(wire)
      /\ \/ /\ r.cause = "read"
            /\ Answer("modes")
            /\ UNCHANGED panel
         \/ /\ r.cause # "read"
            /\ SetAreas(Addressed(r))
            /\ Answer("ok")
         \/ /\ r.cause # "read"
            /\ \E A \in SUBSET Addressed(r) :
                 (r.target = ALL_AREAS_TARGET \/ A = {}) /\ SetAreas(A)
            /\ Answer("rejected")
      /\ UNCHANGED <<link, snap, pc, cmd, planVars, undo, viewVars, ghostVars,
                     stirred, commands, keypad>>

\* A request is lost, or the panel does not react to it.
PanelIgnores ==
  /\ wire # <<>>
  /\ wire' = Tail(wire)
  /\ UNCHANGED <<panel, answer, link, snap, pc, cmd, planVars, undo,
                 viewVars, ghostVars, stirred, commands, keypad>>

\* Somebody changes an area's mode at a keypad.
Keypad(a, m) ==
  /\ keypad < MaxKeypad
  /\ keypad' = keypad + 1
  /\ panel[a] # m
  /\ panel' = [panel EXCEPT ![a] = m]
  /\ touched' = (cmd.kind = "all")
  /\ stirred' = TRUE
  /\ UNCHANGED <<wire, answer, link, snap, pc, cmd, planVars, undo,
                 viewVars, undoing, failed, commands>>

-----------------------------------------------------------------------------
(* Exchanges with the panel, and what is published.                        *)

\* Requests whose answer nobody awaits any more: the last one was awaited until
\* now.  A command may still take effect, a read has none.
Dead(w) ==
  LET Abandon(r) == [r EXCEPT !.live = FALSE]
  IN  IF w # <<>> /\ w[Len(w)].cause = "read"
        THEN SubSeq(w, 1, Len(w) - 1)
        ELSE [i \in DOMAIN w |-> Abandon(w[i])]

\* The bridge sends its next request and awaits the answer to that one.
Exchange(next, cause, m, t) ==
  /\ pc' = next
  /\ wire' = Append(Dead(wire), [cause |-> cause, mode |-> m, target |-> t, live |-> TRUE])
  /\ answer' = NoAnswer

Read(next) == Exchange(next, "read", None, ALL_AREAS_TARGET)

\* The handler returns.
Finish ==
  /\ pc' = "idle"
  /\ wire' = Dead(wire)
  /\ answer' = NoAnswer
  /\ cmd' = NoCommand
  /\ plan' = {} /\ undo' = {} /\ start' = NoAreas
  /\ undoing' = FALSE /\ touched' = FALSE /\ failed' = FALSE

\* Rejected; or timed out or lost, which may happen at any time.
CommandFails == answer.is \in {"none", "rejected"}
ReadFails    == answer.is = "none"

\* Snapshot::common_mode.
CommonMode(s) ==
  IF DOMAIN s # {} /\ \E m \in Modes : \A a \in DOMAIN s : s[a] = m
    THEN CHOOSE m \in Modes : \A a \in DOMAIN s : s[a] = m
    ELSE None

\* Mutant: the topic of all areas is not published with the others.
PublishAreasOnly(A, s) ==
  /\ published' = [a \in Areas |-> IF a \in A \cap DOMAIN s THEN s[a] ELSE published[a]]
  /\ unanswered' = unanswered \ ((A \cap DOMAIN s) \cup {ALL_AREAS_TARGET})
  /\ UNCHANGED common

\* publish_area for the ids in A, and publish_all_areas_mode.
Publish(A, s) ==
  /\ published' = [a \in Areas |-> IF a \in A \cap DOMAIN s THEN s[a] ELSE published[a]]
  /\ common' = CommonMode(s)
  /\ unanswered' = unanswered \ ((A \cap DOMAIN s) \cup {ALL_AREAS_TARGET})

-----------------------------------------------------------------------------
(* One area: area_command with AreaTarget::One.                            *)

TakeCommand ==
  /\ pc = "idle"
  /\ commands < MaxCommands
  /\ commands' = commands + 1

\* Without a link command() drops the request, and reread and publish do nothing.
\* Area 0 is in no config, but may be commanded; the panel takes it for all.
StartOne(id, m) ==
  /\ TakeCommand
  /\ link # "none"
  /\ cmd' = [kind |-> "one", target |-> id, mode |-> m]
  /\ Exchange("one", "one", m, id)
  /\ unanswered' = unanswered \cup ({id} \cap DOMAIN snap)
  /\ stirred' = (stirred \/ id \notin Areas)
  /\ UNCHANGED <<panel, link, snap, planVars, undo, published, common,
                 ghostVars, keypad>>

\* Whatever became of the command, the areas are read again, if there is a
\* snapshot to put them in.
EndOne ==
  /\ pc = "one"
  /\ answer.is = "ok" \/ CommandFails
  /\ \/ link = "loaded" /\ Read("reread") /\ UNCHANGED <<cmd, planVars, undo, ghostVars>>
     \/ link # "loaded" /\ Finish
  /\ UNCHANGED <<panel, link, snap, viewVars, stirred, commands, keypad>>

-----------------------------------------------------------------------------
(* All areas: all_areas_command.                                           *)

\* all_areas_plan: the areas that are not in the mode yet, with the modes they
\* are in.
Plan(s, m) == {<<a, s[a]>> : a \in {b \in DOMAIN s : s[b] # m}}

\* Mutant: an area in an unrecognised mode does not stop the command.
UnplannableNever(s, m) == FALSE
\* An area in an unrecognised mode could not be rolled back.
Unplannable(s, m) == \E p \in Plan(s, m) : p[2] = None

StartAll(m) ==
  /\ TakeCommand
  /\ link = "loaded"
  /\ cmd' = [kind |-> "all", target |-> ALL_AREAS_TARGET, mode |-> m]
  /\ unanswered' = unanswered \cup {ALL_AREAS_TARGET}
  /\ touched' = (snap # panel \/ \E i \in DOMAIN wire : wire[i].cause # "read")
  /\ start' = panel
  /\ \/ /\ Plan(snap, m) = {} \/ Unplannable(snap, m)
        /\ plan' = {}
        /\ Read("reread")
     \/ /\ Plan(snap, m) # {} /\ ~Unplannable(snap, m)
        /\ plan' = Plan(snap, m)
        /\ Exchange("all", "all", m, ALL_AREAS_TARGET)
  /\ UNCHANGED <<panel, link, snap, undo, undoing, failed, stirred, published,
                 common, keypad>>

\* Mutant: a failed unset is rolled back too.
RollsBackAlways(m) == TRUE
RollsBack(m) == m # "unset"

\* A failed command other than unset calls for a re-read to see what it did.
EndAll ==
  /\ pc = "all"
  /\ \/ /\ answer.is = "ok"
        /\ Read("reread")
        /\ UNCHANGED undoing
     \/ /\ CommandFails
        /\ Read(IF RollsBack(cmd.mode) THEN "check" ELSE "reread")
        /\ undoing' = RollsBack(cmd.mode)
  /\ UNCHANGED <<panel, link, snap, cmd, planVars, undo, viewVars,
                 touched, failed, stirred, commands, keypad>>

\* The next rollback command, or the final re-read when none is left.
RollBack(U) ==
  \/ U = {} /\ Read("reread") /\ undo' = {}
  \/ \E p \in U : Exchange("undo", "undo", p[2], p[1]) /\ undo' = U \ {p}

\* Mutant: the rollback goes by the snapshot of before the re-read.
ChangedAreasStale(s) == {p \in plan : p[1] \in DOMAIN snap /\ snap[p[1]] # p[2]}
ChangedAreas(s) == {p \in plan : p[1] \in DOMAIN s /\ s[p[1]] # p[2]}

\* The areas that are not in their planned mode any more are rolled back, by the
\* snapshot of before the command if the re-read fails.
EndCheck ==
  /\ pc = "check"
  /\ \/ answer.is = "modes" /\ snap' = answer.modes /\ UNCHANGED failed
     \/ ReadFails /\ failed' = TRUE /\ UNCHANGED snap
  /\ RollBack(ChangedAreas(snap'))
  /\ UNCHANGED <<panel, link, cmd, planVars, viewVars, undoing, touched,
                 stirred, commands, keypad>>

\* A rollback command that fails is reported, and the next one sent.
EndUndo ==
  /\ pc = "undo"
  /\ \/ answer.is = "ok" /\ UNCHANGED failed
     \/ CommandFails /\ failed' = TRUE
  /\ RollBack(undo)
  /\ UNCHANGED <<panel, link, snap, cmd, planVars, viewVars, undoing,
                 touched, stirred, commands, keypad>>

\* Mutant: the commanded areas are not published.
IdsNone == {}
\* Mutant: of all areas only those are published that a re-read found changed.
IdsChanged == IF cmd.kind = "one" THEN {cmd.target} ELSE {p[1] : p \in ChangedAreas(snap)}
Ids == IF cmd.kind = "one" THEN {cmd.target} ELSE {p[1] : p \in plan}

\* The last re-read, and the publication of what was commanded.
EndReread ==
  /\ pc = "reread"
  /\ \/ answer.is = "modes" /\ snap' = answer.modes /\ UNCHANGED stirred
     \/ ReadFails /\ UNCHANGED snap /\ stirred' = TRUE
  /\ Publish(Ids, snap')
  /\ Finish
  /\ UNCHANGED <<panel, link, commands, keypad>>

-----------------------------------------------------------------------------
(* The link and refresh.                                                   *)

\* A session is ready: it becomes the link, with nothing loaded, and the first
\* refresh starts.
LinkReady ==
  /\ pc = "idle"
  /\ Len(wire) < MaxWire
  /\ link' = "connected"
  /\ snap' = NoAreas
  /\ stirred' = TRUE
  /\ Read("refresh")
  /\ UNCHANGED <<panel, cmd, planVars, undo, viewVars, ghostVars,
                 commands, keypad>>

\* The session has closed.
LinkLost ==
  /\ pc = "idle"
  /\ link # "none"
  /\ link' = "none"
  /\ snap' = NoAreas
  /\ UNCHANGED <<panelVars, pc, cmd, planVars, undo, viewVars, ghostVars, stirred,
                 commands, keypad>>

\* The refresh timer.
Refresh ==
  /\ pc = "idle"
  /\ link # "none"
  /\ Len(wire) < MaxWire
  /\ Read("refresh")
  /\ UNCHANGED <<panel, link, snap, cmd, planVars, undo, viewVars,
                 ghostVars, stirred, commands, keypad>>

\* A re-read that is followed by the publication of all areas: up to date
\* unless the panel has changed since it answered.
PublishRead ==
  /\ answer.is = "modes"
  /\ snap' = answer.modes
  /\ Publish(Areas, snap')
  /\ stirred' = (answer.modes # panel)
  /\ Finish

\* All queries succeed.
RefreshSucceeds ==
  /\ pc = "refresh"
  /\ PublishRead
  /\ link' = "loaded"
  /\ UNCHANGED <<panel, commands, keypad>>

\* The status reply, the last one, cannot be used: the areas have been applied
\* by then, but nothing is published.
RefreshBadStatus ==
  /\ pc = "refresh"
  /\ answer.is = "modes"
  /\ link' = "loaded"
  /\ snap' = answer.modes
  /\ Finish
  /\ UNCHANGED <<panel, viewVars, stirred, commands, keypad>>

\* A query fails: in a first refresh possibly after the panel information has
\* been read, which makes an empty snapshot.
RefreshFails ==
  /\ pc = "refresh"
  /\ link' \in {link, "loaded"}
  /\ Finish
  /\ UNCHANGED <<panel, snap, viewVars, stirred, commands, keypad>>

\* The areas that an event says are in alarm: one or none.
Alarmed == {{}} \cup {{a} : a \in DOMAIN snap}

\* A panel event that does not concern the modes; the area in alarm and all
\* areas are published.
Event ==
  /\ pc = "idle"
  /\ link = "loaded"
  /\ \E A \in Alarmed : Publish(A, snap)
  /\ UNCHANGED <<panelVars, link, snap, pc, cmd, planVars, undo, ghostVars, stirred,
                 commands, keypad>>

\* One that calls for a re-read of the areas.
EventReads ==
  /\ pc = "idle"
  /\ link = "loaded"
  /\ Len(wire) < MaxWire
  /\ Read("event")
  /\ UNCHANGED <<panel, link, snap, cmd, planVars, undo, viewVars,
                 ghostVars, stirred, commands, keypad>>

EndEvent ==
  /\ pc = "event"
  /\ \/ PublishRead
     \/ /\ ReadFails
        /\ \E A \in Alarmed : Publish(A, snap)
        /\ Finish
        /\ UNCHANGED <<snap, stirred>>
  /\ UNCHANGED <<panel, link, commands, keypad>>

-----------------------------------------------------------------------------
Handlers ==
  \/ EndOne \/ EndAll \/ EndCheck \/ EndUndo \/ EndReread
  \/ RefreshSucceeds \/ RefreshBadStatus \/ RefreshFails \/ EndEvent

Next ==
  \/ PanelHandles \/ PanelIgnores
  \/ \E a \in Areas, m \in AnyMode : Keypad(a, m)
  \/ \E t \in Targets, m \in Modes : StartOne(t, m)
  \/ \E m \in Modes : StartAll(m)
  \/ Handlers
  \/ LinkReady \/ LinkLost \/ Refresh \/ Event \/ EventReads

Spec == Init /\ [][Next]_vars

\* Queries return (CommandChannel), the refresh timer fires again and again, and
\* a panel that stays connected answers some refresh sooner or later.
FairSpec ==
  /\ Spec
  /\ WF_vars(Handlers)
  /\ SF_vars(link = "none" /\ LinkReady)
  /\ SF_vars(Refresh)
  /\ SF_vars(PanelHandles)
  /\ SF_vars(RefreshSucceeds)

-----------------------------------------------------------------------------
TypeOK ==
  /\ panel \in [Areas -> AnyMode]
  /\ wire \in Seq(Request)
  /\ answer.is \in {"none", "ok", "rejected", "modes"}
  /\ answer.modes \in {NoAreas} \cup [Areas -> AnyMode]
  /\ link \in {"none", "connected", "loaded"}
  /\ snap \in {NoAreas} \cup [Areas -> AnyMode]
  /\ link # "loaded" => snap = NoAreas
  /\ pc \in {"idle", "one", "all", "check", "undo", "reread", "refresh", "event"}
  /\ cmd \in {NoCommand} \cup Command
  /\ plan \in SUBSET (Areas \X Modes)
  /\ undo \in SUBSET plan
  /\ published \in [Areas -> AnyMode]
  /\ common \in AnyMode
  /\ unanswered \in SUBSET Targets
  /\ start \in {NoAreas} \cup [Areas -> AnyMode]
  /\ {undoing, touched, failed, stirred} \subseteq BOOLEAN
  /\ commands \in 0..MaxCommands
  /\ keypad \in 0..MaxKeypad

\* Once the rollback is through (only the last re-read is left), a failed attempt
\* to set all areas has left every area as it was, whether the
\* panel rejected it half done, lost it, or answered too late, provided that the
\* snapshot was right, that nobody used a keypad, and that the re-read and the
\* rollback commands succeed (bridge.rs all_areas_command).
FailedSetIsUndone ==
  pc = "reread" /\ undoing /\ ~touched /\ ~failed => panel = start

\* While all areas are being unset the bridge never sends a request that would
\* set one, whatever fails (bridge.rs all_areas_command, "Unset is not rolled
\* back").
UnsetNeverRearms ==
  cmd.kind = "all" /\ cmd.mode = "unset" =>
    \A i \in DOMAIN wire : wire[i].live => wire[i].mode \in {"unset", None}

\* When a command has been handled, the topics it was sent for have been
\* published anew, accepted or not, so that no optimistic view survives
\* (bridge.rs command).
NoOptimisticView == pc = "idle" /\ link = "loaded" => unanswered = {}

\* Between handlers the mode topics of all areas and of each say how the panel is,
\* even if commands were rejected half done, timed out or took effect late: since
\* all areas were last published it suffices that no keypad was used, that the
\* re-reads after commands succeeded, that the session is the same and that area 0
\* was not commanded (bridge.rs area_command, all_areas_command, publish_area).
TopicsShowThePanel ==
  pc = "idle" /\ ~stirred => published = panel /\ common = CommonMode(panel)

-----------------------------------------------------------------------------
(* What the safety properties rest on.                                     *)

\* Only the last request on the way can be a read or be awaited, and it is no
\* longer on the way when it has been answered.
OneIsAwaited ==
  /\ \A i \in DOMAIN wire :
       wire[i].live \/ wire[i].cause = "read" => i = Len(wire)
  /\ answer.is # "none" => wire = <<>> /\ answer.modes \in [Areas -> AnyMode]

\* No command is being handled.
Unbound == pc \in {"idle", "refresh", "event"}

\* What a handler owes the topics, and which commands it serves, at each await.
HandlerKnows ==
  /\ Unbound => cmd = NoCommand /\ unanswered = {}
  /\ pc = "refresh" => link # "none"
  /\ pc = "event" => link = "loaded"
  /\ pc = "one" =>
       /\ cmd.kind = "one" /\ link # "none"
       /\ unanswered \subseteq {cmd.target} \cap DOMAIN snap
  /\ pc \in {"all", "check", "undo"} =>
       cmd.kind = "all" /\ link = "loaded" /\ unanswered \subseteq {ALL_AREAS_TARGET}
  /\ pc = "reread" =>
       /\ cmd.kind \in {"one", "all"} /\ link = "loaded"
       /\ unanswered \subseteq (Ids \cap DOMAIN snap) \cup {ALL_AREAS_TARGET}
  /\ IF pc \in {"check", "undo"}
       THEN undoing /\ RollsBack(cmd.mode)
       ELSE undoing => pc = "reread" /\ cmd.kind = "all"
  /\ failed => pc \in {"undo", "reread"}
  /\ undo # {} => pc = "undo"

\* Area a is as it was, or its rollback is still to come.
UndoneOr(a, B) == panel[a] = start[a] \/ <<a, start[a]>> \in undo \/ a \in B

\* Until it is known what a command for all areas did, it can only have set some
\* of the areas that the plan tells how to roll back.
PlanCovers ==
  pc \in {"all", "check"} /\ ~touched =>
    /\ start \in [Areas -> AnyMode] /\ snap = start
    /\ plan = Plan(start, cmd.mode)
    /\ \A a \in Areas : panel[a] \in {start[a], cmd.mode}
    /\ \A i \in DOMAIN wire : wire[i].cause # "read" => wire[i].mode = cmd.mode
    /\ pc = "check" /\ answer.is = "modes" => answer.modes = panel

\* From then on one rollback command at a time is on its way, and nothing else.
UndoProgresses ==
  /\ pc = "undo" /\ ~touched /\ ~failed =>
       /\ start \in [Areas -> AnyMode]
       /\ undo \subseteq {<<a, start[a]>> : a \in Areas}
       /\ \A i \in DOMAIN wire :
            /\ wire[i].live /\ wire[i].cause = "undo"
            /\ wire[i].target \in Areas /\ wire[i].mode = start[wire[i].target]
       /\ wire # <<>> => \A a \in Areas : UndoneOr(a, {wire[1].target})
       /\ answer.is = "ok" => \A a \in Areas : UndoneOr(a, {})
  /\ pc = "reread" /\ undoing /\ ~touched /\ ~failed =>
       panel = start /\ \A i \in DOMAIN wire : wire[i].cause = "read"

\* The areas that are going to be published once they have been re-read.
Due == IF Unbound THEN {} ELSE Ids

\* The others are as published, and no command that is still on its way will
\* change them.
OthersAreShown ==
  ~stirred =>
    /\ link # "connected"
    /\ \A a \in Areas \ Due : published[a] = panel[a]
    /\ \A i \in DOMAIN wire :
         wire[i].cause # "read" => \A a \in Addressed(wire[i]) \ Due : wire[i].mode = panel[a]
    /\ answer.is = "modes" => answer.modes = panel
    /\ Unbound => common = CommonMode(panel) /\ (link = "loaded" => snap = panel)

\* The inductive invariant behind the safety properties: exchanges are one at a
\* time, each await has its obligations, and the plan of an all-areas command says
\* how to take back whatever the command has done so far (bridge.rs command,
\* area_command, all_areas_command).
AreaInv ==
  /\ TypeOK
  /\ OneIsAwaited
  /\ HandlerKnows
  /\ PlanCovers
  /\ UndoProgresses
  /\ OthersAreShown
  /\ UnsetNeverRearms

\* Once there are no new sessions, and the keypads and commands are at rest, every
\* mode topic comes to show the panel's mode (bridge.rs refresh).
TopicsConverge ==
  <>[][~LinkReady]_vars => <>[](published = panel /\ common = CommonMode(panel))
=============================================================================
