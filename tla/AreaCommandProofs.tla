--------------------------- MODULE AreaCommandProofs ---------------------------
(***************************************************************************)
(* AreaInv is an invariant of AreaCommand, and its safety properties       *)
(* follow from it, for any areas, modes and bounds.                        *)
(*                                                                         *)
(* The panel works off requests in order, so the answer to a re-read comes *)
(* when nothing else is on the way: it shows what the failed command did   *)
(* and that no late effect is to come.  Each area that is not as it was is *)
(* then in the plan, is either still to be rolled back or the target of    *)
(* the one rollback on its way, and an accepted one puts it back.          *)
(***************************************************************************)
EXTENDS AreaCommand, SequenceTheorems, TLAPS

-----------------------------------------------------------------------------
(* What steps do to the wire.                                              *)

\* Requests that nobody awaits stay in order, without the read.
LEMMA DeadIs ==
  ASSUME TypeOK, OneIsAwaited
  PROVE  /\ Dead(wire) \in Seq(Request)
         /\ Len(Dead(wire)) \in Nat /\ Len(Dead(wire)) <= Len(wire)
         /\ \A i \in 1..Len(Dead(wire)) :
              /\ i \in DOMAIN wire
              /\ ~Dead(wire)[i].live /\ Dead(wire)[i].cause # "read"
              /\ Dead(wire)[i].cause = wire[i].cause
              /\ Dead(wire)[i].mode = wire[i].mode
              /\ Dead(wire)[i].target = wire[i].target
<1>1. /\ wire \in Seq(Request) /\ Len(wire) \in Nat /\ DOMAIN wire = 1..Len(wire)
      /\ \A i \in DOMAIN wire : wire[i] \in Request
      /\ \A i \in DOMAIN wire : wire[i].live \/ wire[i].cause = "read" => i = Len(wire)
  BY DEF TypeOK, OneIsAwaited
<1>2. CASE wire # <<>> /\ wire[Len(wire)].cause = "read"
  <2> DEFINE n == Len(wire) - 1
  <2>1. n \in Nat /\ n <= Len(wire) /\ n < Len(wire) /\ Dead(wire) = SubSeq(wire, 1, n)
    BY <1>1, <1>2 DEF Dead
  <2> HIDE DEF n
  <2>2. /\ SubSeq(wire, 1, n) \in Seq(Request)
        /\ Len(SubSeq(wire, 1, n)) = n
        /\ \A i \in 1..n : SubSeq(wire, 1, n)[i] = wire[i]
    BY <1>1, <2>1
  <2>3. ASSUME NEW i \in 1..n
        PROVE  i \in DOMAIN wire /\ ~wire[i].live /\ wire[i].cause # "read"
    BY <1>1, <2>1
  <2> QED
    BY <2>1, <2>2, <2>3
<1>3. CASE ~(wire # <<>> /\ wire[Len(wire)].cause = "read")
  <2> DEFINE d == [i \in DOMAIN wire |-> [wire[i] EXCEPT !.live = FALSE]]
  <2>1. Dead(wire) = d
    BY <1>3 DEF Dead
  <2>2. ASSUME NEW i \in DOMAIN wire
        PROVE  /\ d[i] \in Request /\ d[i].live = FALSE /\ d[i].cause = wire[i].cause
               /\ d[i].mode = wire[i].mode /\ d[i].target = wire[i].target
    BY <1>1 DEF Request
  <2>3. d \in [1..Len(wire) -> Request]
    BY <1>1, <2>2
  <2>4. d \in Seq(Request) /\ Len(d) = Len(wire)
    BY <1>1, <2>3, SeqDef
  <2>5. ASSUME NEW i \in DOMAIN wire PROVE wire[i].cause # "read"
    BY <1>1, <1>3, <2>5
  <2> HIDE DEF d
  <2>6. ASSUME NEW i \in 1..Len(d)
        PROVE  /\ i \in DOMAIN wire /\ ~d[i].live /\ d[i].cause # "read"
               /\ d[i].cause = wire[i].cause /\ d[i].mode = wire[i].mode
               /\ d[i].target = wire[i].target
    <3>1. i \in DOMAIN wire
      BY <1>1, <2>4
    <3> QED
      BY <2>2, <2>5, <3>1
  <2>7. Len(d) \in Nat /\ Len(d) <= Len(wire)
    BY <1>1, <2>4
  <2> QED
    BY <2>1, <2>4, <2>6, <2>7
<1> QED
  BY <1>2, <1>3

\* A request sent is the last on the way, and the one awaited.
LEMMA ExchangeIs ==
  ASSUME TypeOK, OneIsAwaited, NEW p, NEW c \in Causes, NEW m \in AnyMode,
         NEW t \in Targets, Exchange(p, c, m, t)
  PROVE  /\ pc' = p /\ answer' = NoAnswer
         /\ wire' \in Seq(Request)
         /\ Len(wire') = Len(Dead(wire)) + 1
         /\ \A i \in 1..Len(Dead(wire)) : wire'[i] = Dead(wire)[i]
         /\ LET r == wire'[Len(wire')]
            IN  r.cause = c /\ r.mode = m /\ r.target = t /\ r.live
<1> DEFINE r == [cause |-> c, mode |-> m, target |-> t, live |-> TRUE]
<1>1. r \in Request /\ r.cause = c /\ r.mode = m /\ r.target = t /\ r.live
  BY DEF Request
<1>2. wire' = Append(Dead(wire), r) /\ pc' = p /\ answer' = NoAnswer
  BY DEF Exchange
<1> HIDE DEF r
<1>3. Dead(wire) \in Seq(Request)
  BY DeadIs
<1> QED
  BY <1>1, <1>2, <1>3, AppendProperties

\* A request leaves the wire at its front.
LEMMA TailIs ==
  ASSUME TypeOK, wire # <<>>
  PROVE  /\ Len(wire) \in Nat \ {0} /\ 1 \in DOMAIN wire
         /\ Head(wire) = wire[1] /\ wire[1] \in Request
         /\ Tail(wire) \in Seq(Request) /\ Len(Tail(wire)) = Len(wire) - 1
         /\ \A i \in 1..Len(Tail(wire)) :
              i + 1 \in DOMAIN wire /\ Tail(wire)[i] = wire[i + 1]
<1>1. wire \in Seq(Request)
  BY DEF TypeOK
<1> QED
  BY <1>1

\* What the panel does with the first request on the way.
LEMMA Handled ==
  ASSUME TypeOK, OneIsAwaited, PanelHandles
  PROVE  LET r == wire[1]
         IN  /\ wire # <<>> /\ wire' = Tail(wire)
             /\ panel' \in [Areas -> AnyMode]
             /\ \A a \in Areas :
                  \/ panel'[a] = panel[a]
                  \/ r.cause # "read" /\ a \in Addressed(r) /\ panel'[a] = r.mode
             /\ r.cause = "read" => panel' = panel
             /\ r.live => /\ wire' = <<>>
                          /\ answer'.is \in {"ok", "rejected", "modes"}
                          /\ answer'.modes = panel
             /\ ~r.live => answer' = answer
             /\ r.live /\ answer'.is = "ok" =>
                  r.cause # "read" /\ \A a \in Addressed(r) \cap Areas : panel'[a] = r.mode
             /\ r.live /\ answer'.is = "modes" => panel' = panel
             /\ UNCHANGED <<link, snap, pc, cmd, planVars, undo, viewVars, ghostVars,
                            stirred, commands, keypad>>
<1> DEFINE r == wire[1]
           Set(A) == panel' = [a \in Areas |-> IF a \in A THEN r.mode ELSE panel[a]]
           Answer(is) == answer' = IF r.live THEN [is |-> is, modes |-> panel] ELSE answer
<1>1. wire # <<>> /\ wire' = Tail(wire) /\ Head(wire) = r /\ r \in Request
  BY TailIs DEF PanelHandles
<1>2. /\ \/ r.cause = "read" /\ Answer("modes") /\ panel' = panel
         \/ r.cause # "read" /\ Set(Addressed(r)) /\ Answer("ok")
         \/ /\ r.cause # "read" /\ Answer("rejected")
            /\ \E A \in SUBSET Addressed(r) : Set(A)
      /\ UNCHANGED <<link, snap, pc, cmd, planVars, undo, viewVars, ghostVars,
                     stirred, commands, keypad>>
  <2>1. Head(wire) = r
    BY <1>1
  <2>2. UNCHANGED <<link, snap, pc, cmd, planVars, undo, viewVars, ghostVars,
                    stirred, commands, keypad>>
    BY DEF PanelHandles
  <2>3. \/ r.cause = "read" /\ Answer("modes") /\ panel' = panel
        \/ r.cause # "read" /\ Set(Addressed(r)) /\ Answer("ok")
        \/ /\ r.cause # "read" /\ Answer("rejected")
           /\ \E A \in SUBSET Addressed(r) : Set(A)
    <3> HIDE DEF r
    <3> QED
      BY SMTT(30), <2>1 DEF PanelHandles
  <2> QED
    BY <2>2, <2>3
<1>3. panel \in [Areas -> AnyMode] /\ r.mode \in AnyMode /\ r.live \in BOOLEAN
  BY <1>1 DEF TypeOK, Request
<1>4. r.live => wire' = <<>>
  <2>1. ASSUME r.live PROVE Len(wire) = 1
    BY <1>1, <2>1, TailIs DEF OneIsAwaited
  <2>2. Len(wire) = 1 => Len(Tail(wire)) = 0
    BY <1>1, TailIs
  <2>3. Tail(wire) \in Seq(Request)
    BY <1>1, TailIs
  <2> QED
    BY <1>1, <2>1, <2>2, <2>3
<1> HIDE DEF r
<1>a. ASSUME NEW is \in {"ok", "rejected", "modes"}, Answer(is)
      PROVE  /\ r.live => /\ answer'.is \in {"ok", "rejected", "modes"}
                          /\ answer'.modes = panel /\ answer'.is = is
             /\ ~r.live => answer' = answer
  <2>1. CASE r.live
    <3>1. answer' = [is |-> is, modes |-> panel]
      BY <1>a, <2>1
    <3> QED
      BY <2>1, <3>1
  <2>2. CASE ~r.live
    BY <1>a, <2>2
  <2> QED
    BY <2>1, <2>2
<1> HIDE DEF Answer
<1>p. /\ panel' \in [Areas -> AnyMode]
      /\ \A a \in Areas :
           \/ panel'[a] = panel[a]
           \/ r.cause # "read" /\ a \in Addressed(r) /\ panel'[a] = r.mode
      /\ r.cause = "read" => panel' = panel
      /\ r.live => /\ answer'.is \in {"ok", "rejected", "modes"}
                   /\ answer'.modes = panel
      /\ ~r.live => answer' = answer
      /\ r.live /\ answer'.is = "ok" =>
           r.cause # "read" /\ \A a \in Addressed(r) \cap Areas : panel'[a] = r.mode
      /\ r.live /\ answer'.is = "modes" => panel' = panel
  <2>5. CASE r.cause = "read" /\ Answer("modes") /\ panel' = panel
    <3>a. /\ r.live => answer'.modes = panel /\ answer'.is = "modes"
          /\ ~r.live => answer' = answer
      BY <1>a, <2>5
    <3>b. \A a \in Areas : panel'[a] = panel[a]
      BY <2>5
    <3> QED
      BY <1>3, <2>5, <3>a, <3>b
  <2>6. CASE r.cause # "read" /\ Set(Addressed(r)) /\ Answer("ok")
    <3>a. /\ r.live => answer'.modes = panel /\ answer'.is = "ok"
          /\ ~r.live => answer' = answer
      BY <1>a, <2>6
    <3>1. panel' \in [Areas -> AnyMode]
      BY <1>3, <2>6
    <3>2. \A a \in Areas :
            \/ panel'[a] = panel[a]
            \/ a \in Addressed(r) /\ panel'[a] = r.mode
      BY <1>3, <2>6
    <3>3. \A a \in Addressed(r) \cap Areas : panel'[a] = r.mode
      BY <1>3, <2>6
    <3> QED
      BY <2>6, <3>a, <3>1, <3>2, <3>3
  <2>7. CASE /\ r.cause # "read" /\ Answer("rejected")
             /\ \E A \in SUBSET Addressed(r) : Set(A)
    <3>1. PICK A \in SUBSET Addressed(r) : Set(A)
      BY <2>7
    <3>2. panel' \in [Areas -> AnyMode]
      BY <1>3, <3>1
    <3>3. \A a \in Areas :
            \/ panel'[a] = panel[a]
            \/ a \in Addressed(r) /\ panel'[a] = r.mode
      BY <1>3, <3>1
    <3>a. /\ r.live => answer'.modes = panel /\ answer'.is = "rejected"
          /\ ~r.live => answer' = answer
      BY <1>a, <2>7
    <3> QED
      BY <2>7, <3>a, <3>2, <3>3
  <2> QED
    BY <1>2, <2>5, <2>6, <2>7
<1> QED
  BY <1>1, <1>2, <1>4, <1>p DEF r

\* A handler sends another request, or returns.
Sends(c) == \E p \in {"one", "all", "check", "undo", "reread", "refresh", "event"},
               m \in AnyMode, t \in Targets : Exchange(p, c, m, t)

\* The kinds of steps, by what they do to the wire.
LEMMA WireSteps ==
  ASSUME TypeOK, [Next]_vars
  PROVE  \/ PanelHandles
         \/ wire # <<>> /\ wire' = Tail(wire) /\ answer' = answer
         \/ wire' = wire /\ answer' = answer
         \/ \E c \in Causes : Sends(c)
         \/ wire' = Dead(wire) /\ answer' = NoAnswer
<1>1. ASSUME NEW p \in {"one", "all", "check", "undo", "reread", "refresh", "event"},
             NEW c \in Causes, NEW m \in AnyMode, NEW t \in Targets,
             Exchange(p, c, m, t)
      PROVE  \E d \in Causes : Sends(d)
  BY <1>1 DEF Sends
<1>2. ASSUME NEW p \in {"one", "all", "check", "undo", "reread", "refresh", "event"}, Read(p)
      PROVE  \E d \in Causes : Sends(d)
  BY <1>1, <1>2 DEF Read, Causes, AnyMode, Targets
<1>3. ASSUME NEW U \in SUBSET plan, RollBack(U) PROVE \E d \in Causes : Sends(d)
  <2>1. CASE Read("reread")
    BY <1>2, <2>1
  <2>2. ASSUME NEW q \in U, Exchange("undo", "undo", q[2], q[1])
        PROVE  \E d \in Causes : Sends(d)
    <3>1. q[2] \in AnyMode /\ q[1] \in Targets
      BY DEF TypeOK, AnyMode, Targets
    <3> QED
      BY <1>1, <2>2, <3>1 DEF Causes
  <2> QED
    BY <1>3, <2>1, <2>2 DEF RollBack
<1>4. CASE PanelIgnores \/ \E a \in Areas, m \in AnyMode : Keypad(a, m)
  BY <1>4 DEF PanelIgnores, Keypad
<1>5. ASSUME NEW t \in Targets, NEW m \in Modes, StartOne(t, m)
      PROVE  \E d \in Causes : Sends(d)
  BY <1>1, <1>5 DEF StartOne, Causes, AnyMode
<1>6. ASSUME NEW m \in Modes, StartAll(m) PROVE \E d \in Causes : Sends(d)
  BY <1>1, <1>2, <1>6 DEF StartAll, Causes, AnyMode, Targets
<1>7. CASE EndOne
  BY <1>2, <1>7 DEF EndOne, Finish
<1>8. CASE EndAll
  BY <1>2, <1>8 DEF EndAll
<1>9. CASE EndCheck
  <2>1. ChangedAreas(snap') \subseteq plan
    BY DEF ChangedAreas
  <2> QED
    BY <1>3, <1>9, <2>1 DEF EndCheck
<1>10. CASE EndUndo
  BY <1>3, <1>10 DEF EndUndo, TypeOK
<1>11. CASE EndReread \/ RefreshSucceeds \/ RefreshBadStatus \/ RefreshFails \/ EndEvent
  BY <1>11 DEF EndReread, RefreshSucceeds, RefreshBadStatus, RefreshFails, EndEvent,
     PublishRead, Finish
<1>12. CASE LinkReady \/ Refresh \/ EventReads
  BY <1>2, <1>12 DEF LinkReady, Refresh, EventReads
<1>13. CASE LinkLost \/ Event \/ UNCHANGED vars
  BY <1>13 DEF LinkLost, Event, panelVars, vars
<1> QED
  BY <1>4, <1>5, <1>6, <1>7, <1>8, <1>9, <1>10, <1>11, <1>12, <1>13 DEF Next, Handlers

-----------------------------------------------------------------------------
(* The parts of the invariant.                                             *)

\* A panel in any state, and a bridge that has just started.
LEMMA InitArea == Init => AreaInv
<1> SUFFICES ASSUME Init PROVE AreaInv
  OBVIOUS
<1>1. /\ wire = <<>> /\ answer = NoAnswer /\ pc = "idle" /\ cmd = NoCommand
      /\ link = "none" /\ undoing = FALSE /\ failed = FALSE /\ unanswered = {}
  BY DEF Init
<1>2. answer.is = "none" /\ cmd.kind = "none" /\ wire \in Seq(Request)
  BY <1>1 DEF NoAnswer, NoCommand
<1>3. TypeOK
  <2>1. panel \in [Areas -> AnyMode] /\ published \in [Areas -> AnyMode]
    BY DEF Init, AnyMode
  <2>2. answer.modes = NoAreas
    BY <1>1 DEF NoAnswer
  <2>3. /\ link \in {"none", "connected", "loaded"} /\ snap = NoAreas
        /\ cmd = NoCommand /\ pc = "idle" /\ plan = {} /\ undo = {}
        /\ common \in AnyMode /\ start = NoAreas
        /\ {undoing, touched, failed, stirred} \subseteq BOOLEAN
    BY DEF Init, AnyMode
  <2>4. commands \in 0..MaxCommands /\ keypad \in 0..MaxKeypad
    BY AreaAssumption DEF Init
  <2> QED
    BY <1>1, <1>2, <2>1, <2>2, <2>3, <2>4 DEF TypeOK
<1>4. OneIsAwaited
  BY <1>1, <1>2 DEF OneIsAwaited
<1>5. HandlerKnows
  <2>1. undo = {}
    BY DEF Init
  <2> QED
    BY <1>1, <2>1 DEF HandlerKnows
<1>6. PlanCovers /\ UndoProgresses /\ UnsetNeverRearms
  BY <1>1, <1>2 DEF PlanCovers, UndoProgresses, UnsetNeverRearms
<1>7. OthersAreShown
  BY DEF Init, OthersAreShown
<1> QED
  BY <1>3, <1>4, <1>5, <1>6, <1>7 DEF AreaInv

\* One request at a time is awaited (bridge.rs command, reread).
LEMMA AwaitStep == AreaInv /\ [Next]_vars => OneIsAwaited' /\ wire' \in Seq(Request)
<1> SUFFICES ASSUME AreaInv, [Next]_vars
             PROVE  OneIsAwaited' /\ wire' \in Seq(Request)
  OBVIOUS
<1>0. TypeOK /\ OneIsAwaited
  BY DEF AreaInv
<1>t. /\ wire \in Seq(Request) /\ Len(wire) \in Nat /\ DOMAIN wire = 1..Len(wire)
      /\ panel \in [Areas -> AnyMode]
  BY <1>0 DEF TypeOK
<1>o. /\ \A i \in DOMAIN wire :
           wire[i].live \/ wire[i].cause = "read" => i = Len(wire)
      /\ answer.is # "none" => wire = <<>> /\ answer.modes \in [Areas -> AnyMode]
  BY <1>0 DEF OneIsAwaited
<1>n. NoAnswer.is = "none"
  BY DEF NoAnswer
\* The first request leaves.
<1>1. ASSUME wire # <<>>, wire' = Tail(wire)
      PROVE  /\ wire' \in Seq(Request)
             /\ \A i \in DOMAIN wire' :
                  wire'[i].live \/ wire'[i].cause = "read" => i = Len(wire')
  <2>1. /\ wire' \in Seq(Request) /\ Len(wire') = Len(wire) - 1
        /\ \A i \in 1..Len(wire') : i + 1 \in DOMAIN wire /\ wire'[i] = wire[i + 1]
    BY <1>0, <1>1, TailIs
  <2>2. ASSUME NEW i \in 1..Len(wire'), wire'[i].live \/ wire'[i].cause = "read"
        PROVE  i = Len(wire')
    <3> DEFINE k == i + 1
    <3>1. k \in DOMAIN wire /\ wire'[i] = wire[k]
      BY <2>1
    <3>2. k = Len(wire) => i = Len(wire')
      <4>1. i \in Nat /\ Len(wire) \in Nat
        BY <1>t
      <4>2. Len(wire') = Len(wire) - 1
        BY <2>1
      <4> QED
        BY <4>1, <4>2
    <3> HIDE DEF k
    <3> QED
      BY <1>o, <2>2, <3>1, <3>2
  <2> QED
    BY <2>1, <2>2
<1>2. CASE PanelHandles
  <2>1. /\ wire # <<>> /\ wire' = Tail(wire)
        /\ wire[1].live => wire' = <<>> /\ answer'.modes = panel
        /\ ~wire[1].live => answer' = answer
    BY <1>0, <1>2, Handled
  <2>2. answer'.is # "none" => wire' = <<>> /\ answer'.modes \in [Areas -> AnyMode]
    <3>1. CASE wire[1].live
      BY <1>t, <2>1, <3>1
    <3>2. CASE ~wire[1].live
      BY <1>o, <2>1, <3>2
    <3> QED
      BY <3>1, <3>2
  <2> QED
    BY <1>1, <2>1, <2>2 DEF OneIsAwaited
<1>3. CASE wire # <<>> /\ wire' = Tail(wire) /\ answer' = answer
  BY <1>1, <1>3, <1>o DEF OneIsAwaited
<1>4. CASE wire' = wire /\ answer' = answer
  BY <1>4, <1>t, <1>o DEF OneIsAwaited
<1>5. ASSUME NEW c \in Causes, Sends(c) PROVE OneIsAwaited' /\ wire' \in Seq(Request)
  <2>1. PICK p \in {"one", "all", "check", "undo", "reread", "refresh", "event"},
             m \in AnyMode, t \in Targets : Exchange(p, c, m, t)
    BY <1>5 DEF Sends
  <2>2. /\ answer' = NoAnswer /\ wire' \in Seq(Request)
        /\ Len(wire') = Len(Dead(wire)) + 1
        /\ \A i \in 1..Len(Dead(wire)) : wire'[i] = Dead(wire)[i]
    BY <1>0, <2>1, ExchangeIs
  <2>3. ASSUME NEW i \in DOMAIN wire', i # Len(wire')
        PROVE  ~wire'[i].live /\ wire'[i].cause # "read"
    <3>1. i \in 1..Len(Dead(wire))
      BY <1>0, <2>2, <2>3, DeadIs
    <3> QED
      BY <1>0, <2>2, <3>1, DeadIs
  <2> QED
    BY <1>n, <2>2, <2>3 DEF OneIsAwaited
<1>6. CASE wire' = Dead(wire) /\ answer' = NoAnswer
  <2>1. /\ wire' \in Seq(Request)
        /\ \A i \in 1..Len(wire') : ~wire'[i].live /\ wire'[i].cause # "read"
    BY <1>0, <1>6, DeadIs
  <2> QED
    BY <1>6, <1>n, <2>1 DEF OneIsAwaited
<1> QED
  BY <1>0, <1>2, <1>3, <1>4, <1>5, <1>6, WireSteps

\* Type correctness of the handlers' state (bridge.rs, panel.rs).
LEMMA AreaTypeStep == AreaInv /\ [Next]_vars => TypeOK'
<1> SUFFICES ASSUME AreaInv, [Next]_vars PROVE TypeOK'
  OBVIOUS
<1>0. TypeOK /\ OneIsAwaited /\ HandlerKnows
  BY DEF AreaInv
<1>w. wire' \in Seq(Request) /\ OneIsAwaited'
  BY AwaitStep
<1>t. /\ panel \in [Areas -> AnyMode]
      /\ answer.is \in {"none", "ok", "rejected", "modes"}
      /\ answer.modes \in {NoAreas} \cup [Areas -> AnyMode]
      /\ link \in {"none", "connected", "loaded"}
      /\ snap \in {NoAreas} \cup [Areas -> AnyMode]
      /\ link # "loaded" => snap = NoAreas
      /\ pc \in {"idle", "one", "all", "check", "undo", "reread", "refresh", "event"}
      /\ cmd \in {NoCommand} \cup Command
      /\ plan \in SUBSET (Areas \X Modes)
      /\ undo \in SUBSET plan
      /\ published \in [Areas -> AnyMode]
      /\ common \in AnyMode
      /\ unanswered \in SUBSET Targets
      /\ start \in {NoAreas} \cup [Areas -> AnyMode]
      /\ undoing \in BOOLEAN /\ touched \in BOOLEAN /\ failed \in BOOLEAN
      /\ stirred \in BOOLEAN
      /\ commands \in 0..MaxCommands /\ keypad \in 0..MaxKeypad
  BY <1>0 DEF TypeOK
<1>k. pc = "event" => link = "loaded"
  BY <1>0 DEF HandlerKnows
<1>n. NoAnswer.is = "none" /\ NoAnswer.modes = NoAreas
  BY DEF NoAnswer
<1>m. None \in AnyMode /\ Modes \subseteq AnyMode
  BY DEF AnyMode
\* Modes read from the panel, and modes published.
<1>a. answer.is = "modes" => answer.modes \in [Areas -> AnyMode]
  BY <1>0 DEF OneIsAwaited
<1>c. ASSUME NEW s PROVE CommonMode(s) \in AnyMode
  <2>1. CASE DOMAIN s # {} /\ \E m \in Modes : \A a \in DOMAIN s : s[a] = m
    BY <1>m, <2>1 DEF CommonMode
  <2>2. CASE ~(DOMAIN s # {} /\ \E m \in Modes : \A a \in DOMAIN s : s[a] = m)
    BY <1>m, <2>2 DEF CommonMode
  <2> QED
    BY <2>1, <2>2
<1>p. ASSUME NEW A, NEW s, s \in {NoAreas} \cup [Areas -> AnyMode], Publish(A, s)
      PROVE  /\ published' \in [Areas -> AnyMode] /\ common' \in AnyMode
             /\ unanswered' \in SUBSET Targets
  <2>1. common' \in AnyMode
    BY <1>p, <1>c DEF Publish
  <2>2. unanswered' \in SUBSET Targets
    BY <1>p, <1>t DEF Publish
  <2>3. ASSUME NEW a \in Areas, a \in DOMAIN s PROVE s[a] \in AnyMode
    BY <1>p, <2>3 DEF NoAreas
  <2>4. published' \in [Areas -> AnyMode]
    BY <1>p, <1>t, <2>3 DEF Publish
  <2> QED
    BY <2>1, <2>2, <2>4
<1>f. ASSUME Finish
      PROVE  /\ pc' = "idle" /\ answer'.is = "none" /\ answer'.modes = NoAreas
             /\ cmd' = NoCommand /\ plan' = {} /\ undo' = {} /\ start' = NoAreas
             /\ undoing' = FALSE /\ touched' = FALSE /\ failed' = FALSE
  BY <1>f, <1>n DEF Finish
<1>r. ASSUME NEW p, Read(p) PROVE pc' = p /\ answer'.is = "none" /\ answer'.modes = NoAreas
  BY <1>r, <1>n DEF Read, Exchange
<1>b. ASSUME NEW U \in SUBSET plan, RollBack(U)
      PROVE  /\ pc' \in {"undo", "reread"} /\ undo' \in SUBSET plan
             /\ answer'.is = "none" /\ answer'.modes = NoAreas
  <2>1. CASE Read("reread") /\ undo' = {}
    BY <1>r, <2>1
  <2>2. CASE \E q \in U : Exchange("undo", "undo", q[2], q[1]) /\ undo' = U \ {q}
    BY <1>n, <2>2 DEF Exchange
  <2> QED
    BY <1>b, <2>1, <2>2 DEF RollBack
<1>1. CASE PanelHandles
  <2>1. /\ panel' \in [Areas -> AnyMode]
        /\ wire[1].live => /\ answer'.is \in {"ok", "rejected", "modes"}
                           /\ answer'.modes = panel
        /\ ~wire[1].live => answer' = answer
        /\ UNCHANGED <<link, snap, pc, cmd, planVars, undo, viewVars, ghostVars,
                       stirred, commands, keypad>>
    BY <1>0, <1>1, Handled
  <2>2. /\ answer'.is \in {"none", "ok", "rejected", "modes"}
        /\ answer'.modes \in {NoAreas} \cup [Areas -> AnyMode]
    BY <1>t, <2>1
  <2> QED
    BY <1>t, <1>w, <2>1, <2>2 DEF TypeOK, planVars, viewVars, ghostVars
<1>2. CASE PanelIgnores
  BY <1>t, <1>w, <1>2 DEF PanelIgnores, TypeOK, planVars, viewVars, ghostVars
<1>3. ASSUME NEW a \in Areas, NEW m \in AnyMode, Keypad(a, m) PROVE TypeOK'
  <2>1. panel' \in [Areas -> AnyMode] /\ touched' \in BOOLEAN /\ keypad' \in 0..MaxKeypad
        /\ stirred' \in BOOLEAN
    BY <1>t, <1>3, AreaAssumption DEF Keypad
  <2>2. UNCHANGED <<wire, answer, link, snap, pc, cmd, plan, start, undo, published,
                    common, unanswered, undoing, failed, commands>>
    BY <1>3 DEF Keypad, planVars, viewVars
  <2> QED
    BY <1>t, <1>w, <2>1, <2>2 DEF TypeOK
<1>4. ASSUME NEW id \in Targets, NEW m \in Modes, StartOne(id, m) PROVE TypeOK'
  <2>1. /\ cmd' \in Command /\ pc' = "one" /\ answer' = NoAnswer
        /\ commands' \in 0..MaxCommands
    BY <1>t, <1>4, AreaAssumption DEF StartOne, TakeCommand, Command, Exchange
  <2>2. unanswered' \in SUBSET Targets /\ stirred' \in BOOLEAN
    BY <1>t, <1>4 DEF StartOne
  <2>3. UNCHANGED <<panel, link, snap, plan, start, undo, published, common, undoing,
                    touched, failed, keypad>>
    BY <1>4 DEF StartOne, planVars, ghostVars
  <2> QED
    BY <1>t, <1>n, <1>w, <2>1, <2>2, <2>3 DEF TypeOK
<1>5. ASSUME NEW m \in Modes, StartAll(m) PROVE TypeOK'
  <2>1. /\ cmd' \in Command /\ commands' \in 0..MaxCommands
        /\ unanswered' \in SUBSET Targets /\ touched' \in BOOLEAN
        /\ start' \in [Areas -> AnyMode]
    BY <1>t, <1>5, AreaAssumption DEF StartAll, TakeCommand, Command, Targets
  <2>2. UNCHANGED <<panel, link, snap, undo, published, common, undoing, failed, stirred,
                    keypad>>
    BY <1>5 DEF StartAll
  <2>3. undo = {}
    BY <1>0, <1>5 DEF StartAll, TakeCommand, HandlerKnows
  <2>4. /\ pc' \in {"all", "reread"} /\ answer'.is = "none" /\ answer'.modes = NoAreas
        /\ plan' \in SUBSET (Areas \X Modes)
    <3>1. CASE plan' = {} /\ Read("reread")
      BY <1>r, <3>1
    <3>2. CASE /\ ~Unplannable(snap, m) /\ plan' = Plan(snap, m)
               /\ Exchange("all", "all", m, ALL_AREAS_TARGET)
      <4>1. ASSUME NEW a \in DOMAIN snap, snap[a] # m
            PROVE  a \in Areas /\ snap[a] \in Modes
        <5>1. <<a, snap[a]>> \in Plan(snap, m)
          BY <4>1 DEF Plan
        <5>2. snap[a] # None
          BY <3>2, <5>1 DEF Unplannable
        <5> QED
          BY <1>t, <5>2 DEF NoAreas, AnyMode
      <4>2. Plan(snap, m) \subseteq Areas \X Modes
        BY <4>1 DEF Plan
      <4> QED
        BY <1>n, <3>2, <4>2 DEF Exchange
    <3> QED
      BY <1>5, <3>1, <3>2 DEF StartAll
  <2> QED
    BY <1>t, <1>w, <2>1, <2>2, <2>3, <2>4 DEF TypeOK
<1>6. CASE EndOne
  <2>1. CASE Finish
    BY <1>f, <1>t, <1>w, <1>6, <2>1 DEF EndOne, TypeOK, viewVars
  <2>2. CASE Read("reread") /\ UNCHANGED <<cmd, planVars, undo, ghostVars>>
    BY <1>r, <1>t, <1>w, <1>6, <2>2 DEF EndOne, TypeOK, viewVars, planVars, ghostVars
  <2> QED
    BY <1>6, <2>1, <2>2 DEF EndOne
<1>7. CASE EndAll
  <2>1. /\ \/ Read("reread")
           \/ Read(IF RollsBack(cmd.mode) THEN "check" ELSE "reread")
        /\ undoing' = undoing \/ undoing' = RollsBack(cmd.mode)
    BY <1>7 DEF EndAll
  <2>2. pc' \in {"check", "reread"} /\ answer'.is = "none" /\ answer'.modes = NoAreas
    BY <1>r, <2>1
  <2>3. undoing' \in BOOLEAN
    BY <1>t, <2>1 DEF RollsBack
  <2> QED
    BY <1>t, <1>w, <1>7, <2>2, <2>3 DEF EndAll, TypeOK, planVars, viewVars
<1>8. CASE EndCheck
  <2>1. /\ failed' = TRUE \/ failed' = failed
        /\ snap' = snap \/ snap' \in [Areas -> AnyMode]
        /\ RollBack(ChangedAreas(snap'))
        /\ UNCHANGED <<panel, link, cmd, plan, start, viewVars, undoing, touched,
                       stirred, commands, keypad>>
        /\ pc = "check"
    BY <1>a, <1>8 DEF EndCheck, planVars
  <2>2. ChangedAreas(snap') \in SUBSET plan
    BY DEF ChangedAreas
  <2>3. link = "loaded"
    BY <1>0, <2>1 DEF HandlerKnows
  <2>4. /\ pc' \in {"undo", "reread"} /\ undo' \in SUBSET plan
        /\ answer'.is = "none" /\ answer'.modes = NoAreas
    BY <1>b, <2>1, <2>2
  <2> QED
    BY <1>t, <1>w, <2>1, <2>3, <2>4 DEF TypeOK, viewVars
<1>9. CASE EndUndo
  <2>1. /\ failed' = TRUE \/ failed' = failed
        /\ RollBack(undo)
        /\ UNCHANGED <<panel, link, snap, cmd, plan, start, viewVars, undoing, touched,
                       stirred, commands, keypad>>
    BY <1>9 DEF EndUndo, planVars
  <2>2. /\ pc' \in {"undo", "reread"} /\ undo' \in SUBSET plan
        /\ answer'.is = "none" /\ answer'.modes = NoAreas
    BY <1>b, <1>t, <2>1
  <2> QED
    BY <1>t, <1>w, <2>1, <2>2 DEF TypeOK, viewVars
<1>10. CASE EndReread
  <2>1. /\ snap' = snap \/ snap' \in [Areas -> AnyMode]
        /\ Publish(Ids, snap') /\ Finish
        /\ UNCHANGED <<panel, link, commands, keypad>> /\ pc = "reread"
        /\ stirred' \in BOOLEAN
    BY <1>a, <1>t, <1>10 DEF EndReread
  <2>2. link = "loaded" /\ snap' \in {NoAreas} \cup [Areas -> AnyMode]
    BY <1>0, <1>t, <2>1 DEF HandlerKnows
  <2>3. /\ published' \in [Areas -> AnyMode] /\ common' \in AnyMode
        /\ unanswered' \in SUBSET Targets
    BY <1>p, <2>1, <2>2
  <2> QED
    BY <1>f, <1>t, <1>w, <2>1, <2>2, <2>3 DEF TypeOK
<1>11. CASE RefreshSucceeds \/ (EndEvent /\ PublishRead)
  <2>1. /\ snap' \in [Areas -> AnyMode] /\ link' = "loaded"
        /\ Publish(Areas, snap') /\ Finish /\ stirred' \in BOOLEAN
        /\ UNCHANGED <<panel, commands, keypad>>
    BY <1>a, <1>k, <1>11 DEF RefreshSucceeds, EndEvent, PublishRead
  <2>2. /\ published' \in [Areas -> AnyMode] /\ common' \in AnyMode
        /\ unanswered' \in SUBSET Targets
    BY <1>p, <2>1
  <2> QED
    BY <1>f, <1>t, <1>w, <2>1, <2>2 DEF TypeOK
<1>12. CASE RefreshFails
  BY <1>f, <1>t, <1>w, <1>12 DEF RefreshFails, TypeOK, viewVars
<1>16. CASE RefreshBadStatus
  BY <1>a, <1>f, <1>t, <1>w, <1>16 DEF RefreshBadStatus, TypeOK, viewVars
<1>17. CASE Event \/ (EndEvent /\ ~PublishRead)
  <2>1. PICK A : Publish(A, snap)
    BY <1>17 DEF Event, EndEvent
  <2>2. /\ published' \in [Areas -> AnyMode] /\ common' \in AnyMode
        /\ unanswered' \in SUBSET Targets
    BY <1>p, <1>t, <2>1
  <2>3. CASE Event
    BY <1>t, <1>w, <2>2, <2>3 DEF Event, TypeOK, panelVars, planVars, ghostVars
  <2>4. CASE EndEvent /\ ~PublishRead
    BY <1>f, <1>t, <1>w, <2>2, <2>4 DEF EndEvent, TypeOK
  <2> QED
    BY <1>17, <2>3, <2>4
<1>13. CASE LinkReady \/ Refresh \/ EventReads
  BY <1>r, <1>t, <1>w, <1>13
     DEF LinkReady, Refresh, EventReads, TypeOK, planVars, viewVars, ghostVars
<1>14. CASE LinkLost
  BY <1>t, <1>w, <1>14 DEF LinkLost, TypeOK, panelVars, planVars, viewVars, ghostVars
<1>15. CASE UNCHANGED vars
  BY <1>0, <1>15 DEF TypeOK, vars, panelVars, planVars, viewVars, ghostVars
<1> QED
  BY <1>1, <1>2, <1>3, <1>4, <1>5, <1>6, <1>7, <1>8, <1>9, <1>10, <1>11, <1>12, <1>13,
     <1>14, <1>15, <1>16, <1>17 DEF Next, Handlers

\* What a handler has still to do is known at each await (bridge.rs area_command,
\* all_areas_command, refresh).
LEMMA KnowsStep == AreaInv /\ [Next]_vars => HandlerKnows'
<1> SUFFICES ASSUME AreaInv, [Next]_vars PROVE HandlerKnows'
  OBVIOUS
<1>0. TypeOK /\ OneIsAwaited
  BY DEF AreaInv
<1>k. /\ Unbound => cmd = NoCommand /\ unanswered = {}
      /\ pc = "refresh" => link # "none"
      /\ pc = "event" => link = "loaded"
      /\ pc = "one" =>
           /\ cmd.kind = "one" /\ link # "none"
           /\ unanswered \subseteq {cmd.target} \cap DOMAIN snap
      /\ pc \in {"all", "check", "undo"} =>
           cmd.kind = "all" /\ link = "loaded" /\ unanswered \subseteq {ALL_AREAS_TARGET}
      /\ pc = "reread" =>
           /\ cmd.kind \in {"one", "all"} /\ link = "loaded"
           /\ unanswered \subseteq (Ids \cap DOMAIN snap) \cup {ALL_AREAS_TARGET}
      /\ IF pc \in {"check", "undo"}
           THEN undoing /\ RollsBack(cmd.mode)
           ELSE undoing => pc = "reread" /\ cmd.kind = "all"
      /\ failed => pc \in {"undo", "reread"}
      /\ undo # {} => pc = "undo"
  BY DEF AreaInv, HandlerKnows
<1>t. /\ link \in {"none", "connected", "loaded"}
      /\ snap \in {NoAreas} \cup [Areas -> AnyMode]
      /\ link # "loaded" => snap = NoAreas
      /\ undo \in SUBSET plan /\ unanswered \in SUBSET Targets
      /\ undoing \in BOOLEAN /\ failed \in BOOLEAN
  BY <1>0 DEF TypeOK
<1>n. DOMAIN NoAreas = {} /\ NoCommand.kind = "none" /\ DOMAIN snap \subseteq Areas
  BY <1>t DEF NoAreas, NoCommand
<1>m. answer.is = "modes" => answer.modes \in [Areas -> AnyMode]
  BY <1>0 DEF OneIsAwaited
<1>1. ASSUME UNCHANGED <<link, snap, pc, cmd, plan, undo, undoing, failed>>,
             unanswered' \subseteq unanswered
      PROVE  HandlerKnows'
  <2>1. Ids' = Ids
    BY <1>1 DEF Ids
  <2> QED
    BY <1>1, <1>k, <2>1 DEF HandlerKnows, Unbound
<1>f. ASSUME Finish
      PROVE  /\ pc' = "idle" /\ cmd' = NoCommand /\ undo' = {}
             /\ undoing' = FALSE /\ failed' = FALSE
  BY <1>f DEF Finish
<1>2. ASSUME Finish, unanswered' = {} PROVE HandlerKnows'
  BY <1>2, <1>f DEF HandlerKnows
<1>3. CASE PanelHandles
  <2>1. UNCHANGED <<link, snap, pc, cmd, planVars, undo, viewVars, ghostVars>>
    BY <1>0, <1>3, Handled
  <2> QED
    BY <1>1, <2>1 DEF planVars, viewVars, ghostVars
<1>4. CASE PanelIgnores \/ (\E a \in Areas, m \in AnyMode : Keypad(a, m)) \/ UNCHANGED vars
  BY <1>1, <1>4 DEF PanelIgnores, Keypad, planVars, viewVars, ghostVars, vars
<1>5. ASSUME NEW id \in Targets, NEW m \in Modes, StartOne(id, m) PROVE HandlerKnows'
  <2>1. /\ pc = "idle" /\ pc' = "one" /\ link # "none"
        /\ cmd' = [kind |-> "one", target |-> id, mode |-> m]
        /\ unanswered' = unanswered \cup ({id} \cap DOMAIN snap)
        /\ UNCHANGED <<link, snap, undo, undoing, failed>>
    BY <1>5 DEF StartOne, TakeCommand, Exchange, ghostVars
  <2>2. cmd'.kind = "one" /\ cmd'.target = id
    BY <2>1
  <2>3. unanswered' \subseteq {cmd'.target} \cap DOMAIN snap'
    BY <1>k, <2>1, <2>2 DEF Unbound
  <2>4. undoing' = FALSE /\ failed' = FALSE /\ undo' = {}
    BY <1>k, <1>t, <2>1
  <2> QED
    BY <2>1, <2>2, <2>3, <2>4 DEF HandlerKnows, Unbound
<1>6. ASSUME NEW m \in Modes, StartAll(m) PROVE HandlerKnows'
  <2>1. /\ pc = "idle" /\ pc' \in {"all", "reread"} /\ link = "loaded"
        /\ cmd' = [kind |-> "all", target |-> ALL_AREAS_TARGET, mode |-> m]
        /\ unanswered' = unanswered \cup {ALL_AREAS_TARGET}
        /\ UNCHANGED <<link, undo, undoing, failed>>
    BY <1>6 DEF StartAll, TakeCommand, Exchange, Read
  <2>2. cmd'.kind = "all" /\ unanswered' = {ALL_AREAS_TARGET}
    BY <1>k, <2>1 DEF Unbound
  <2>4. undoing' = FALSE /\ failed' = FALSE /\ undo' = {}
    BY <1>k, <1>t, <2>1
  <2> QED
    BY <2>1, <2>2, <2>4 DEF HandlerKnows, Unbound
<1>7. CASE EndOne
  <2>0. /\ pc = "one" /\ UNCHANGED <<link, snap, unanswered>>
    BY <1>7 DEF EndOne, viewVars
  <2>1. CASE link = "loaded" /\ Read("reread") /\ UNCHANGED <<cmd, planVars, undo, ghostVars>>
    <3>1. /\ pc' = "reread" /\ cmd'.kind = "one" /\ link' = "loaded"
          /\ unanswered' \subseteq {cmd'.target} \cap DOMAIN snap'
          /\ undoing' = FALSE /\ failed' = FALSE /\ undo' = {}
      BY <1>k, <1>t, <2>0, <2>1 DEF Read, Exchange, ghostVars
    <3>2. Ids' = {cmd'.target}
      BY <3>1 DEF Ids
    <3> QED
      BY <3>1, <3>2 DEF HandlerKnows, Unbound
  <2>2. CASE link # "loaded" /\ Finish
    <3>1. unanswered' = {}
      BY <1>k, <1>n, <1>t, <2>0, <2>2
    <3> QED
      BY <1>2, <2>0, <2>2, <3>1
  <2> QED
    BY <1>7, <2>1, <2>2 DEF EndOne
<1>8. CASE EndAll
  <2>0. /\ pc = "all" /\ UNCHANGED <<link, snap, cmd, undo, unanswered, failed>>
    BY <1>8 DEF EndAll, viewVars
  <2>1. /\ cmd'.kind = "all" /\ link' = "loaded"
        /\ unanswered' \subseteq {ALL_AREAS_TARGET}
        /\ failed' = FALSE /\ undo' = {} /\ undoing = FALSE
    BY <1>k, <1>t, <2>0
  <2>2. CASE Read("reread") /\ UNCHANGED undoing
    BY <2>1, <2>2 DEF HandlerKnows, Unbound, Read, Exchange
  <2>3. CASE /\ Read(IF RollsBack(cmd.mode) THEN "check" ELSE "reread")
             /\ undoing' = RollsBack(cmd.mode)
    <3>1. CASE RollsBack(cmd.mode)
      <4>1. pc' = "check" /\ undoing' /\ RollsBack(cmd'.mode)
        BY <2>0, <2>3, <3>1 DEF Read, Exchange
      <4> QED
        BY <2>1, <4>1 DEF HandlerKnows, Unbound
    <3>2. CASE ~RollsBack(cmd.mode)
      <4>1. pc' = "reread"
        BY <2>3, <3>2 DEF Read, Exchange
      <4> QED
        BY <2>1, <4>1 DEF HandlerKnows, Unbound
    <3> QED
      BY <3>1, <3>2
  <2> QED
    BY <1>8, <2>2, <2>3 DEF EndAll
<1>9. CASE EndCheck \/ EndUndo
  <2>1. /\ pc \in {"check", "undo"}
        /\ UNCHANGED <<link, cmd, unanswered, undoing>>
        /\ \E U : RollBack(U)
    BY <1>9 DEF EndCheck, EndUndo, viewVars
  <2>2. pc' = "undo" \/ (pc' = "reread" /\ undo' = {})
    BY <2>1 DEF RollBack, Read, Exchange
  <2>3. /\ cmd'.kind = "all" /\ link' = "loaded"
        /\ unanswered' \subseteq {ALL_AREAS_TARGET}
        /\ undoing' /\ RollsBack(cmd'.mode)
    BY <1>k, <2>1
  <2> QED
    BY <2>2, <2>3 DEF HandlerKnows, Unbound
<1>10. CASE EndReread
  <2>1. /\ pc = "reread" /\ Finish
        /\ snap' = snap \/ snap' \in [Areas -> AnyMode]
        /\ unanswered' = unanswered \ ((Ids \cap DOMAIN snap') \cup {ALL_AREAS_TARGET})
    BY <1>10, <1>m DEF EndReread, Publish
  <2>2. DOMAIN snap \subseteq DOMAIN snap'
    BY <1>n, <2>1
  <2>3. unanswered' = {}
    BY <1>k, <2>1, <2>2
  <2> QED
    BY <1>2, <2>1, <2>3
<1>11. CASE RefreshSucceeds \/ RefreshBadStatus \/ RefreshFails \/ EndEvent
  <2>1. Unbound /\ Finish /\ unanswered' \subseteq unanswered
    BY <1>11 DEF RefreshSucceeds, RefreshBadStatus, RefreshFails, EndEvent, PublishRead,
       Publish, Unbound, viewVars
  <2> QED
    BY <1>2, <1>k, <2>1
<1>12. CASE Event
  <2>1. /\ unanswered' \subseteq unanswered
        /\ UNCHANGED <<link, snap, pc, cmd, plan, undo, undoing, failed>>
    BY <1>12 DEF Event, Publish, planVars, ghostVars
  <2> QED
    BY <1>1, <2>1
<1>13. CASE LinkReady \/ Refresh \/ EventReads
  <2>1. /\ pc = "idle" /\ UNCHANGED <<cmd, undo, unanswered, undoing, failed>>
        /\ \/ pc' = "refresh" /\ link' # "none"
           \/ pc' = "event" /\ link' = "loaded"
    BY <1>13 DEF LinkReady, Refresh, EventReads, Read, Exchange, viewVars, ghostVars
  <2> QED
    BY <1>k, <2>1 DEF HandlerKnows, Unbound
<1>14. CASE LinkLost
  <2>1. /\ pc = "idle" /\ pc' = "idle" /\ link' = "none"
        /\ UNCHANGED <<cmd, undo, unanswered, undoing, failed>>
    BY <1>14 DEF LinkLost, viewVars, ghostVars
  <2> QED
    BY <1>k, <2>1 DEF HandlerKnows, Unbound
<1> QED
  BY <1>3, <1>4, <1>5, <1>6, <1>7, <1>8, <1>9, <1>10, <1>11, <1>12, <1>13, <1>14
     DEF Next, Handlers

\* Nothing sets an area while all are being unset (bridge.rs all_areas_command).
LEMMA UnsetStep == AreaInv /\ [Next]_vars => UnsetNeverRearms'
<1> SUFFICES ASSUME AreaInv, [Next]_vars, cmd'.kind = "all", cmd'.mode = "unset",
                    NEW i \in DOMAIN wire', wire'[i].live
             PROVE  wire'[i].mode \in {"unset", None}
  BY DEF UnsetNeverRearms
<1>0. TypeOK /\ OneIsAwaited /\ HandlerKnows /\ UnsetNeverRearms
  BY DEF AreaInv
<1>w. wire' \in Seq(Request)
  BY AwaitStep
<1>n. NoCommand.kind = "none"
  BY DEF NoCommand
<1>1. ASSUME cmd' = cmd, (wire # <<>> /\ wire' = Tail(wire)) \/ wire' = wire
      PROVE  wire'[i].mode \in {"unset", None}
  <2>1. CASE wire # <<>> /\ wire' = Tail(wire)
    <3> DEFINE k == i + 1
    <3>1. k \in DOMAIN wire /\ wire'[i] = wire[k]
      BY <1>0, <2>1, TailIs
    <3> HIDE DEF k
    <3> QED
      BY <1>0, <1>1, <3>1 DEF UnsetNeverRearms
  <2>2. CASE wire' = wire
    BY <1>0, <1>1, <2>2 DEF UnsetNeverRearms
  <2> QED
    BY <1>1, <2>1, <2>2
<1>2. ASSUME NEW p, NEW c \in Causes, NEW m \in {"unset", None}, NEW t \in Targets,
             Exchange(p, c, m, t)
      PROVE  wire'[i].mode \in {"unset", None}
  <2>0. m \in AnyMode
    BY AreaAssumption DEF AnyMode
  <2>1. /\ Len(wire') = Len(Dead(wire)) + 1
        /\ \A j \in 1..Len(Dead(wire)) : wire'[j] = Dead(wire)[j]
        /\ wire'[Len(wire')].mode = m
    BY <1>0, <1>2, <2>0, ExchangeIs
  <2>2. ASSUME i # Len(wire') PROVE FALSE
    <3>1. i \in 1..Len(Dead(wire))
      BY <1>0, <1>w, <2>1, <2>2, DeadIs
    <3> QED
      BY <1>0, <2>1, <3>1, DeadIs
  <2> QED
    BY <2>1, <2>2
<1>3. ASSUME NEW p, Read(p) PROVE wire'[i].mode \in {"unset", None}
  BY <1>2, <1>3 DEF Read, Causes, Targets
<1>4. CASE PanelHandles \/ PanelIgnores
  BY <1>0, <1>1, <1>4, Handled DEF PanelIgnores
<1>5. CASE \/ \E a \in Areas, m \in AnyMode : Keypad(a, m)
           \/ LinkLost \/ Event
           \/ UNCHANGED vars
  BY <1>1, <1>5 DEF Keypad, LinkLost, Event, vars, panelVars
<1>6. CASE \E id \in Targets, m \in Modes : StartOne(id, m)
  BY <1>6 DEF StartOne
<1>7. ASSUME NEW m \in Modes, StartAll(m) PROVE wire'[i].mode \in {"unset", None}
  <2>1. m = "unset"
    BY <1>7 DEF StartAll
  <2> QED
    BY <1>2, <1>3, <1>7, <2>1 DEF StartAll, Causes, Targets
<1>8. CASE EndOne
  BY <1>0, <1>n, <1>8 DEF EndOne, Finish, HandlerKnows
<1>9. CASE EndAll
  BY <1>3, <1>9 DEF EndAll
<1>10. CASE EndCheck \/ EndUndo
  BY <1>0, <1>10 DEF EndCheck, EndUndo, HandlerKnows, RollsBack
<1>11. CASE EndReread \/ RefreshSucceeds \/ RefreshBadStatus \/ RefreshFails \/ EndEvent
  BY <1>n, <1>11 DEF EndReread, RefreshSucceeds, RefreshBadStatus, RefreshFails, EndEvent,
     PublishRead, Finish
<1>12. CASE LinkReady \/ Refresh \/ EventReads
  BY <1>3, <1>12 DEF LinkReady, Refresh, EventReads
<1> QED
  BY <1>4, <1>5, <1>6, <1>7, <1>8, <1>9, <1>10, <1>11, <1>12 DEF Next, Handlers

\* A request sent when none is on the way is the only one.
LEMMA OnlyRequest ==
  ASSUME TypeOK, OneIsAwaited, wire = <<>>, NEW p, NEW c \in Causes, NEW m \in AnyMode,
         NEW t \in Targets, Exchange(p, c, m, t)
  PROVE  /\ pc' = p /\ answer'.is = "none" /\ Len(wire') = 1 /\ DOMAIN wire' = {1}
         /\ wire'[1].cause = c /\ wire'[1].mode = m /\ wire'[1].target = t
         /\ wire'[1].live
<1>1. Len(Dead(wire)) = 0
  BY DeadIs
<1>2. /\ pc' = p /\ answer' = NoAnswer /\ wire' \in Seq(Request)
      /\ Len(wire') = Len(Dead(wire)) + 1
      /\ wire'[Len(wire')].cause = c /\ wire'[Len(wire')].mode = m
      /\ wire'[Len(wire')].target = t /\ wire'[Len(wire')].live
  BY ExchangeIs
<1>3. Len(wire') = 1 /\ DOMAIN wire' = {1}
  BY <1>1, <1>2
<1> QED
  BY <1>2, <1>3 DEF NoAnswer

\* The plan covers what a command for all areas does, whenever it takes effect
\* (bridge.rs all_areas_command, all_areas_plan).
LEMMA PlanStep == AreaInv /\ [Next]_vars => PlanCovers'
<1> SUFFICES ASSUME AreaInv, [Next]_vars, pc' \in {"all", "check"}, ~touched'
             PROVE  /\ start' \in [Areas -> AnyMode] /\ snap' = start'
                    /\ plan' = Plan(start', cmd'.mode)
                    /\ \A a \in Areas : panel'[a] \in {start'[a], cmd'.mode}
                    /\ \A i \in DOMAIN wire' :
                         wire'[i].cause # "read" => wire'[i].mode = cmd'.mode
                    /\ pc' = "check" /\ answer'.is = "modes" => answer'.modes = panel'
  BY DEF PlanCovers
<1>0. TypeOK /\ OneIsAwaited /\ HandlerKnows
  BY DEF AreaInv
<1>w. wire' \in Seq(Request)
  BY AwaitStep
<1>p. ASSUME pc \in {"all", "check"}, ~touched
      PROVE  /\ start \in [Areas -> AnyMode] /\ snap = start
             /\ plan = Plan(start, cmd.mode)
             /\ \A a \in Areas : panel[a] \in {start[a], cmd.mode}
             /\ \A i \in DOMAIN wire :
                  wire[i].cause # "read" => wire[i].mode = cmd.mode
             /\ pc = "check" /\ answer.is = "modes" => answer.modes = panel
  BY <1>p DEF AreaInv, PlanCovers
<1>t. ASSUME wire # <<>>, wire' = Tail(wire), pc \in {"all", "check"}, ~touched
      PROVE  \A i \in DOMAIN wire' :
               wire'[i].cause # "read" => wire'[i].mode = cmd.mode
  <2>1. \A i \in DOMAIN wire' : i + 1 \in DOMAIN wire /\ wire'[i] = wire[i + 1]
    BY <1>0, <1>t, <1>w, TailIs
  <2> SUFFICES ASSUME NEW i \in DOMAIN wire', wire'[i].cause # "read"
               PROVE  wire'[i].mode = cmd.mode
    OBVIOUS
  <2> DEFINE k == i + 1
  <2>2. k \in DOMAIN wire /\ wire'[i] = wire[k]
    BY <2>1
  <2> HIDE DEF k
  <2> QED
    BY <1>p, <1>t, <2>2
<1> DEFINE Goal ==
             /\ start' \in [Areas -> AnyMode] /\ snap' = start'
             /\ plan' = Plan(start', cmd'.mode)
             /\ \A a \in Areas : panel'[a] \in {start'[a], cmd'.mode}
             /\ \A i \in DOMAIN wire' :
                  wire'[i].cause # "read" => wire'[i].mode = cmd'.mode
             /\ pc' = "check" /\ answer'.is = "modes" => answer'.modes = panel'
<1>1. ASSUME PanelHandles PROVE Goal
  <2>1. /\ wire # <<>> /\ wire' = Tail(wire)
        /\ \A a \in Areas :
             \/ panel'[a] = panel[a]
             \/ /\ wire[1].cause # "read" /\ a \in Addressed(wire[1])
                /\ panel'[a] = wire[1].mode
        /\ wire[1].live => answer'.modes = panel
        /\ ~wire[1].live => answer' = answer
        /\ wire[1].live /\ answer'.is = "modes" => panel' = panel
        /\ UNCHANGED <<snap, pc, cmd, planVars, ghostVars>>
    BY <1>0, <1>1, Handled
  <2>2. /\ pc \in {"all", "check"} /\ ~touched
        /\ UNCHANGED <<snap, pc, cmd, plan, start>>
    BY <2>1 DEF planVars, ghostVars
  <2>3. \A a \in Areas : panel'[a] \in {start[a], cmd.mode}
    <3>1. 1 \in DOMAIN wire
      BY <1>0, <2>1, TailIs
    <3> QED
      BY <1>p, <2>1, <2>2, <3>1
  <2>4. answer'.is = "modes" => answer'.modes = panel'
    <3>1. CASE wire[1].live
      BY <2>1, <3>1
    <3>2. CASE ~wire[1].live
      BY <1>0, <2>1, <3>2 DEF OneIsAwaited
    <3> QED
      BY <3>1, <3>2
  <2> QED
    BY <1>p, <1>t, <2>1, <2>2, <2>3, <2>4
<1>2. ASSUME PanelIgnores PROVE Goal
  <2>1. /\ wire # <<>> /\ wire' = Tail(wire)
        /\ UNCHANGED <<panel, answer, snap, pc, cmd, plan, start, touched>>
    BY <1>2 DEF PanelIgnores, planVars, ghostVars
  <2> QED
    BY <1>p, <1>t, <2>1
<1>3. ASSUME NEW a \in Areas, NEW m \in AnyMode, Keypad(a, m) PROVE FALSE
  <2>1. pc' = pc /\ touched' = (cmd.kind = "all")
    BY <1>3 DEF Keypad
  <2> QED
    BY <1>0, <2>1 DEF HandlerKnows
<1>4. ASSUME NEW m \in Modes, StartAll(m) PROVE Goal
  <2>1. /\ cmd' = [kind |-> "all", target |-> ALL_AREAS_TARGET, mode |-> m]
        /\ touched' = (snap # panel \/ \E i \in DOMAIN wire : wire[i].cause # "read")
        /\ start' = panel /\ UNCHANGED <<panel, snap>>
        /\ plan' = Plan(snap, m)
        /\ Exchange("all", "all", m, ALL_AREAS_TARGET)
    BY <1>4 DEF StartAll, Read, Exchange
  <2>2. snap = panel /\ \A i \in DOMAIN wire : wire[i].cause = "read"
    BY <2>1
  <2>3. cmd'.mode = m /\ panel \in [Areas -> AnyMode]
    BY <1>0, <2>1 DEF TypeOK
  <2>4. /\ answer' = NoAnswer /\ Len(wire') = Len(Dead(wire)) + 1
        /\ \A i \in 1..Len(Dead(wire)) : wire'[i] = Dead(wire)[i]
        /\ wire'[Len(wire')].mode = m
    BY <1>0, <2>1, ExchangeIs DEF Causes, AnyMode, Targets
  <2>5. ASSUME NEW i \in DOMAIN wire' PROVE wire'[i].mode = cmd'.mode
    <3>1. ASSUME i # Len(wire') PROVE FALSE
      <4>1. i \in 1..Len(Dead(wire))
        BY <1>0, <1>w, <2>4, <3>1, DeadIs
      <4>2. i \in DOMAIN wire /\ wire[i].cause # "read"
        BY <1>0, <4>1, DeadIs
      <4> QED
        BY <2>2, <4>2
    <3> QED
      BY <2>3, <2>4, <3>1
  <2> QED
    BY <2>1, <2>2, <2>3, <2>4, <2>5 DEF NoAnswer
<1>5. ASSUME EndAll PROVE Goal
  <2>1. /\ pc = "all" /\ Read(pc')
        /\ UNCHANGED <<panel, snap, cmd, plan, start, touched>>
    BY <1>5 DEF EndAll, planVars, Read, Exchange
  <2>2. /\ answer' = NoAnswer /\ Len(wire') = Len(Dead(wire)) + 1
        /\ \A i \in 1..Len(Dead(wire)) : wire'[i] = Dead(wire)[i]
        /\ wire'[Len(wire')].cause = "read"
    BY <1>0, <2>1, ExchangeIs DEF Read, Causes, AnyMode, Targets
  <2>3. ASSUME NEW i \in DOMAIN wire', wire'[i].cause # "read"
        PROVE  wire'[i].mode = cmd.mode
    <3>1. i \in 1..Len(Dead(wire))
      BY <1>0, <1>w, <2>2, <2>3, DeadIs
    <3>2. /\ i \in DOMAIN wire /\ wire[i].cause # "read"
          /\ wire'[i].mode = wire[i].mode
      BY <1>0, <2>2, <3>1, DeadIs
    <3> QED
      BY <1>p, <2>1, <3>2
  <2> QED
    BY <1>p, <2>1, <2>2, <2>3 DEF NoAnswer
<1>6. ASSUME UNCHANGED vars PROVE Goal
  BY <1>p, <1>6 DEF vars, panelVars, planVars, ghostVars
<1>7. ASSUME \/ \E t \in Targets, m \in Modes : StartOne(t, m)
             \/ EndOne \/ EndReread \/ RefreshSucceeds \/ RefreshBadStatus
             \/ RefreshFails \/ EndEvent
             \/ LinkReady \/ LinkLost \/ Refresh \/ Event \/ EventReads
      PROVE  FALSE
  BY <1>7 DEF StartOne, EndOne, EndReread, RefreshSucceeds, RefreshBadStatus, RefreshFails,
     EndEvent, PublishRead, LinkReady, LinkLost, Refresh, Event, EventReads, Finish, Read,
     Exchange
<1>8. ASSUME EndCheck \/ EndUndo PROVE FALSE
  BY <1>8 DEF EndCheck, EndUndo, RollBack, Read, Exchange
<1> QED
  BY <1>1, <1>2, <1>3, <1>4, <1>5, <1>6, <1>7, <1>8 DEF Next, Handlers

\* Every area that is not as it was has its rollback before it or on its way
\* (bridge.rs all_areas_command).
LEMMA UndoStep == AreaInv /\ [Next]_vars => UndoProgresses'
<1> SUFFICES ASSUME AreaInv, [Next]_vars PROVE UndoProgresses'
  OBVIOUS
<1>0. TypeOK /\ OneIsAwaited /\ HandlerKnows
  BY DEF AreaInv
<1>w. wire' \in Seq(Request)
  BY AwaitStep
<1>t. /\ panel \in [Areas -> AnyMode] /\ undo \in SUBSET plan
      /\ plan \in SUBSET (Areas \X Modes)
      /\ undoing \in BOOLEAN /\ touched \in BOOLEAN /\ failed \in BOOLEAN
  BY <1>0 DEF TypeOK
<1>o. /\ \A i \in DOMAIN wire :
           wire[i].live \/ wire[i].cause = "read" => i = Len(wire)
      /\ answer.is # "none" => wire = <<>>
  BY <1>0 DEF OneIsAwaited
<1>u. ASSUME pc = "undo", ~touched, ~failed
      PROVE  /\ start \in [Areas -> AnyMode]
             /\ undo \subseteq {<<a, start[a]>> : a \in Areas}
             /\ \A i \in DOMAIN wire :
                  /\ wire[i].live /\ wire[i].cause = "undo"
                  /\ wire[i].target \in Areas /\ wire[i].mode = start[wire[i].target]
             /\ wire # <<>> => \A a \in Areas : UndoneOr(a, {wire[1].target})
             /\ answer.is = "ok" => \A a \in Areas : UndoneOr(a, {})
  BY <1>u DEF AreaInv, UndoProgresses
<1>r. ASSUME pc = "reread", undoing, ~touched, ~failed
      PROVE  panel = start /\ \A i \in DOMAIN wire : wire[i].cause = "read"
  BY <1>r DEF AreaInv, UndoProgresses
<1>z. DOMAIN <<>> = {}
  OBVIOUS
\* The first request leaves: it was the only one.
<1>l. ASSUME pc = "undo" \/ (pc = "reread" /\ undoing), ~touched, ~failed,
             wire # <<>>, wire' = Tail(wire)
      PROVE  wire' = <<>>
  <2>1. 1 \in DOMAIN wire /\ Len(wire) \in Nat /\ Len(wire') = Len(wire) - 1
    BY <1>0, <1>l, TailIs
  <2>2. 1 = Len(wire)
    BY <1>o, <1>u, <1>r, <1>l, <2>1
  <2>3. Len(wire') = 0
    <3>1. Len(wire') = Len(wire) - 1
      BY <2>1
    <3> QED
      BY <2>2, <3>1
  <2> QED
    BY <1>w, <2>3
<1>1. ASSUME PanelHandles PROVE UndoProgresses'
  <2>1. /\ wire # <<>> /\ wire' = Tail(wire)
        /\ \A a \in Areas :
             \/ panel'[a] = panel[a]
             \/ /\ wire[1].cause # "read" /\ a \in Addressed(wire[1])
                /\ panel'[a] = wire[1].mode
        /\ wire[1].cause = "read" => panel' = panel
        /\ wire[1].live /\ answer'.is = "ok" =>
             \A a \in Addressed(wire[1]) \cap Areas : panel'[a] = wire[1].mode
        /\ UNCHANGED <<snap, pc, cmd, planVars, undo, ghostVars>>
    BY <1>0, <1>1, Handled
  <2>2. UNCHANGED <<snap, pc, cmd, plan, start, undo, undoing, touched, failed>>
    BY <2>1 DEF planVars, ghostVars
  <2>3. 1 \in DOMAIN wire
    BY <1>0, <2>1, TailIs
  <2>4. ASSUME pc = "undo", ~touched, ~failed
        PROVE  /\ wire' = <<>>
               /\ answer'.is = "ok" => \A a \in Areas : UndoneOr(a, {})'
    <3>1. wire' = <<>>
      BY <1>l, <2>1, <2>4
    <3> DEFINE b == wire[1].target
    <3>2. /\ wire[1].live /\ b \in Areas /\ wire[1].mode = start[b]
          /\ \A a \in Areas : UndoneOr(a, {b})
      BY <1>u, <2>1, <2>3, <2>4
    <3>3. Addressed(wire[1]) = {b}
      BY <3>2, AreaAssumption DEF Addressed
    <3> HIDE DEF b
    <3>4. ASSUME answer'.is = "ok", NEW a \in Areas PROVE UndoneOr(a, {})'
      <4>1. CASE a = b
        <5>1. panel'[b] = start'[b]
          BY <2>1, <2>2, <3>2, <3>3, <3>4
        <5> QED
          BY <4>1, <5>1 DEF UndoneOr
      <4>2. CASE a # b
        BY <2>1, <2>2, <3>2, <3>3, <4>2 DEF UndoneOr
      <4> QED
        BY <4>1, <4>2
    <3> QED
      BY <3>1, <3>4
  <2>5. ASSUME pc = "reread", undoing, ~touched, ~failed
        PROVE  panel' = start /\ wire' = <<>>
    BY <1>l, <1>r, <2>1, <2>3, <2>5
  <2> QED
    BY <1>u, <1>z, <2>2, <2>4, <2>5 DEF UndoProgresses
<1>2. ASSUME PanelIgnores PROVE UndoProgresses'
  <2>1. /\ wire # <<>> /\ wire' = Tail(wire)
        /\ UNCHANGED <<panel, answer, snap, pc, cmd, plan, start, undo, undoing, touched,
                       failed>>
    BY <1>2 DEF PanelIgnores, planVars, ghostVars
  <2>2. answer'.is = "none"
    BY <1>o, <2>1
  <2> QED
    BY <1>l, <1>u, <1>r, <1>z, <2>1, <2>2 DEF UndoProgresses
<1>3. ASSUME NEW a \in Areas, NEW m \in AnyMode, Keypad(a, m) PROVE UndoProgresses'
  <2>1. UNCHANGED <<pc, undoing>> /\ touched' = (cmd.kind = "all")
    BY <1>3 DEF Keypad
  <2>2. pc = "undo" \/ (pc = "reread" /\ undoing) => cmd.kind = "all"
    BY <1>0 DEF HandlerKnows
  <2> QED
    BY <2>1, <2>2 DEF UndoProgresses
\* The plan is known and the panel has just been read, or answered.
<1>4. ASSUME NEW U \in SUBSET {<<a, start[a]>> : a \in Areas}, RollBack(U),
             U \in SUBSET plan, start \in [Areas -> AnyMode], wire = <<>>,
             \A a \in Areas : panel[a] = start[a] \/ <<a, start[a]>> \in U,
             panel' = panel, start' = start
      PROVE  UndoProgresses'
  <2>1. CASE U = {} /\ Read("reread") /\ undo' = {}
    <3>1. panel' = start'
      BY <1>4, <1>t, <2>1
    <3>2. pc' = "reread" /\ DOMAIN wire' = {1} /\ wire'[1].cause = "read"
      BY <1>0, <1>4, <2>1, OnlyRequest DEF Read, Causes, AnyMode, Targets
    <3> QED
      BY <3>1, <3>2 DEF UndoProgresses
  <2>2. ASSUME NEW q \in U, Exchange("undo", "undo", q[2], q[1]), undo' = U \ {q}
        PROVE  UndoProgresses'
    <3>1. PICK b \in Areas : q = <<b, start[b]>>
      BY <1>4
    <3>2. q[1] = b /\ q[2] = start[b] /\ b \in Targets /\ start[b] \in AnyMode
      BY <1>4, <3>1 DEF Targets
    <3>3. /\ pc' = "undo" /\ answer'.is = "none" /\ DOMAIN wire' = {1}
          /\ wire'[1].cause = "undo" /\ wire'[1].mode = start[b]
          /\ wire'[1].target = b /\ wire'[1].live
      <4>1. Exchange("undo", "undo", start[b], b)
        BY <2>2, <3>2
      <4> QED
        BY <1>0, <1>4, <3>2, <4>1, OnlyRequest DEF Causes
    <3>4. ASSUME NEW a \in Areas PROVE UndoneOr(a, {wire[1].target})'
      <4>1. CASE a = b
        BY <3>3, <4>1 DEF UndoneOr
      <4>2. CASE a # b
        <5>1. <<a, start[a]>> # q
          BY <3>1, <4>2
        <5> QED
          BY <1>4, <2>2, <5>1 DEF UndoneOr
      <4> QED
        BY <4>1, <4>2
    <3>5. undo' \subseteq {<<a, start'[a]>> : a \in Areas}
      BY <1>4, <2>2
    <3> QED
      BY <1>4, <3>3, <3>4, <3>5 DEF UndoProgresses
  <2> QED
    BY <1>4, <2>1, <2>2 DEF RollBack
<1>5. ASSUME EndCheck PROVE UndoProgresses'
  <2>1. /\ pc = "check" /\ RollBack(ChangedAreas(snap'))
        /\ \/ answer.is = "modes" /\ snap' = answer.modes /\ UNCHANGED failed
           \/ failed' = TRUE
        /\ UNCHANGED <<panel, cmd, plan, start, undoing, touched>>
    BY <1>5 DEF EndCheck, planVars
  <2>2. CASE touched \/ failed'
    BY <2>1, <2>2 DEF UndoProgresses
  <2>3. CASE ~touched /\ ~failed'
    <3>1. /\ start \in [Areas -> AnyMode] /\ plan = Plan(start, cmd.mode)
          /\ \A a \in Areas : panel[a] \in {start[a], cmd.mode}
          /\ snap' = panel /\ wire = <<>>
      BY <1>o, <2>1, <2>3 DEF AreaInv, PlanCovers
    <3> DEFINE U == ChangedAreas(snap')
    <3>2. U \subseteq plan /\ U \subseteq {<<a, start[a]>> : a \in Areas}
      BY <3>1 DEF ChangedAreas, Plan
    <3>3. ASSUME NEW a \in Areas, panel[a] # start[a] PROVE <<a, start[a]>> \in U
      <4>1. panel[a] = cmd.mode /\ start[a] # cmd.mode
        BY <3>1, <3>3
      <4>2. <<a, start[a]>> \in plan
        BY <3>1, <4>1 DEF Plan
      <4> QED
        BY <1>t, <3>1, <3>3, <4>2 DEF ChangedAreas
    <3> HIDE DEF U
    <3>4. RollBack(U)
      BY <2>1 DEF U
    <3> QED
      BY <1>4, <2>1, <3>1, <3>2, <3>3, <3>4
  <2> QED
    BY <2>2, <2>3
<1>6. ASSUME EndUndo PROVE UndoProgresses'
  <2>1. /\ pc = "undo" /\ RollBack(undo)
        /\ \/ answer.is = "ok" /\ UNCHANGED failed
           \/ failed' = TRUE
        /\ UNCHANGED <<panel, cmd, plan, start, undoing, touched>>
    BY <1>6 DEF EndUndo, planVars
  <2>2. CASE touched \/ failed'
    BY <2>1, <2>2 DEF UndoProgresses
  <2>3. CASE ~touched /\ ~failed'
    <3>1. /\ start \in [Areas -> AnyMode]
          /\ undo \subseteq {<<a, start[a]>> : a \in Areas}
          /\ \A a \in Areas : UndoneOr(a, {}) /\ wire = <<>>
      BY <1>o, <1>u, <2>1, <2>3
    <3>2. \A a \in Areas : panel[a] = start[a] \/ <<a, start[a]>> \in undo
      BY <3>1 DEF UndoneOr
    <3>3. wire = <<>>
      BY <1>o, <2>1, <2>3
    <3> QED
      BY <1>4, <1>t, <2>1, <3>1, <3>2, <3>3
  <2> QED
    BY <2>2, <2>3
<1>7. ASSUME EndAll PROVE UndoProgresses'
  <2>1. /\ pc = "all"
        /\ \/ pc' = "reread" /\ undoing' = undoing
           \/ /\ pc' = IF RollsBack(cmd.mode) THEN "check" ELSE "reread"
              /\ undoing' = RollsBack(cmd.mode)
    BY <1>7 DEF EndAll, Read, Exchange
  <2>2. ~undoing
    BY <1>0, <2>1 DEF HandlerKnows
  <2>3. pc' # "undo" /\ (pc' = "reread" => ~undoing')
    <3>1. CASE pc' = "reread" /\ undoing' = undoing
      BY <2>2, <3>1
    <3>2. CASE /\ pc' = IF RollsBack(cmd.mode) THEN "check" ELSE "reread"
               /\ undoing' = RollsBack(cmd.mode)
      <4>1. CASE RollsBack(cmd.mode)
        BY <3>2, <4>1
      <4>2. CASE ~RollsBack(cmd.mode)
        BY <3>2, <4>2
      <4> QED
        BY <4>1, <4>2
    <3> QED
      BY <2>1, <3>1, <3>2
  <2> QED
    BY <2>3 DEF UndoProgresses
<1>8. ASSUME EndOne PROVE UndoProgresses'
  <2>1. /\ pc = "one" /\ pc' \in {"reread", "idle"}
        /\ undoing' = undoing \/ undoing' = FALSE
    BY <1>8 DEF EndOne, Read, Exchange, Finish, ghostVars
  <2>2. ~undoing
    BY <1>0, <2>1 DEF HandlerKnows
  <2> QED
    BY <2>1, <2>2 DEF UndoProgresses
<1>9. ASSUME NEW m \in Modes, StartAll(m) PROVE UndoProgresses'
  <2>1. pc = "idle" /\ pc' \in {"all", "reread"} /\ undoing' = undoing
    BY <1>9 DEF StartAll, TakeCommand, Read, Exchange
  <2>2. ~undoing
    BY <1>0, <2>1 DEF HandlerKnows
  <2> QED
    BY <2>1, <2>2 DEF UndoProgresses
<1>10. ASSUME \/ \E t \in Targets, m \in Modes : StartOne(t, m)
              \/ EndReread \/ RefreshSucceeds \/ RefreshBadStatus \/ RefreshFails
              \/ EndEvent \/ LinkReady \/ LinkLost \/ Refresh \/ Event \/ EventReads
       PROVE  UndoProgresses'
  <2>1. pc' \in {"one", "idle", "refresh", "event"}
    BY <1>10 DEF StartOne, EndReread, RefreshSucceeds, RefreshBadStatus, RefreshFails,
       EndEvent, PublishRead, LinkReady, LinkLost, Refresh, Event, EventReads, Finish, Read,
       Exchange
  <2> QED
    BY <2>1 DEF UndoProgresses
<1>11. ASSUME UNCHANGED vars PROVE UndoProgresses'
  BY <1>11, <1>u, <1>r
     DEF vars, panelVars, planVars, ghostVars, UndoProgresses, UndoneOr
<1> QED
  BY <1>1, <1>2, <1>3, <1>5, <1>6, <1>7, <1>8, <1>9, <1>10, <1>11 DEF Next, Handlers

\* What is not due to be published is as published, and stays so (bridge.rs
\* area_command, all_areas_command, publish_area).
LEMMA ShownStep == AreaInv /\ [Next]_vars => OthersAreShown'
<1> SUFFICES ASSUME AreaInv, [Next]_vars, ~stirred' PROVE OthersAreShown'
  BY DEF OthersAreShown
<1>0. TypeOK /\ OneIsAwaited /\ HandlerKnows
  BY DEF AreaInv
<1>w. wire' \in Seq(Request)
  BY AwaitStep
<1>t. /\ panel \in [Areas -> AnyMode] /\ published \in [Areas -> AnyMode]
      /\ wire \in Seq(Request) /\ plan \in SUBSET (Areas \X Modes)
      /\ undo \in SUBSET plan /\ link \in {"none", "connected", "loaded"}
  BY <1>0 DEF TypeOK
<1>o. answer.is # "none" => wire = <<>> /\ answer.modes \in [Areas -> AnyMode]
  BY <1>0 DEF OneIsAwaited
<1>n. NoAnswer.is = "none"
  BY DEF NoAnswer
<1>s. ASSUME ~stirred
      PROVE  /\ link # "connected"
             /\ \A a \in Areas \ Due : published[a] = panel[a]
             /\ \A i \in DOMAIN wire : wire[i].cause # "read" =>
                  \A a \in Addressed(wire[i]) \ Due : wire[i].mode = panel[a]
             /\ answer.is = "modes" => answer.modes = panel
             /\ Unbound => /\ common = CommonMode(panel)
                           /\ link = "loaded" => snap = panel
  BY <1>s DEF AreaInv, OthersAreShown
<1>d. /\ Unbound => Due = {}
      /\ ~Unbound => Due = Ids
  BY DEF Due
\* The requests that are left when a handler sends the next one or returns.
<1>a. ASSUME ~stirred, NEW i \in 1..Len(Dead(wire)), NEW a \in Addressed(Dead(wire)[i]) \ Due
      PROVE  Dead(wire)[i].mode = panel[a]
  <2>1. /\ i \in DOMAIN wire /\ wire[i].cause # "read"
        /\ Dead(wire)[i].mode = wire[i].mode /\ Addressed(Dead(wire)[i]) = Addressed(wire[i])
    BY <1>0, DeadIs DEF Addressed
  <2> QED
    BY <1>a, <1>s, <2>1
\* Another request is sent, which can only change what is due.
<1>e. ASSUME ~stirred, UNCHANGED <<panel, published, link>>, Due \subseteq Due',
             NEW p, NEW c \in Causes, NEW m \in AnyMode, NEW t \in Targets,
             Exchange(p, c, m, t),
             c # "read" => \A a \in (IF t = ALL_AREAS_TARGET THEN Areas ELSE {t}) \ Due' :
                             m = panel[a],
             Unbound' => Unbound /\ UNCHANGED <<common, snap>>
      PROVE  OthersAreShown'
  <2>1. /\ answer' = NoAnswer /\ Len(wire') = Len(Dead(wire)) + 1
        /\ \A i \in 1..Len(Dead(wire)) : wire'[i] = Dead(wire)[i]
        /\ wire'[Len(wire')].cause = c /\ wire'[Len(wire')].mode = m
        /\ wire'[Len(wire')].target = t
    BY <1>0, <1>e, ExchangeIs
  <2>2. ASSUME NEW i \in DOMAIN wire', wire'[i].cause # "read",
               NEW a \in Addressed(wire'[i]) \ Due'
        PROVE  wire'[i].mode = panel'[a]
    <3>1. CASE i = Len(wire')
      BY <1>e, <2>1, <2>2, <3>1 DEF Addressed
    <3>2. CASE i # Len(wire')
      <4>1. i \in 1..Len(Dead(wire))
        BY <1>0, <1>w, <2>1, <3>2, DeadIs
      <4> QED
        BY <1>a, <1>e, <2>1, <2>2, <4>1
    <3> QED
      BY <3>1, <3>2
  <2> QED
    BY <1>e, <1>n, <1>s, <2>1, <2>2 DEF OthersAreShown
\* A handler returns when all topics say how the panel is.
<1>f. ASSUME Finish, UNCHANGED panel, link' # "connected",
             \A i \in DOMAIN wire' : \A a \in Addressed(wire'[i]) : wire'[i].mode = panel[a],
             \A a \in Areas : published'[a] = panel[a], common' = CommonMode(panel),
             link' = "loaded" => snap' = panel
      PROVE  OthersAreShown'
  <2>1. answer' = NoAnswer /\ pc' = "idle"
    BY <1>f DEF Finish
  <2> QED
    BY <1>f, <1>n, <2>1 DEF OthersAreShown, Unbound, Due
<1>g. ASSUME wire = <<>>, Finish
      PROVE  \A i \in DOMAIN wire' : \A a \in Addressed(wire'[i]) : wire'[i].mode = panel[a]
  <2>1. wire' = Dead(wire) /\ Len(wire) = 0
    BY <1>g DEF Finish
  <2>2. DOMAIN wire' = {}
    BY <1>0, <2>1, DeadIs
  <2> QED
    BY <2>2
<1>1. CASE PanelHandles
  <2>1. /\ wire # <<>> /\ wire' = Tail(wire)
        /\ panel' \in [Areas -> AnyMode]
        /\ \A a \in Areas :
             \/ panel'[a] = panel[a]
             \/ /\ wire[1].cause # "read" /\ a \in Addressed(wire[1])
                /\ panel'[a] = wire[1].mode
        /\ wire[1].live => answer'.modes = panel
        /\ ~wire[1].live => answer' = answer
        /\ wire[1].live /\ answer'.is = "modes" => panel' = panel
        /\ UNCHANGED <<link, snap, pc, cmd, planVars, viewVars, stirred>>
    BY <1>0, <1>1, Handled
  <2>2. UNCHANGED <<link, snap, pc, cmd, plan, published, common, stirred>>
    BY <2>1 DEF planVars, viewVars
  <2>3. Due' = Due /\ Unbound' = Unbound
    BY <2>2 DEF Due, Ids, Unbound
  <2>4. /\ 1 \in DOMAIN wire
        /\ \A i \in 1..Len(Tail(wire)) : i + 1 \in DOMAIN wire /\ Tail(wire)[i] = wire[i + 1]
    BY <1>0, <2>1, TailIs
  <2>5. \A a \in Areas \ Due : panel'[a] = panel[a]
    BY <1>s, <2>1, <2>2, <2>4
  <2>6. ASSUME NEW i \in DOMAIN wire', wire'[i].cause # "read",
               NEW a \in Addressed(wire'[i]) \ Due
        PROVE  wire'[i].mode = panel'[a]
    <3> DEFINE k == i + 1
    <3>1. k \in DOMAIN wire /\ wire'[i] = wire[k]
      BY <1>w, <2>1, <2>4
    <3> HIDE DEF k
    <3>2. a \in Areas
      <4>1. wire[k].target \in Targets
        <5>1. wire[k] \in Request
          BY <1>t, <3>1
        <5> QED
          BY <5>1 DEF Request
      <4> QED
        BY <2>6, <3>1, <4>1 DEF Addressed, Targets
    <3> QED
      BY <1>s, <2>2, <2>5, <2>6, <3>1, <3>2
  <2>7. answer'.is = "modes" => answer'.modes = panel'
    BY <1>o, <2>1
  <2>8. Unbound => panel' = panel
    BY <1>d, <1>t, <2>1, <2>5
  <2> QED
    BY <1>s, <2>2, <2>3, <2>5, <2>6, <2>7, <2>8 DEF OthersAreShown
<1>2. CASE PanelIgnores
  <2>1. /\ wire # <<>> /\ wire' = Tail(wire)
        /\ UNCHANGED <<panel, answer, link, snap, pc, cmd, plan, published, common, stirred>>
    BY <1>2 DEF PanelIgnores, planVars, viewVars
  <2>2. Due' = Due /\ Unbound' = Unbound
    BY <2>1 DEF Due, Ids, Unbound
  <2>3. ASSUME NEW i \in DOMAIN wire', wire'[i].cause # "read",
               NEW a \in Addressed(wire'[i]) \ Due
        PROVE  wire'[i].mode = panel[a]
    <3> DEFINE k == i + 1
    <3>1. k \in DOMAIN wire /\ wire'[i] = wire[k]
      BY <1>0, <1>w, <2>1, TailIs
    <3> HIDE DEF k
    <3> QED
      BY <1>s, <2>1, <2>3, <3>1
  <2> QED
    BY <1>s, <2>1, <2>2, <2>3 DEF OthersAreShown
<1>3. ASSUME (\E a \in Areas, m \in AnyMode : Keypad(a, m)) \/ LinkReady PROVE FALSE
  BY <1>3 DEF Keypad, LinkReady
<1>4. ASSUME NEW id \in Targets, NEW m \in Modes, StartOne(id, m) PROVE OthersAreShown'
  <2>1. /\ ~stirred /\ id \in Areas /\ pc = "idle" /\ pc' = "one"
        /\ cmd' = [kind |-> "one", target |-> id, mode |-> m]
        /\ Exchange("one", "one", m, id)
        /\ UNCHANGED <<panel, published, link>>
    BY <1>4 DEF StartOne, TakeCommand, Exchange
  <2>2. cmd'.kind = "one" /\ cmd'.target = id
    BY <2>1
  <2>3. Due' = {id} /\ Due = {} /\ ~Unbound' /\ id # ALL_AREAS_TARGET
    BY <1>d, <2>1, <2>2, AreaAssumption DEF Due, Ids, Unbound
  <2>4. Due \subseteq Due' /\ "one" \in Causes /\ m \in AnyMode
    BY <2>3 DEF Causes, AnyMode
  <2>5. \A a \in (IF id = ALL_AREAS_TARGET THEN Areas ELSE {id}) \ Due' : m = panel[a]
    BY <2>3
  <2> QED
    BY <1>e, <2>1, <2>3, <2>4, <2>5
\* The areas that are not in the plan are in the mode already.
<1>5. ASSUME NEW m \in Modes, StartAll(m) PROVE OthersAreShown'
  <2>1. /\ ~stirred /\ pc = "idle" /\ pc' \in {"all", "reread"} /\ link = "loaded"
        /\ cmd' = [kind |-> "all", target |-> ALL_AREAS_TARGET, mode |-> m]
        /\ \/ Read("reread")
           \/ /\ plan' = Plan(snap, m)
              /\ Exchange("all", "all", m, ALL_AREAS_TARGET)
        /\ UNCHANGED <<panel, published, link>>
    BY <1>5 DEF StartAll, TakeCommand, Read, Exchange
  <2>2. snap = panel /\ Due = {} /\ ~Unbound'
    BY <1>d, <1>s, <2>1 DEF Unbound
  <2>3. Due \subseteq Due' /\ m \in AnyMode /\ None \in AnyMode /\ {"all", "read"} \subseteq Causes
        /\ ALL_AREAS_TARGET \in Targets
    BY <2>2 DEF Causes, AnyMode, Targets
  <2>4. CASE Read("reread")
    BY <1>e, <2>1, <2>2, <2>3, <2>4 DEF Read
  <2>5. CASE plan' = Plan(snap, m) /\ Exchange("all", "all", m, ALL_AREAS_TARGET)
    <3>1. cmd'.kind = "all"
      BY <2>1
    <3>2. ASSUME NEW a \in Areas, a \notin Due' PROVE m = panel[a]
      <4>1. Due' = {p[1] : p \in Plan(panel, m)}
        BY <2>1, <2>2, <2>5, <3>1 DEF Due, Ids, Unbound
      <4>2. panel[a] # m => <<a, panel[a]>> \in Plan(panel, m)
        BY <1>t DEF Plan
      <4>3. <<a, panel[a]>>[1] = a
        OBVIOUS
      <4> QED
        BY <3>2, <4>1, <4>2, <4>3
    <3>3. \A a \in (IF ALL_AREAS_TARGET = ALL_AREAS_TARGET THEN Areas ELSE {ALL_AREAS_TARGET})
               \ Due' : m = panel[a]
      BY <3>2
    <3> QED
      BY <1>e, <2>1, <2>2, <2>3, <2>5, <3>3
  <2> QED
    BY <2>1, <2>4, <2>5
\* A handler goes on with a re-read.
<1>6. ASSUME ~stirred, ~Unbound, NEW p, p \notin {"idle", "refresh", "event"}, Read(p),
             UNCHANGED <<panel, published, link, cmd, plan>>
      PROVE  OthersAreShown'
  <2>1. pc' = p
    BY <1>6 DEF Read, Exchange
  <2>2. ~Unbound' /\ Due' = Due
    BY <1>6, <2>1 DEF Unbound, Due, Ids
  <2>3. None \in AnyMode /\ "read" \in Causes /\ ALL_AREAS_TARGET \in Targets
    BY DEF AnyMode, Causes, Targets
  <2> QED
    BY <1>e, <1>6, <2>2, <2>3 DEF Read
<1>7. CASE EndOne
  <2>1. /\ pc = "one" /\ ~stirred
        /\ \/ link = "loaded" /\ Read("reread") /\ UNCHANGED <<cmd, plan>>
           \/ link # "loaded"
        /\ UNCHANGED <<panel, published, link>>
    BY <1>7 DEF EndOne, viewVars, planVars
  <2>2. link = "loaded"
    BY <1>0, <1>s, <1>t, <2>1 DEF HandlerKnows
  <2> QED
    BY <1>6, <2>1, <2>2 DEF Unbound
<1>8. CASE EndAll
  <2>1. /\ pc = "all" /\ ~stirred /\ pc' \in {"check", "reread"} /\ Read(pc')
        /\ UNCHANGED <<panel, published, link, cmd, plan>>
    BY <1>8 DEF EndAll, viewVars, planVars, Read, Exchange
  <2> QED
    BY <1>6, <2>1 DEF Unbound
\* The rollback addresses areas of the plan.
<1>9. CASE EndCheck \/ EndUndo
  <2>1. /\ pc \in {"check", "undo"} /\ ~stirred
        /\ \E U \in SUBSET plan : RollBack(U)
        /\ UNCHANGED <<panel, published, link, cmd, plan>>
    <3>1. CASE EndCheck
      <4>1. RollBack(ChangedAreas(snap')) /\ ChangedAreas(snap') \in SUBSET plan
        BY <3>1 DEF EndCheck, ChangedAreas
      <4> QED
        BY <3>1, <4>1 DEF EndCheck, viewVars, planVars
    <3>2. CASE EndUndo
      BY <1>t, <3>2 DEF EndUndo, viewVars, planVars
    <3> QED
      BY <1>9, <3>1, <3>2
  <2>2. ~Unbound /\ cmd.kind = "all"
    BY <1>0, <2>1 DEF Unbound, HandlerKnows
  <2>3. CASE Read("reread")
    BY <1>6, <2>1, <2>2, <2>3
  <2>4. ASSUME NEW q \in plan, Exchange("undo", "undo", q[2], q[1]) PROVE OthersAreShown'
    <3>1. pc' = "undo" /\ q[1] \in Areas /\ q[2] \in AnyMode /\ q[1] \in Targets
          /\ q[1] # ALL_AREAS_TARGET /\ "undo" \in Causes
      BY <1>t, <2>4, AreaAssumption DEF Exchange, AnyMode, Targets, Causes
    <3>2. ~Unbound' /\ Due' = Due /\ q[1] \in Due
      BY <2>1, <2>2, <3>1 DEF Unbound, Due, Ids
    <3>3. \A a \in (IF q[1] = ALL_AREAS_TARGET THEN Areas ELSE {q[1]}) \ Due' : q[2] = panel[a]
      BY <3>1, <3>2
    <3> QED
      BY <1>e, <2>1, <2>4, <3>1, <3>2, <3>3
  <2> QED
    BY <2>1, <2>3, <2>4 DEF RollBack
<1>10. CASE EndReread
  <2>1. /\ pc = "reread" /\ answer.is = "modes" /\ snap' = answer.modes /\ ~stirred
        /\ Publish(Ids, snap') /\ Finish /\ UNCHANGED <<panel, link>>
    BY <1>10 DEF EndReread
  <2>2. snap' = panel /\ wire = <<>> /\ Due = Ids /\ link' = "loaded"
    BY <1>0, <1>d, <1>o, <1>s, <2>1 DEF HandlerKnows, Unbound
  <2>3. \A a \in Areas : published'[a] = panel[a]
    BY <1>s, <1>t, <2>1, <2>2 DEF Publish
  <2> QED
    BY <1>f, <1>g, <2>1, <2>2, <2>3 DEF Publish
<1>11. CASE LinkLost
  <2>1. /\ pc = "idle" /\ link' = "none" /\ ~stirred
        /\ UNCHANGED <<panel, wire, answer, pc, published, common>>
    BY <1>11 DEF LinkLost, panelVars, viewVars
  <2>2. Due = {} /\ Due' = {} /\ Unbound
    BY <2>1 DEF Due, Unbound
  <2> QED
    BY <1>s, <2>1, <2>2 DEF OthersAreShown
<1>12. CASE Refresh \/ EventReads
  <2>1. /\ pc = "idle" /\ ~stirred /\ pc' \in {"refresh", "event"} /\ Read(pc')
        /\ UNCHANGED <<panel, published, common, link, snap>>
    BY <1>12 DEF Refresh, EventReads, viewVars, Read, Exchange
  <2>2. Due = {} /\ Unbound
    BY <2>1 DEF Due, Unbound
  <2>3. None \in AnyMode /\ "read" \in Causes /\ ALL_AREAS_TARGET \in Targets
    BY DEF AnyMode, Causes, Targets
  <2> QED
    BY <1>e, <2>1, <2>2, <2>3 DEF Read
<1>13. CASE RefreshSucceeds \/ (EndEvent /\ PublishRead)
  <2>1. /\ answer.is = "modes" /\ snap' = answer.modes /\ Publish(Areas, snap') /\ Finish
        /\ answer.modes = panel /\ link' = "loaded" /\ UNCHANGED panel
    BY <1>0, <1>13 DEF RefreshSucceeds, EndEvent, PublishRead, HandlerKnows
  <2>2. snap' = panel /\ wire = <<>>
    BY <1>o, <2>1
  <2>3. \A a \in Areas : published'[a] = panel[a]
    BY <1>t, <2>1, <2>2 DEF Publish
  <2> QED
    BY <1>f, <1>g, <2>1, <2>2, <2>3 DEF Publish
<1>14. CASE RefreshBadStatus
  <2>1. /\ pc = "refresh" /\ answer.is = "modes" /\ snap' = answer.modes /\ Finish /\ ~stirred
        /\ link' = "loaded" /\ UNCHANGED <<panel, published, common>>
    BY <1>14 DEF RefreshBadStatus, viewVars
  <2>2. snap' = panel /\ wire = <<>> /\ Due = {} /\ Unbound
    BY <1>o, <1>s, <2>1 DEF Due, Unbound
  <2> QED
    BY <1>f, <1>g, <1>s, <2>1, <2>2
\* A handler that has changed nothing returns.
<1>15. ASSUME ~stirred, Unbound, Finish, UNCHANGED <<panel, snap>>, link = "loaded",
              link' = "loaded",
              \/ UNCHANGED <<published, common>>
              \/ \E A : Publish(A, snap)
       PROVE  OthersAreShown'
  <2>1. snap = panel /\ Due = {} /\ common = CommonMode(panel)
    BY <1>d, <1>s, <1>15
  <2>2. ASSUME NEW i \in DOMAIN wire', NEW a \in Addressed(wire'[i])
        PROVE  wire'[i].mode = panel[a]
    <3>1. wire' = Dead(wire) /\ i \in 1..Len(Dead(wire))
      BY <1>w, <1>15 DEF Finish
    <3> QED
      BY <1>a, <1>15, <2>1, <2>2, <3>1
  <2>3. common' = CommonMode(panel) /\ \A a \in Areas : published'[a] = panel[a]
    BY <1>s, <1>t, <1>15, <2>1 DEF Publish
  <2> QED
    BY <1>f, <1>15, <2>1, <2>2, <2>3
<1>16. CASE RefreshFails
  <2>1. /\ pc = "refresh" /\ link' \in {link, "loaded"} /\ Finish /\ ~stirred
        /\ UNCHANGED <<panel, snap, published, common>>
    BY <1>16 DEF RefreshFails, viewVars
  <2>2. link = "loaded" /\ Unbound
    BY <1>0, <1>s, <1>t, <2>1 DEF HandlerKnows, Unbound
  <2> QED
    BY <1>15, <2>1, <2>2
<1>17. CASE EndEvent /\ ~PublishRead
  <2>1. /\ pc = "event" /\ Finish /\ ~stirred /\ UNCHANGED <<panel, link, snap>>
        /\ \E A : Publish(A, snap)
    BY <1>17 DEF EndEvent
  <2>2. link = "loaded" /\ Unbound
    BY <1>0, <2>1 DEF HandlerKnows, Unbound
  <2> QED
    BY <1>15, <2>1, <2>2
<1>18. CASE Event
  <2>1. /\ pc = "idle" /\ link = "loaded" /\ ~stirred
        /\ \E A : Publish(A, snap)
        /\ UNCHANGED <<panel, wire, answer, link, snap, pc>>
    BY <1>18 DEF Event, panelVars
  <2>2. Due = {} /\ Due' = {} /\ Unbound /\ snap = panel
    BY <1>s, <2>1 DEF Due, Unbound
  <2>3. common' = CommonMode(panel) /\ \A a \in Areas : published'[a] = panel[a]
    BY <1>s, <1>t, <2>1, <2>2 DEF Publish
  <2> QED
    BY <1>s, <2>1, <2>2, <2>3 DEF OthersAreShown
<1>19. CASE UNCHANGED vars
  <2>1. UNCHANGED <<panel, wire, answer, link, snap, pc, cmd, plan, published, common,
                    stirred>>
    BY <1>19 DEF vars, panelVars, planVars, viewVars
  <2>2. Due' = Due /\ Unbound' = Unbound
    BY <2>1 DEF Due, Ids, Unbound
  <2> QED
    BY <1>s, <2>1, <2>2 DEF OthersAreShown
<1> QED
  BY <1>1, <1>2, <1>3, <1>4, <1>5, <1>7, <1>8, <1>9, <1>10, <1>11, <1>12, <1>13, <1>14,
     <1>16, <1>17, <1>18, <1>19 DEF Next, Handlers

-----------------------------------------------------------------------------
\* The handlers of area commands keep their invariant, whatever the panel does with
\* requests and whenever.
THEOREM AreaInvariance == Spec => []AreaInv
<1>1. Init => AreaInv
  BY InitArea
<1>2. AreaInv /\ [Next]_vars => AreaInv'
  BY AreaTypeStep, AwaitStep, KnowsStep, PlanStep, UndoStep, ShownStep, UnsetStep
     DEF AreaInv
<1> QED
  BY <1>1, <1>2, PTL DEF Spec

\* A failed attempt to set all areas leaves every area as it was, if the re-read and
\* the rollback commands succeed and nobody interferes (bridge.rs
\* all_areas_command).
THEOREM FailedSetUndone == Spec => []FailedSetIsUndone
<1>1. AreaInv => FailedSetIsUndone
  BY DEF AreaInv, UndoProgresses, FailedSetIsUndone
<1> QED
  BY <1>1, AreaInvariance, PTL

\* While all areas are being unset nothing sets one (bridge.rs all_areas_command).
THEOREM UnsetStaysUnset == Spec => []UnsetNeverRearms
<1>1. AreaInv => UnsetNeverRearms
  BY DEF AreaInv
<1> QED
  BY <1>1, AreaInvariance, PTL

\* A command that has been handled has had its topics published (bridge.rs command).
THEOREM CommandsAreAnswered == Spec => []NoOptimisticView
<1>1. AreaInv => NoOptimisticView
  BY DEF AreaInv, HandlerKnows, Unbound, NoOptimisticView
<1> QED
  BY <1>1, AreaInvariance, PTL

\* Between handlers every mode topic says how the panel is, unless a keypad, a
\* failed re-read, a new session or a command for area 0 came since all areas were
\* last published (bridge.rs area_command, all_areas_command, publish_area).
THEOREM TopicsAreTrue == Spec => []TopicsShowThePanel
<1>1. AreaInv => TopicsShowThePanel
  <2> SUFFICES ASSUME AreaInv, pc = "idle", ~stirred
               PROVE  published = panel /\ common = CommonMode(panel)
    BY DEF TopicsShowThePanel
  <2>1. Unbound /\ Due = {}
    BY DEF Unbound, Due
  <2>2. /\ common = CommonMode(panel) /\ \A a \in Areas : published[a] = panel[a]
        /\ published \in [Areas -> AnyMode] /\ panel \in [Areas -> AnyMode]
    BY <2>1 DEF AreaInv, OthersAreShown, TypeOK
  <2> QED
    BY <2>2
<1> QED
  BY <1>1, AreaInvariance, PTL
=============================================================================
