------------------------------ MODULE PanelLink ------------------------------
(***************************************************************************)
(* Panel connections and the bridge's current link.                        *)
(*                                                                         *)
(* run_receiver spawns a task per TCP connection (src/src/edp/session.rs). *)
(* A connection that delivers a valid frame claims the active slot and     *)
(* signals the connection it finds there to stop; its first poll sends     *)
(* Ready, every SIA event and the end of the connection follow on one      *)
(* bounded queue.  The bridge (src/src/bridge.rs) is the only consumer: it *)
(* keeps the session of the last Ready as its link, and does not look at   *)
(* the queue while it awaits a query on that session.                      *)
(*                                                                         *)
(* What a query does is CommandChannel's matter; here it only ends at some *)
(* time, which CallsReturn of CommandChannel justifies.  The panel and     *)
(* other peers are outside the repository: any connection may deliver any  *)
(* frames at any time, valid data or none.                                 *)
(***************************************************************************)
EXTENDS Naturals, Sequences

CONSTANTS
  Sessions,   \* connections: a SessionId is used once
  NoSession,
  QueueLen,   \* LINK_EVENT_QUEUE_LEN
  MaxBatch,   \* bound on the frames one read delivers (model only)
  MaxSia      \* bound on the SIA events of a behaviour (model only)

ASSUME LinkAssumption ==
  /\ NoSession \notin Sessions
  /\ QueueLen \in Nat \ {0}
  /\ MaxBatch \in Nat
  /\ MaxSia \in Nat

VARIABLES
  phase,     \* where each connection's task is
  batch,     \* frames of the last read that are still to be dispatched
  ready,     \* connections that have seen their first poll
  previous,  \* the session a claiming task took out of the slot
  active,    \* ActiveSlot: the session in it
  signalled, \* sessions whose supersede channel has been fired
  events,    \* the link event queue
  sia,       \* SIA events numbered so far
  receiver,  \* whether run_receiver is accepting
  link,      \* the bridge's link
  asking,    \* the session the bridge awaits a query on
  bridge     \* whether run is in its loop

slotVars   == <<active, signalled, previous>>
queueVars  == <<events, sia>>
bridgeVars == <<link, asking, bridge>>
vars == <<phase, batch, ready, slotVars, queueVars, receiver, bridgeVars>>

Frames  == {"hello", "poll", "sia"}
Phases  == {"none", "open", "claiming", "superseding", "reading", "sending",
            "closing", "done"}
Event   == [kind : {"ready", "sia", "closed"}, of : Sessions]
Batches == UNION {[1..k -> Frames] : k \in 1..MaxBatch}

Init ==
  /\ phase = [s \in Sessions |-> "none"]
  /\ batch = [s \in Sessions |-> <<>>]
  /\ ready = {}
  /\ previous = [s \in Sessions |-> NoSession]
  /\ active = NoSession
  /\ signalled = {}
  /\ events = <<>>
  /\ sia = 0
  /\ receiver = "accepting"
  /\ link = NoSession
  /\ asking = NoSession
  /\ bridge = "running"

-----------------------------------------------------------------------------
(* run_receiver and claim.                                                 *)

\* Mutant: a connection claims the slot as soon as it is accepted.
AcceptedPhaseClaims == "claiming"
AcceptedPhase == "open"

\* A connection is accepted and its task spawned.
Accept(s) ==
  /\ receiver = "accepting"
  /\ phase[s] = "none"
  /\ phase' = [phase EXCEPT ![s] = AcceptedPhase]
  /\ UNCHANGED <<batch, ready, slotVars, queueVars, receiver, bridgeVars>>

\* accept() fails: run_receiver returns, the sessions go on.
ReceiverFails ==
  /\ receiver = "accepting"
  /\ receiver' = "stopped"
  /\ UNCHANGED <<phase, batch, ready, slotVars, queueVars, bridgeVars>>

\* claim() puts the session into the slot under the slot's mutex ...
Claim(s) ==
  /\ phase[s] = "claiming"
  /\ phase' = [phase EXCEPT ![s] = "superseding"]
  /\ active' = s
  /\ previous' = [previous EXCEPT ![s] = active]
  /\ UNCHANGED <<batch, ready, signalled, queueVars, receiver, bridgeVars>>

\* Mutant: the session found in the slot is not told.
SignalNobody(s) == signalled
Signal(s) == signalled \cup ({previous[s]} \ {NoSession})

\* ... and, the mutex released, fires the channel of the session it replaced.
Supersede(s) ==
  /\ phase[s] = "superseding"
  /\ phase' = [phase EXCEPT ![s] = "reading"]
  /\ signalled' = Signal(s)
  /\ previous' = [previous EXCEPT ![s] = NoSession]
  /\ UNCHANGED <<batch, ready, active, queueVars, receiver, bridgeVars>>

-----------------------------------------------------------------------------
(* read_loop and dispatch.                                                 *)

\* A read delivers frames.  The first valid frame makes the connection claim
\* the slot.  select! picks either branch when the supersede channel has fired
\* and there is data as well.
Read(s) ==
  /\ phase[s] \in {"open", "reading"}
  /\ batch[s] = <<>>
  /\ \E b \in Batches : batch' = [batch EXCEPT ![s] = b]
  /\ phase' = [phase EXCEPT ![s] = IF @ = "open" THEN "claiming" ELSE @]
  /\ UNCHANGED <<ready, slotVars, queueVars, receiver, bridgeVars>>

\* Mutant: a superseded connection goes on reading.
SeesSupersedeNever(s) == FALSE
SeesSupersede(s) == s \in signalled

LeaveLoop(s) ==
  /\ phase' = [phase EXCEPT ![s] = "closing"]
  /\ batch' = [batch EXCEPT ![s] = <<>>]

\* read_loop is told that another connection has taken over.
Superseded(s) ==
  /\ phase[s] \in {"open", "reading"}
  /\ batch[s] = <<>>
  /\ SeesSupersede(s)
  /\ LeaveLoop(s)
  /\ UNCHANGED <<ready, slotVars, queueVars, receiver, bridgeVars>>

\* End of file, idle or handshake timeout, an undecodable stream, a first frame
\* for another receiver, or (with frames left) an answer that cannot be queued.
StopReading(s) ==
  /\ phase[s] \in {"open", "reading"}
  /\ LeaveLoop(s)
  /\ UNCHANGED <<ready, slotVars, queueVars, receiver, bridgeVars>>

Full == Len(events) >= QueueLen

Push(k, s) == events' = Append(events, [kind |-> k, of |-> s])

TakeFrame(s) == batch' = [batch EXCEPT ![s] = Tail(@)]

\* HELLO, a later poll, an unhandled frame or an SIA event that does not parse.
DispatchQuiet(s) ==
  /\ phase[s] = "reading"
  /\ batch[s] # <<>>
  /\ Head(batch[s]) = "poll" => s \in ready
  /\ TakeFrame(s)
  /\ UNCHANGED <<phase, ready, slotVars, queueVars, receiver, bridgeVars>>

\* The first poll: the task waits for room to send Ready.
DispatchFirstPoll(s) ==
  /\ phase[s] = "reading"
  /\ batch[s] # <<>>
  /\ Head(batch[s]) = "poll"
  /\ s \notin ready
  /\ ready' = ready \cup {s}
  /\ phase' = [phase EXCEPT ![s] = "sending"]
  /\ TakeFrame(s)
  /\ UNCHANGED <<slotVars, queueVars, receiver, bridgeVars>>

\* Mutant: the reader waits for room in the queue instead.
DropSiaWaits(s) == phase' = [phase EXCEPT ![s] = "sending"]
DropSia(s) == UNCHANGED phase

\* An SIA event, acknowledged first, is queued only if there is room.
DispatchSia(s) ==
  /\ phase[s] = "reading"
  /\ batch[s] # <<>>
  /\ Head(batch[s]) = "sia"
  /\ sia < MaxSia
  /\ sia' = sia + 1
  /\ \/ ~Full /\ Push("sia", s) /\ UNCHANGED phase
     \/ Full /\ DropSia(s) /\ UNCHANGED events
  /\ TakeFrame(s)
  /\ UNCHANGED <<ready, slotVars, receiver, bridgeVars>>

\* events.send(Ready) finds room.  When the consumer is gone read_loop ends.
SendReady(s) ==
  /\ phase[s] = "sending"
  /\ \/ /\ bridge = "running"
        /\ ~Full
        /\ Push("ready", s)
        /\ phase' = [phase EXCEPT ![s] = "reading"]
        /\ UNCHANGED batch
     \/ /\ bridge = "stopped"
        /\ LeaveLoop(s)
        /\ UNCHANGED events
  /\ UNCHANGED <<ready, slotVars, sia, receiver, bridgeVars>>

\* Mutant: the end of a connection is dropped when the queue is full.
SendClosedOrDrop(s) ==
  /\ phase[s] = "closing"
  /\ phase' = [phase EXCEPT ![s] = "done"]
  /\ IF bridge = "running" /\ ~Full THEN Push("closed", s) ELSE UNCHANGED events
  /\ UNCHANGED <<batch, ready, slotVars, sia, receiver, bridgeVars>>

\* The session is closed, and the task waits for room to say so.
SendClosed(s) ==
  /\ phase[s] = "closing"
  /\ phase' = [phase EXCEPT ![s] = "done"]
  /\ \/ bridge = "running" /\ ~Full /\ Push("closed", s)
     \/ bridge = "stopped" /\ UNCHANGED events
  /\ UNCHANGED <<batch, ready, slotVars, sia, receiver, bridgeVars>>

-----------------------------------------------------------------------------
(* The bridge: run, on_link_event, refresh.                                *)

\* Mutant: Closed is taken for the link's, whoever it comes from.
IsCurrentAlways(s) == TRUE
IsCurrent(s) == link = s

Listening == bridge = "running" /\ asking = NoSession

\* The session becomes the link and the initial refresh starts.
TakeReady ==
  /\ Listening
  /\ events # <<>>
  /\ Head(events).kind = "ready"
  /\ events' = Tail(events)
  /\ link' = Head(events).of
  /\ asking' = Head(events).of
  /\ UNCHANGED <<phase, batch, ready, slotVars, sia, receiver, bridge>>

TakeClosed ==
  /\ Listening
  /\ events # <<>>
  /\ Head(events).kind = "closed"
  /\ events' = Tail(events)
  /\ link' = IF IsCurrent(Head(events).of) THEN NoSession ELSE link
  /\ UNCHANGED <<phase, batch, ready, slotVars, sia, receiver, asking, bridge>>

\* on_sia queries the panel for some of the events of the link's session; an
\* event of any other session is ignored.
TakeSia ==
  /\ Listening
  /\ events # <<>>
  /\ Head(events).kind = "sia"
  /\ events' = Tail(events)
  /\ asking' \in IF IsCurrent(Head(events).of) THEN {NoSession, link} ELSE {NoSession}
  /\ UNCHANGED <<phase, batch, ready, slotVars, sia, receiver, link, bridge>>

\* The refresh timer or a command from MQTT.
AskPanel ==
  /\ Listening
  /\ link # NoSession
  /\ asking' = link
  /\ UNCHANGED <<phase, batch, ready, slotVars, queueVars, receiver, link, bridge>>

\* The last query of the handler returns: answered, failed or timed out.
QueryReturns ==
  /\ asking # NoSession
  /\ asking' = NoSession
  /\ UNCHANGED <<phase, batch, ready, slotVars, queueVars, receiver, link, bridge>>

\* recv() returns None: every sender is gone and the queue is empty.
BridgeStops ==
  /\ Listening
  /\ receiver = "stopped"
  /\ \A s \in Sessions : phase[s] \in {"none", "done"}
  /\ events = <<>>
  /\ bridge' = "stopped"
  /\ UNCHANGED <<phase, batch, ready, slotVars, queueVars, receiver, link, asking>>

-----------------------------------------------------------------------------
Claims(s) == Claim(s) \/ Supersede(s)
Dispatch(s) == DispatchQuiet(s) \/ DispatchFirstPoll(s) \/ DispatchSia(s)
TakeEvent == TakeReady \/ TakeClosed \/ TakeSia

Next ==
  \/ \E s \in Sessions :
       \/ Accept(s) \/ Claims(s) \/ Read(s) \/ Superseded(s) \/ StopReading(s)
       \/ Dispatch(s) \/ SendReady(s) \/ SendClosed(s)
  \/ ReceiverFails \/ TakeEvent \/ AskPanel \/ QueryReturns \/ BridgeStops

Spec == Init /\ [][Next]_vars

\* Tasks that can run are polled; a task waiting for room in the queue gets its
\* turn, because the queue's permits are given out in order; select! chooses at
\* random, so a branch that is ready again and again is taken; and queries
\* return (CommandChannel).  Peers and timers owe nothing.
FairSpec ==
  /\ Spec
  /\ \A s \in Sessions :
       /\ WF_vars(Claims(s)) /\ WF_vars(Dispatch(s)) /\ SF_vars(Superseded(s))
       /\ SF_vars(SendReady(s)) /\ SF_vars(SendClosed(s))
  /\ SF_vars(TakeEvent) /\ WF_vars(QueryReturns)

-----------------------------------------------------------------------------
TypeOK ==
  /\ phase \in [Sessions -> Phases]
  /\ batch \in [Sessions -> Seq(Frames)]
  /\ ready \in SUBSET Sessions
  /\ previous \in [Sessions -> Sessions \cup {NoSession}]
  /\ active \in Sessions \cup {NoSession}
  /\ signalled \in SUBSET Sessions
  /\ events \in Seq(Event) /\ Len(events) <= QueueLen
  /\ sia \in 0..MaxSia
  /\ receiver \in {"accepting", "stopped"}
  /\ link \in Sessions \cup {NoSession}
  /\ asking \in Sessions \cup {NoSession}
  /\ bridge \in {"running", "stopped"}

Queued(k, s) == \E i \in DOMAIN events : events[i].kind = k /\ events[i].of = s

\* A session that keeps the bridge's link after its task has ended always has
\* its Closed event in the queue, behind its Ready: no interleaving and no full
\* queue leaves the bridge on a dead connection for good (session.rs
\* run_session, bridge.rs on_link_event).
DeadLinkIsReported ==
  \A s \in Sessions :
    phase[s] = "done" /\ bridge = "running" =>
      /\ link = s => Queued("closed", s)
      /\ \A i \in DOMAIN events :
           events[i] = [kind |-> "ready", of |-> s] =>
             \E j \in DOMAIN events : j > i /\ events[j].kind = "closed" /\ events[j].of = s

\* The bridge, which alone makes room in the event queue, never awaits a query
\* on a session whose reader waits for room in that queue: the reply could not
\* be read and every such query would run into its timeout (session.rs
\* dispatch, bridge.rs refresh).
QueryNeverWaitsOnQueue == asking # NoSession => phase[asking] # "sending"

\* Whatever the order in which connections claim the slot and fire each other's
\* channels, one of them is in the slot and every other is told to stop or is
\* about to be (session.rs claim).
OldOnesAreStopped ==
  \A s \in Sessions :
    phase[s] \in {"superseding", "reading", "sending"} /\ active # s =>
      s \in signalled \/ \E t \in Sessions : previous[t] = s

\* A connection that never delivered a valid frame stops nobody: whoever is told
\* to stop gave way to a session that has been read from (session.rs
\* run_receiver, "a stray connection").
StrayStopsNobody ==
  active # NoSession =>
    batch[active] # <<>> \/ phase[active] \in {"reading", "sending", "closing", "done"}

\* What a connection in the slot, or on its way into it, has been through; a
\* session taken out of the slot is remembered only until it is told.
SlotIsClaimed ==
  /\ active # NoSession =>
       phase[active] \in {"superseding", "reading", "sending", "closing", "done"}
  /\ \A s \in Sessions :
       /\ phase[s] \in {"claiming", "superseding"} => batch[s] # <<>>
       /\ phase[s] # "superseding" => previous[s] = NoSession

\* A session the bridge has, or will find in the queue, has sent its Ready, which
\* it does once; and whoever waits to send it has not been heard of.
ReadySentOnce ==
  \A s \in Sessions :
    /\ phase[s] = "sending" => s \in ready
    /\ link = s \/ asking = s \/ Queued("ready", s) => s \in ready /\ phase[s] # "sending"

\* Closed is the last thing a connection does.
ClosedIsLast ==
  \A i \in DOMAIN events : events[i].kind = "closed" => phase[events[i].of] = "done"

\* The inductive invariant behind the others: claims and supersessions as they go
\* through the slot, and what the queue still says of each connection
\* (session.rs run_session, claim, dispatch; bridge.rs on_link_event).
LinkInv ==
  /\ TypeOK
  /\ SlotIsClaimed
  /\ ReadySentOnce
  /\ ClosedIsLast
  /\ DeadLinkIsReported
  /\ QueryNeverWaitsOnQueue
  /\ OldOnesAreStopped
  /\ StrayStopsNobody

\* The bridge gives up its link for none only when that very session has ended,
\* never because of a stale Closed (bridge.rs on_link_event).
LinkDroppedOnlyWhenClosed ==
  [][link # NoSession /\ link' = NoSession => phase[link] = "done"]_vars

\* A connection that was superseded ends, also when it waits for room in the
\* event queue, and so does the bridge's use of it (session.rs read_loop).
SupersededEnds ==
  \A s \in Sessions :
    s \in signalled ~> (phase[s] = "done" /\ link # s) \/ bridge = "stopped"

\* The bridge is told of the end of its link's connection, however full the
\* queue (session.rs run_session).
DeadLinkIsDropped ==
  \A s \in Sessions :
    phase[s] = "closing" /\ link = s ~> link # s \/ bridge = "stopped"

\* With every event taken and every other connection gone, the bridge's link is
\* the session in the slot, if that session has had its first poll: the events of
\* a superseded connection are told apart from those of the current one
\* (session.rs SessionId).
CurrentSessionIsLink ==
  /\ events = <<>>
  /\ \A s \in Sessions \ {active} : phase[s] \in {"none", "open", "done"}
  /\ active \in ready
  /\ phase[active] = "reading"
  => link = active

-----------------------------------------------------------------------------
(* What the bridge may rely on. *)

\* Sessions whose Ready is in the queue or was there, and those that have reported
\* their end.
Up == {s \in ready : phase[s] # "sending"}
Down == {s \in Sessions : phase[s] = "done"}

\* What the bridge has taken of them from the queue.
Known == {s \in Up : ~Queued("ready", s)}
Gone  == {s \in Down : ~Queued("closed", s)}

Service == INSTANCE LinkService WITH
  up    <- Up,
  down  <- Down,
  known <- Known,
  gone  <- Gone

\* Of the connections, the slot and the full queue the bridge sees no more than
\* LinkService allows: each session comes and ends once, its end is never lost nor
\* learnt of before its start, and it is the link in between at most (session.rs
\* run_session, dispatch; bridge.rs on_link_event).
LinkServiceSpec == Service!Spec
=============================================================================
