--------------------------- MODULE PanelLinkProofs ---------------------------
(***************************************************************************)
(* LinkInv is an invariant of PanelLink, for any number of connections and *)
(* any length of the event queue.                                          *)
(*                                                                         *)
(* A connection's way is monotone: it claims the slot once it has been     *)
(* read from, says Ready once and Closed last (SlotIsClaimed,              *)
(* ReadySentOnce, ClosedIsLast).  The slot changes hands in two steps, in  *)
(* between `previous' remembers who is still to be told                    *)
(* (OldOnesAreStopped).  The queue keeps its order, so a Closed behind a   *)
(* Ready stays behind it until the bridge has taken both                   *)
(* (DeadLinkIsReported).                                                   *)
(***************************************************************************)
EXTENDS PanelLink, TLAPS

USE LinkAssumption

\* Before the first connection (session.rs run_receiver, bridge.rs run).
LEMMA LinkInit == Init => LinkInv
<1> SUFFICES ASSUME Init PROVE LinkInv
  OBVIOUS
<1>1. TypeOK
  BY DEF Init, TypeOK, Phases
<1>2. SlotIsClaimed /\ ReadySentOnce /\ ClosedIsLast
  BY DEF Init, SlotIsClaimed, ReadySentOnce, ClosedIsLast, Queued
<1>3. DeadLinkIsReported /\ QueryNeverWaitsOnQueue
  BY DEF Init, DeadLinkIsReported, QueryNeverWaitsOnQueue
<1>4. OldOnesAreStopped /\ StrayStopsNobody
  BY DEF Init, OldOnesAreStopped, StrayStopsNobody
<1> QED
  BY <1>1, <1>2, <1>3, <1>4 DEF LinkInv

\* A read delivers at least one frame.
LEMMA BatchIsRead == \A b \in Batches : b \in Seq(Frames) /\ b # <<>>
  BY DEF Batches

\* A connection that leaves read_loop is closing.
LEMMA LeaveLoopType ==
  ASSUME TypeOK, NEW s \in Sessions, LeaveLoop(s)
  PROVE  phase' \in [Sessions -> Phases] /\ batch' \in [Sessions -> Seq(Frames)]
  BY DEF LeaveLoop, TypeOK, Phases

\* An event is queued where there is room for it.
LEMMA PushType ==
  ASSUME TypeOK, NEW s \in Sessions, NEW k \in {"ready", "sia", "closed"},
         Push(k, s), ~Full
  PROVE  events' \in Seq(Event) /\ Len(events') <= QueueLen
<1>1. [kind |-> k, of |-> s] \in Event
  BY DEF Event
<1> QED
  BY <1>1 DEF TypeOK, Push, Full

\* The state keeps its types: among others, the event queue never exceeds its
\* length (session.rs LINK_EVENT_QUEUE_LEN).
LEMMA LinkTypeStep == TypeOK /\ [Next]_vars => TypeOK'
<1> USE DEF vars, slotVars, queueVars, bridgeVars
<1> SUFFICES ASSUME TypeOK, [Next]_vars PROVE TypeOK'
  OBVIOUS
<1>1. ASSUME NEW s \in Sessions, Accept(s) PROVE TypeOK'
  BY <1>1 DEF Accept, AcceptedPhase, TypeOK, Phases
<1>2. ASSUME NEW s \in Sessions, Claim(s) PROVE TypeOK'
  BY <1>2 DEF Claim, TypeOK, Phases
<1>3. ASSUME NEW s \in Sessions, Supersede(s) PROVE TypeOK'
  BY <1>3 DEF Supersede, Signal, TypeOK, Phases
<1>4. ASSUME NEW s \in Sessions, Read(s) PROVE TypeOK'
  <2>1. PICK b \in Batches : batch' = [batch EXCEPT ![s] = b]
    BY <1>4 DEF Read
  <2>2. batch' \in [Sessions -> Seq(Frames)]
    BY <2>1, BatchIsRead DEF TypeOK
  <2> QED
    BY <1>4, <2>2 DEF Read, TypeOK, Phases
<1>5. ASSUME NEW s \in Sessions, Superseded(s) \/ StopReading(s) PROVE TypeOK'
  BY <1>5, LeaveLoopType DEF Superseded, StopReading, TypeOK
<1>6. ASSUME NEW s \in Sessions, Dispatch(s) PROVE TypeOK'
  <2>1. batch' \in [Sessions -> Seq(Frames)]
    <3>1. batch[s] # <<>> /\ batch' = [batch EXCEPT ![s] = Tail(batch[s])]
      BY <1>6 DEF Dispatch, DispatchQuiet, DispatchFirstPoll, DispatchSia, TakeFrame
    <3>2. Tail(batch[s]) \in Seq(Frames)
      BY <3>1 DEF TypeOK
    <3> QED
      BY <3>1, <3>2 DEF TypeOK
  <2>2. CASE DispatchQuiet(s)
    BY <2>1, <2>2 DEF DispatchQuiet, TypeOK
  <2>3. CASE DispatchFirstPoll(s)
    BY <2>1, <2>3 DEF DispatchFirstPoll, TypeOK, Phases
  <2>4. CASE DispatchSia(s)
    <3>1. events' \in Seq(Event) /\ Len(events') <= QueueLen
      BY <2>4, PushType DEF DispatchSia, TypeOK
    <3> QED
      BY <2>1, <2>4, <3>1 DEF DispatchSia, DropSia, TypeOK
  <2> QED
    BY <1>6, <2>2, <2>3, <2>4 DEF Dispatch
<1>7. ASSUME NEW s \in Sessions, SendReady(s) PROVE TypeOK'
  <2>1. events' \in Seq(Event) /\ Len(events') <= QueueLen
    BY <1>7, PushType DEF SendReady, TypeOK
  <2>2. phase' \in [Sessions -> Phases] /\ batch' \in [Sessions -> Seq(Frames)]
    BY <1>7, LeaveLoopType DEF SendReady, TypeOK, Phases
  <2> QED
    BY <1>7, <2>1, <2>2 DEF SendReady, TypeOK
<1>8. ASSUME NEW s \in Sessions, SendClosed(s) PROVE TypeOK'
  <2>1. events' \in Seq(Event) /\ Len(events') <= QueueLen
    BY <1>8, PushType DEF SendClosed, TypeOK
  <2> QED
    BY <1>8, <2>1 DEF SendClosed, TypeOK, Phases
<1>9. CASE TakeEvent
  <2>1. /\ events # <<>> /\ events' = Tail(events)
        /\ Head(events).of \in Sessions
    <3>1. events # <<>> /\ events' = Tail(events)
      BY <1>9 DEF TakeEvent, TakeReady, TakeClosed, TakeSia
    <3>2. Head(events) \in Event
      BY <3>1 DEF TypeOK
    <3> QED
      BY <3>1, <3>2 DEF Event
  <2>2. events' \in Seq(Event) /\ Len(events') <= QueueLen
    BY <2>1 DEF TypeOK
  <2> QED
    BY <1>9, <2>1, <2>2 DEF TakeEvent, TakeReady, TakeClosed, TakeSia, IsCurrent, TypeOK
<1>10. CASE ReceiverFails \/ AskPanel \/ QueryReturns \/ BridgeStops
  BY <1>10 DEF ReceiverFails, AskPanel, QueryReturns, BridgeStops, TypeOK
<1>11. CASE UNCHANGED vars
  BY <1>11 DEF TypeOK
<1> QED
  BY <1>1, <1>2, <1>3, <1>4, <1>5, <1>6, <1>7, <1>8, <1>9, <1>10, <1>11 DEF Next, Claims

-----------------------------------------------------------------------------
\* An event queued last comes behind all others.
LEMMA QueuePush ==
  ASSUME TypeOK, NEW s \in Sessions, NEW k \in {"ready", "sia", "closed"}, Push(k, s)
  PROVE  /\ \A i \in DOMAIN events :
              i \in DOMAIN events' /\ events'[i] = events[i] /\ i < Len(events) + 1
         /\ \A i \in DOMAIN events' :
              \/ i \in DOMAIN events
              \/ i = Len(events) + 1 /\ events'[i].kind = k /\ events'[i].of = s
         /\ Len(events) + 1 \in DOMAIN events'
         /\ events'[Len(events) + 1].kind = k
         /\ events'[Len(events) + 1].of = s
  BY DEF TypeOK, Push

\* Taking the first event leaves the others in their order.
LEMMA QueueTake ==
  ASSUME TypeOK, events # <<>>, events' = Tail(events)
  PROVE  /\ 1 \in DOMAIN events /\ Head(events) = events[1] /\ events[1] \in Event
         /\ \A i \in DOMAIN events' : i + 1 \in DOMAIN events /\ events'[i] = events[i + 1]
         /\ \A i \in DOMAIN events :
              i > 1 => i - 1 \in DOMAIN events' /\ events'[i - 1] = events[i]
         /\ \A i \in DOMAIN events : i \in Nat /\ i >= 1
  BY DEF TypeOK

\* The slot is taken by connections that have been read from, and whoever was
\* taken out of it is remembered until told (session.rs claim).
LEMMA SlotStep ==
  TypeOK /\ SlotIsClaimed /\ [Next]_vars => SlotIsClaimed'
<1> USE DEF vars, slotVars, queueVars, bridgeVars
<1> SUFFICES ASSUME TypeOK, SlotIsClaimed, [Next]_vars PROVE SlotIsClaimed'
  OBVIOUS
<1>1. ASSUME NEW s \in Sessions, Accept(s) PROVE SlotIsClaimed'
  BY <1>1 DEF Accept, AcceptedPhase, TypeOK, SlotIsClaimed
<1>2. ASSUME NEW s \in Sessions, Claim(s) PROVE SlotIsClaimed'
  BY <1>2 DEF Claim, TypeOK, SlotIsClaimed
<1>3. ASSUME NEW s \in Sessions, Supersede(s) PROVE SlotIsClaimed'
  BY <1>3 DEF Supersede, TypeOK, SlotIsClaimed
<1>4. ASSUME NEW s \in Sessions, Read(s) PROVE SlotIsClaimed'
  <2>1. PICK b \in Batches : batch' = [batch EXCEPT ![s] = b]
    BY <1>4 DEF Read
  <2>2. batch'[s] # <<>> /\ \A t \in Sessions \ {s} : batch'[t] = batch[t]
    BY <2>1, BatchIsRead DEF TypeOK
  <2> QED
    BY <1>4, <2>2 DEF Read, TypeOK, SlotIsClaimed
<1>5. ASSUME NEW s \in Sessions, Superseded(s) \/ StopReading(s) PROVE SlotIsClaimed'
  BY <1>5 DEF Superseded, StopReading, LeaveLoop, TypeOK, SlotIsClaimed
<1>6. ASSUME NEW s \in Sessions, Dispatch(s) PROVE SlotIsClaimed'
  BY <1>6 DEF Dispatch, DispatchQuiet, DispatchFirstPoll, DispatchSia, DropSia, TakeFrame,
     TypeOK, SlotIsClaimed
<1>7. ASSUME NEW s \in Sessions, SendReady(s) \/ SendClosed(s) PROVE SlotIsClaimed'
  BY <1>7 DEF SendReady, SendClosed, LeaveLoop, TypeOK, SlotIsClaimed
<1>8. CASE TakeEvent \/ ReceiverFails \/ AskPanel \/ QueryReturns \/ BridgeStops
  BY <1>8 DEF TakeEvent, TakeReady, TakeClosed, TakeSia, ReceiverFails, AskPanel,
     QueryReturns, BridgeStops, SlotIsClaimed
<1>9. CASE UNCHANGED vars
  BY <1>9 DEF SlotIsClaimed
<1> QED
  BY <1>1, <1>2, <1>3, <1>4, <1>5, <1>6, <1>7, <1>8, <1>9 DEF Next, Claims

\* A session leaves the slot with somebody bound to tell it, and is told
\* (session.rs claim).
LEMMA OldOnesStep ==
  TypeOK /\ SlotIsClaimed /\ OldOnesAreStopped /\ [Next]_vars => OldOnesAreStopped'
<1> USE DEF vars, slotVars, queueVars, bridgeVars
<1> SUFFICES ASSUME TypeOK, SlotIsClaimed, OldOnesAreStopped, [Next]_vars,
                    NEW d \in Sessions,
                    phase'[d] \in {"superseding", "reading", "sending"}, active' # d
             PROVE  d \in signalled' \/ \E t \in Sessions : previous'[t] = d
  BY DEF OldOnesAreStopped
<1>1. ASSUME NEW s \in Sessions, Claim(s)
      PROVE  \E t \in Sessions : previous'[t] = d \/ d \in signalled'
  <2>1. /\ phase[s] = "claiming" /\ active' = s /\ signalled' = signalled
        /\ previous' = [previous EXCEPT ![s] = active] /\ phase' = [phase EXCEPT ![s] = "superseding"]
    BY <1>1 DEF Claim
  <2>2. d # s /\ phase[d] \in {"superseding", "reading", "sending"}
    BY <2>1 DEF TypeOK
  <2>3. CASE active = d
    BY <2>1, <2>3 DEF TypeOK
  <2>4. CASE active # d
    <3>1. d \in signalled \/ \E t \in Sessions : previous[t] = d
      BY <2>2, <2>4 DEF OldOnesAreStopped
    <3>2. previous[s] = NoSession
      BY <2>1 DEF SlotIsClaimed
    <3> QED
      BY <2>1, <3>1, <3>2 DEF TypeOK
  <2> QED
    BY <2>3, <2>4
<1>2. ASSUME NEW s \in Sessions, Supersede(s)
      PROVE  d \in signalled' \/ \E t \in Sessions : previous'[t] = d
  <2>1. /\ phase[s] = "superseding" /\ active' = active
        /\ signalled' = signalled \cup ({previous[s]} \ {NoSession})
        /\ previous' = [previous EXCEPT ![s] = NoSession]
        /\ phase' = [phase EXCEPT ![s] = "reading"]
    BY <1>2 DEF Supersede, Signal
  <2>2. phase[d] \in {"superseding", "reading", "sending"}
    BY <2>1 DEF TypeOK
  <2>3. d \in signalled \/ \E t \in Sessions : previous[t] = d
    BY <2>1, <2>2 DEF OldOnesAreStopped
  <2> QED
    BY <2>1, <2>3 DEF TypeOK
<1>3. ASSUME \A s \in Sessions : ~Claim(s) /\ ~Supersede(s)
      PROVE  d \in signalled' \/ \E t \in Sessions : previous'[t] = d
  <2>1. UNCHANGED slotVars
    BY <1>3 DEF Next, Claims, Accept, Read, Superseded, StopReading, Dispatch, DispatchQuiet,
       DispatchFirstPoll, DispatchSia, SendReady, SendClosed, ReceiverFails, TakeEvent,
       TakeReady, TakeClosed, TakeSia, AskPanel, QueryReturns, BridgeStops
  <2>2. phase[d] \in {"superseding", "reading", "sending"}
    <3>1. ASSUME NEW s \in Sessions,
                 \/ Accept(s) \/ Read(s) \/ Superseded(s) \/ StopReading(s)
                 \/ SendClosed(s)
          PROVE  phase[d] \in {"superseding", "reading", "sending"}
      BY <3>1 DEF Accept, AcceptedPhase, Read, Superseded, StopReading, LeaveLoop, SendClosed,
         TypeOK
    <3>2. ASSUME NEW s \in Sessions, Dispatch(s) \/ SendReady(s)
          PROVE  phase[d] \in {"superseding", "reading", "sending"}
      BY <3>2 DEF Dispatch, DispatchQuiet, DispatchFirstPoll, DispatchSia, DropSia, SendReady,
         LeaveLoop, TypeOK
    <3>3. CASE UNCHANGED phase
      BY <3>3
    <3> QED
      BY <1>3, <3>1, <3>2, <3>3 DEF Next, Claims, ReceiverFails, TakeEvent, TakeReady,
         TakeClosed, TakeSia, AskPanel, QueryReturns, BridgeStops
  <2> QED
    BY <2>1, <2>2 DEF OldOnesAreStopped
<1> QED
  BY <1>1, <1>2, <1>3

\* A session waits to send its Ready once, and is not known to the bridge before
\* (session.rs dispatch).
LEMMA ReadyStep ==
  TypeOK /\ ReadySentOnce /\ [Next]_vars => ReadySentOnce'
<1> USE DEF vars, slotVars, queueVars, bridgeVars
<1> SUFFICES ASSUME TypeOK, ReadySentOnce, [Next]_vars PROVE ReadySentOnce'
  OBVIOUS
<1>1. ASSUME NEW s \in Sessions, DispatchFirstPoll(s) PROVE ReadySentOnce'
  <2>1. /\ s \notin ready /\ ready' = ready \cup {s} /\ phase' = [phase EXCEPT ![s] = "sending"]
        /\ UNCHANGED <<events, link, asking>>
    BY <1>1 DEF DispatchFirstPoll
  <2>2. link # s /\ asking # s /\ ~Queued("ready", s)
    BY <2>1 DEF ReadySentOnce
  <2> QED
    BY <2>1, <2>2 DEF ReadySentOnce, Queued, TypeOK
<1>2. ASSUME NEW s \in Sessions, DispatchSia(s) PROVE ReadySentOnce'
  <2>1. UNCHANGED <<phase, ready, link, asking>> /\ (events' = events \/ Push("sia", s))
    BY <1>2 DEF DispatchSia, DropSia
  <2>2. \A d \in Sessions : Queued("ready", d)' => Queued("ready", d)
    <3>1. CASE events' = events
      BY <3>1 DEF Queued
    <3>2. CASE Push("sia", s)
      BY <3>2, QueuePush DEF Queued
    <3> QED
      BY <2>1, <3>1, <3>2
  <2> QED
    BY <2>1, <2>2 DEF ReadySentOnce
<1>3. ASSUME NEW s \in Sessions, SendReady(s) PROVE ReadySentOnce'
  <2>1. /\ phase[s] = "sending" /\ s \in ready
        /\ UNCHANGED <<ready, link, asking>> /\ (events' = events \/ Push("ready", s))
        /\ \A d \in Sessions \ {s} : phase'[d] = phase[d]
        /\ phase'[s] # "sending"
    BY <1>3 DEF SendReady, LeaveLoop, TypeOK, ReadySentOnce
  <2>2. \A d \in Sessions : Queued("ready", d)' => Queued("ready", d) \/ d = s
    <3>1. CASE events' = events
      BY <3>1 DEF Queued
    <3>2. CASE Push("ready", s)
      BY <3>2, QueuePush DEF Queued
    <3> QED
      BY <2>1, <3>1, <3>2
  <2> QED
    BY <2>1, <2>2 DEF ReadySentOnce
<1>4. ASSUME NEW s \in Sessions, SendClosed(s) PROVE ReadySentOnce'
  <2>1. /\ UNCHANGED <<ready, link, asking>> /\ (events' = events \/ Push("closed", s))
        /\ phase' = [phase EXCEPT ![s] = "done"]
    BY <1>4 DEF SendClosed
  <2>2. \A d \in Sessions : Queued("ready", d)' => Queued("ready", d)
    <3>1. CASE events' = events
      BY <3>1 DEF Queued
    <3>2. CASE Push("closed", s)
      BY <3>2, QueuePush DEF Queued
    <3> QED
      BY <2>1, <3>1, <3>2
  <2> QED
    BY <2>1, <2>2 DEF ReadySentOnce, TypeOK
<1>5. CASE TakeEvent
  <2>1. UNCHANGED <<phase, ready>> /\ events # <<>> /\ events' = Tail(events)
    BY <1>5 DEF TakeEvent, TakeReady, TakeClosed, TakeSia
  <2>2. \A d \in Sessions : Queued("ready", d)' => Queued("ready", d)
    BY <2>1, QueueTake DEF Queued
  <2>3. \A d \in Sessions : link' = d \/ asking' = d => link = d \/ asking = d \/ Queued("ready", d)
    BY <1>5, <2>1, QueueTake DEF TakeEvent, TakeReady, TakeClosed, TakeSia, IsCurrent, Queued,
       Listening
  <2> QED
    BY <2>1, <2>2, <2>3 DEF ReadySentOnce
<1>6. ASSUME NEW s \in Sessions,
             \/ Accept(s) \/ Claim(s) \/ Supersede(s) \/ Read(s) \/ Superseded(s)
             \/ StopReading(s) \/ DispatchQuiet(s)
      PROVE  ReadySentOnce'
  <2>1. UNCHANGED <<ready, events, link, asking>>
    BY <1>6 DEF Accept, Claim, Supersede, Read, Superseded, StopReading, DispatchQuiet
  <2>2. \A d \in Sessions : phase'[d] = "sending" => phase[d] = "sending"
    BY <1>6 DEF Accept, AcceptedPhase, Claim, Supersede, Read, Superseded, StopReading,
       LeaveLoop, DispatchQuiet, TypeOK
  <2> QED
    BY <2>1, <2>2 DEF ReadySentOnce, Queued
<1>7. CASE AskPanel \/ QueryReturns \/ ReceiverFails \/ BridgeStops \/ UNCHANGED vars
  <2>1. UNCHANGED <<phase, ready, events, link>> /\ asking' \in {asking, link, NoSession}
    BY <1>7 DEF AskPanel, QueryReturns, ReceiverFails, BridgeStops
  <2> QED
    BY <2>1 DEF ReadySentOnce, Queued
<1> QED
  BY <1>1, <1>2, <1>3, <1>4, <1>5, <1>6, <1>7 DEF Next, Claims, Dispatch

\* The end of a connection's task is the end, and the bridge does not come back.
LEMMA DoneForGood ==
  ASSUME TypeOK, [Next]_vars, NEW d \in Sessions
  PROVE  /\ phase[d] = "done" => phase'[d] = "done"
         /\ phase'[d] = "done" => phase[d] = "done" \/ SendClosed(d)
         /\ bridge' = "running" => bridge = "running"
<1> USE DEF vars, slotVars, queueVars, bridgeVars
<1>1. ASSUME NEW s \in Sessions,
             \/ Accept(s) \/ Claim(s) \/ Supersede(s) \/ Read(s) \/ Superseded(s)
             \/ StopReading(s)
      PROVE  phase[d] = "done" <=> phase'[d] = "done"
  BY <1>1 DEF Accept, AcceptedPhase, Claim, Supersede, Read, Superseded, StopReading,
     LeaveLoop, TypeOK
<1>2. ASSUME NEW s \in Sessions, Dispatch(s) \/ SendReady(s)
      PROVE  phase[d] = "done" <=> phase'[d] = "done"
  BY <1>2 DEF Dispatch, DispatchQuiet, DispatchFirstPoll, DispatchSia, DropSia, SendReady,
     LeaveLoop, TypeOK
<1>3. ASSUME NEW s \in Sessions, SendClosed(s)
      PROVE  /\ phase[d] = "done" => phase'[d] = "done"
             /\ phase'[d] = "done" => phase[d] = "done" \/ d = s
  BY <1>3 DEF SendClosed, TypeOK
<1>4. CASE TakeEvent \/ ReceiverFails \/ AskPanel \/ QueryReturns \/ BridgeStops
  BY <1>4 DEF TakeEvent, TakeReady, TakeClosed, TakeSia, ReceiverFails, AskPanel,
     QueryReturns, BridgeStops
<1>5. bridge' = "running" => bridge = "running"
  BY DEF Next, Claims, Accept, Claim, Supersede, Read, Superseded, StopReading, Dispatch,
     DispatchQuiet, DispatchFirstPoll, DispatchSia, SendReady, SendClosed, ReceiverFails,
     TakeEvent, TakeReady, TakeClosed, TakeSia, AskPanel, QueryReturns, BridgeStops
<1> QED
  BY <1>1, <1>2, <1>3, <1>4, <1>5 DEF Next, Claims

\* What a step does to the queue: nothing, an event at its end, or one from its
\* front, which only the bridge takes.
LEMMA QueueSteps ==
  ASSUME TypeOK, [Next]_vars
  PROVE  \/ events' = events /\ link' = link
         \/ \E s \in Sessions : Push("sia", s) /\ link' = link
         \/ \E s \in Sessions : /\ Push("ready", s) /\ link' = link
                                /\ phase[s] = "sending" /\ phase' = [phase EXCEPT ![s] = "reading"]
         \/ \E s \in Sessions : Push("closed", s) /\ SendClosed(s) /\ link' = link
         \/ TakeEvent
<1> USE DEF vars, slotVars, queueVars, bridgeVars
<1>1. ASSUME NEW s \in Sessions,
             \/ Accept(s) \/ Claim(s) \/ Supersede(s) \/ Read(s) \/ Superseded(s)
             \/ StopReading(s) \/ DispatchQuiet(s) \/ DispatchFirstPoll(s)
      PROVE  events' = events /\ link' = link
  BY <1>1 DEF Accept, Claim, Supersede, Read, Superseded, StopReading, DispatchQuiet,
     DispatchFirstPoll
<1>2. ASSUME NEW s \in Sessions, DispatchSia(s)
      PROVE  (events' = events \/ Push("sia", s)) /\ link' = link
  BY <1>2 DEF DispatchSia
<1>3. ASSUME NEW s \in Sessions, SendReady(s)
      PROVE  /\ link' = link
             /\ \/ events' = events
                \/ /\ Push("ready", s)
                   /\ phase[s] = "sending" /\ phase' = [phase EXCEPT ![s] = "reading"]
  BY <1>3 DEF SendReady
<1>4. ASSUME NEW s \in Sessions, SendClosed(s)
      PROVE  (events' = events \/ Push("closed", s)) /\ link' = link
  BY <1>4 DEF SendClosed
<1>5. CASE ReceiverFails \/ AskPanel \/ QueryReturns \/ BridgeStops
  BY <1>5 DEF ReceiverFails, AskPanel, QueryReturns, BridgeStops
<1> QED
  BY <1>1, <1>2, <1>3, <1>4, <1>5 DEF Next, Claims, Dispatch

\* Whoever is said to be closed has ended (session.rs run_session).
LEMMA ClosedStep ==
  TypeOK /\ ClosedIsLast /\ [Next]_vars => ClosedIsLast'
<1> SUFFICES ASSUME TypeOK, ClosedIsLast, [Next]_vars,
                    NEW i \in DOMAIN events', events'[i].kind = "closed"
             PROVE  phase'[events'[i].of] = "done"
  BY DEF ClosedIsLast
<1>0. ASSUME NEW j \in DOMAIN events PROVE events[j].of \in Sessions
  <2>1. events[j] \in Event
    BY DEF TypeOK
  <2> QED
    BY <2>1 DEF Event
<1>1. CASE events' = events
  BY <1>0, <1>1, DoneForGood DEF ClosedIsLast
<1>2. ASSUME NEW s \in Sessions, NEW k \in {"sia", "ready"}, Push(k, s)
      PROVE  phase'[events'[i].of] = "done"
  <2>1. \/ i \in DOMAIN events
        \/ events'[i].kind = k
    BY <1>2, QueuePush
  <2>2. i \in DOMAIN events /\ events'[i] = events[i]
    BY <1>2, <2>1, QueuePush
  <2> QED
    BY <1>0, <2>2, DoneForGood DEF ClosedIsLast
<1>3. ASSUME NEW s \in Sessions, Push("closed", s), SendClosed(s)
      PROVE  phase'[events'[i].of] = "done"
  <2>1. CASE i \in DOMAIN events /\ events'[i] = events[i]
    BY <1>0, <2>1, DoneForGood DEF ClosedIsLast
  <2>2. CASE events'[i].of = s
    BY <1>3, <2>2 DEF SendClosed, TypeOK
  <2> QED
    BY <1>3, <2>1, <2>2, QueuePush
<1>4. CASE TakeEvent
  <2>1. events # <<>> /\ events' = Tail(events)
    BY <1>4 DEF TakeEvent, TakeReady, TakeClosed, TakeSia
  <2>2. i + 1 \in DOMAIN events /\ events'[i] = events[i + 1]
    BY <2>1, QueueTake
  <2> QED
    BY <1>0, <2>2, DoneForGood DEF ClosedIsLast
<1> QED
  BY <1>1, <1>2, <1>3, <1>4, QueueSteps

\* The end of a session is in the queue, behind its Ready, for as long as the
\* bridge has the session or is about to (session.rs run_session, bridge.rs
\* on_link_event).
LEMMA DeadLinkStep ==
  TypeOK /\ DeadLinkIsReported /\ [Next]_vars => DeadLinkIsReported'
<1> SUFFICES ASSUME TypeOK, DeadLinkIsReported, [Next]_vars,
                    NEW d \in Sessions, phase'[d] = "done", bridge' = "running"
             PROVE  /\ link' = d => Queued("closed", d)'
                    /\ \A i \in DOMAIN events' :
                         events'[i] = [kind |-> "ready", of |-> d] =>
                           \E j \in DOMAIN events' :
                             j > i /\ events'[j].kind = "closed" /\ events'[j].of = d
  BY DEF DeadLinkIsReported
<1>0. bridge = "running"
  BY DoneForGood
<1>1. ASSUME phase[d] = "done"
      PROVE  /\ link = d => Queued("closed", d)
             /\ \A i \in DOMAIN events :
                  events[i] = [kind |-> "ready", of |-> d] =>
                    \E j \in DOMAIN events :
                      j > i /\ events[j].kind = "closed" /\ events[j].of = d
  BY <1>0, <1>1 DEF DeadLinkIsReported
<1>2. CASE SendClosed(d)
  <2>1. Push("closed", d)
    BY <1>0, <1>2 DEF SendClosed
  <2>2. \A i \in DOMAIN events' : i < Len(events) + 1 \/ i = Len(events) + 1
    BY <2>1, QueuePush
  <2> QED
    BY <2>1, <2>2, QueuePush DEF Queued
<1>3. ASSUME phase[d] = "done", events' = events, link' = link
      PROVE  /\ link' = d => Queued("closed", d)'
             /\ \A i \in DOMAIN events' :
                  events'[i] = [kind |-> "ready", of |-> d] =>
                    \E j \in DOMAIN events' :
                      j > i /\ events'[j].kind = "closed" /\ events'[j].of = d
  BY <1>1, <1>3 DEF Queued
<1>4. ASSUME phase[d] = "done", link' = link, NEW s \in Sessions,
             NEW k \in {"ready", "sia", "closed"}, Push(k, s), k = "ready" => s # d
      PROVE  /\ link' = d => Queued("closed", d)'
             /\ \A i \in DOMAIN events' :
                  events'[i] = [kind |-> "ready", of |-> d] =>
                    \E j \in DOMAIN events' :
                      j > i /\ events'[j].kind = "closed" /\ events'[j].of = d
  <2>1. link' = d => Queued("closed", d)'
    BY <1>1, <1>4, QueuePush DEF Queued
  <2>2. ASSUME NEW i \in DOMAIN events', events'[i] = [kind |-> "ready", of |-> d]
        PROVE  \E j \in DOMAIN events' :
                 j > i /\ events'[j].kind = "closed" /\ events'[j].of = d
    <3>1. i \in DOMAIN events /\ events[i] = [kind |-> "ready", of |-> d]
      BY <1>4, <2>2, QueuePush
    <3>2. PICK j \in DOMAIN events : j > i /\ events[j].kind = "closed" /\ events[j].of = d
      BY <1>1, <1>4, <3>1
    <3> QED
      BY <1>4, <3>2, QueuePush
  <2> QED
    BY <2>1, <2>2
<1>5. ASSUME phase[d] = "done", TakeEvent
      PROVE  /\ link' = d => Queued("closed", d)'
             /\ \A i \in DOMAIN events' :
                  events'[i] = [kind |-> "ready", of |-> d] =>
                    \E j \in DOMAIN events' :
                      j > i /\ events'[j].kind = "closed" /\ events'[j].of = d
  <2>1. events # <<>> /\ events' = Tail(events)
    BY <1>5 DEF TakeEvent, TakeReady, TakeClosed, TakeSia
  <2>2. ASSUME NEW i \in DOMAIN events', events'[i] = [kind |-> "ready", of |-> d]
        PROVE  \E j \in DOMAIN events' :
                 j > i /\ events'[j].kind = "closed" /\ events'[j].of = d
    <3>1. /\ i + 1 \in DOMAIN events /\ events[i + 1] = [kind |-> "ready", of |-> d]
          /\ i \in Nat /\ i >= 1
      BY <2>1, <2>2, QueueTake DEF TypeOK
    <3>2. PICK j \in DOMAIN events :
            j > i + 1 /\ events[j].kind = "closed" /\ events[j].of = d
      BY <1>1, <1>5, <3>1
    <3>3. j - 1 \in DOMAIN events' /\ events'[j - 1] = events[j] /\ j - 1 > i
      BY <2>1, <3>1, <3>2, QueueTake
    <3> QED
      BY <3>2, <3>3
  <2>3. ASSUME link' = d PROVE Queued("closed", d)'
    <3>1. CASE TakeReady /\ Head(events).of = d
      <4>1. events[1].kind = "ready" /\ events[1].of = d /\ events[1] \in Event
        BY <2>1, <3>1, QueueTake DEF TakeReady
      <4>2. events[1] = [kind |-> "ready", of |-> d] /\ 1 \in DOMAIN events
        BY <2>1, <4>1, QueueTake DEF Event
      <4>3. PICK j \in DOMAIN events : j > 1 /\ events[j].kind = "closed" /\ events[j].of = d
        BY <1>1, <1>5, <4>2
      <4> QED
        BY <2>1, <4>3, QueueTake DEF Queued
    <3>2. CASE link = d /\ ~(Head(events).kind = "closed" /\ Head(events).of = d)
      <4>1. PICK j \in DOMAIN events : events[j].kind = "closed" /\ events[j].of = d
        BY <1>1, <1>5, <3>2 DEF Queued
      <4>2. j > 1
        BY <2>1, <3>2, <4>1, QueueTake
      <4> QED
        BY <2>1, <4>1, <4>2, QueueTake DEF Queued
    <3>3. d # NoSession
      OBVIOUS
    <3> QED
      BY <1>5, <2>3, <3>1, <3>2, <3>3 DEF TakeEvent, TakeReady, TakeClosed, TakeSia, IsCurrent
  <2> QED
    BY <2>2, <2>3
<1>6. phase[d] = "done" \/ SendClosed(d)
  BY DoneForGood
<1>7. \A s \in Sessions : phase[s] = "sending" /\ phase[d] = "done" => s # d
  OBVIOUS
<1> QED
  BY <1>2, <1>3, <1>4, <1>5, <1>6, <1>7, QueueSteps

\* Every step preserves the inductive invariant.
LEMMA LinkStep == LinkInv /\ [Next]_vars => LinkInv'
<1> SUFFICES ASSUME LinkInv, [Next]_vars PROVE LinkInv'
  OBVIOUS
<1>1. TypeOK' /\ SlotIsClaimed' /\ ReadySentOnce' /\ ClosedIsLast'
  BY LinkTypeStep, SlotStep, ReadyStep, ClosedStep DEF LinkInv
<1>2. DeadLinkIsReported' /\ OldOnesAreStopped'
  BY DeadLinkStep, OldOnesStep DEF LinkInv
<1>3. TypeOK'
  BY LinkTypeStep DEF LinkInv
<1>4. StrayStopsNobody'
  BY <1>1, <1>3 DEF TypeOK, SlotIsClaimed, StrayStopsNobody
<1>5. QueryNeverWaitsOnQueue'
  BY <1>1, <1>3 DEF TypeOK, ReadySentOnce, QueryNeverWaitsOnQueue
<1> QED
  BY <1>1, <1>2, <1>4, <1>5 DEF LinkInv

\* The inductive invariant (session.rs run_session, claim, dispatch; bridge.rs
\* on_link_event).
THEOREM LinkInvariance == Spec => []LinkInv
  BY LinkInit, LinkStep, PTL DEF Spec

\* A dead link is always reported, whatever the queue (session.rs run_session).
THEOREM DeadLinksReported == Spec => []DeadLinkIsReported
<1>1. LinkInv => DeadLinkIsReported
  BY DEF LinkInv
<1> QED
  BY <1>1, LinkInvariance, PTL

\* The bridge never waits for a session that waits for it (session.rs dispatch,
\* bridge.rs refresh).
THEOREM NoQueryOnQueue == Spec => []QueryNeverWaitsOnQueue
<1>1. LinkInv => QueryNeverWaitsOnQueue
  BY DEF LinkInv
<1> QED
  BY <1>1, LinkInvariance, PTL

\* Of all connections at most the one in the slot goes on (session.rs claim).
THEOREM OneInCharge == Spec => []OldOnesAreStopped
<1>1. LinkInv => OldOnesAreStopped
  BY DEF LinkInv
<1> QED
  BY <1>1, LinkInvariance, PTL

\* A connection that was never read from does not take the slot (session.rs
\* run_receiver).
THEOREM StraysAreHarmless == Spec => []StrayStopsNobody
<1>1. LinkInv => StrayStopsNobody
  BY DEF LinkInv
<1> QED
  BY <1>1, LinkInvariance, PTL

\* The link is given up for none only when its own session has ended: a Closed is
\* about the session it names (bridge.rs on_link_event).
THEOREM NoStaleClosed == Spec => LinkDroppedOnlyWhenClosed
<1>1. LinkInv /\ [Next]_vars =>
        (link # NoSession /\ link' = NoSession => phase[link] = "done")
  <2> SUFFICES ASSUME LinkInv, [Next]_vars, link # NoSession, link' = NoSession
               PROVE  phase[link] = "done"
    OBVIOUS
  <2>0. TypeOK /\ ClosedIsLast
    BY DEF LinkInv
  <2>1. TakeEvent
    BY QueueSteps, <2>0
  <2>2. events # <<>> /\ events' = Tail(events)
    BY <2>1 DEF TakeEvent, TakeReady, TakeClosed, TakeSia
  <2>3. Head(events).of \in Sessions
    BY <2>0, <2>2, QueueTake DEF Event
  <2>4. Head(events).kind = "closed" /\ link = Head(events).of
    BY <2>1, <2>3 DEF TakeEvent, TakeReady, TakeClosed, TakeSia, IsCurrent
  <2> QED
    BY <2>0, <2>2, <2>4, QueueTake DEF ClosedIsLast
<1> QED
  BY <1>1, LinkInvariance, PTL DEF Spec, LinkDroppedOnlyWhenClosed

-----------------------------------------------------------------------------
(***************************************************************************)
(* PanelLink implements LinkService.                                       *)
(*                                                                         *)
(* A step of a connection that sends Ready or Closed is one by which the   *)
(* session comes up or ends; the bridge's steps are those of the service.  *)
(* What has been taken of a session is what is no longer in the queue, so  *)
(* Ready and Closed must be in it at most once (SaidOnce), and the bridge  *)
(* must not stop while a connection has something to say (StoppedLast).    *)
(***************************************************************************)

\* Ready and Closed of a session are in the queue at most once.
SaidOnce ==
  \A i, j \in DOMAIN events :
    events[i].kind = events[j].kind /\ events[i].of = events[j].of /\ events[i].kind # "sia"
      => i = j

\* The bridge stops behind the last connection.
StoppedLast ==
  bridge = "stopped" =>
    receiver = "stopped" /\ \A s \in Sessions : phase[s] \in {"none", "done"}

\* The inductive invariant behind the refinement (session.rs run_session, dispatch;
\* bridge.rs run).
LinkServiceInv == LinkInv /\ SaidOnce /\ StoppedLast

\* Each session says Ready once and Closed once (session.rs dispatch, run_session).
LEMMA SaidOnceStep == LinkInv /\ SaidOnce /\ [Next]_vars => SaidOnce'
<1> SUFFICES ASSUME LinkInv, SaidOnce, [Next]_vars PROVE SaidOnce'
  OBVIOUS
<1>0. TypeOK /\ ReadySentOnce /\ ClosedIsLast
  BY DEF LinkInv
<1>1. CASE events' = events
  BY <1>1 DEF SaidOnce
<1>2. ASSUME NEW s \in Sessions, NEW k \in {"sia", "ready", "closed"}, Push(k, s),
             k = "sia" \/ ~Queued(k, s)
      PROVE  SaidOnce'
  <2>1. \A i \in DOMAIN events :
          i \in DOMAIN events' /\ events'[i] = events[i] /\ i < Len(events) + 1
    BY <1>0, <1>2, QueuePush
  <2>2. \A i \in DOMAIN events' :
          \/ i \in DOMAIN events
          \/ i = Len(events) + 1 /\ events'[i].kind = k /\ events'[i].of = s
    BY <1>0, <1>2, QueuePush
  <2>3. \A i \in DOMAIN events : k = "sia" \/ ~(events[i].kind = k /\ events[i].of = s)
    BY <1>2 DEF Queued
  <2> QED
    BY <2>1, <2>2, <2>3 DEF SaidOnce
<1>3. ASSUME NEW s \in Sessions, phase[s] = "sending" PROVE ~Queued("ready", s)
  BY <1>0, <1>3 DEF ReadySentOnce
<1>4. ASSUME NEW s \in Sessions, SendClosed(s) PROVE ~Queued("closed", s)
  BY <1>0, <1>4 DEF SendClosed, ClosedIsLast, Queued
<1>5. CASE TakeEvent
  <2>1. events # <<>> /\ events' = Tail(events)
    BY <1>5 DEF TakeEvent, TakeReady, TakeClosed, TakeSia
  <2>2. \A i \in DOMAIN events' : i \in Nat /\ i + 1 \in DOMAIN events /\ events'[i] = events[i + 1]
    BY <1>0, <2>1, QueueTake DEF TypeOK
  <2> QED
    BY <2>2 DEF SaidOnce
<1> QED
  BY <1>0, <1>1, <1>2, <1>3, <1>4, <1>5, QueueSteps

\* recv() returns None only when every sender is gone (bridge.rs run).
LEMMA StoppedStep == TypeOK /\ StoppedLast /\ [Next]_vars => StoppedLast'
<1> USE DEF vars, slotVars, queueVars, bridgeVars
<1> SUFFICES ASSUME TypeOK, StoppedLast, [Next]_vars PROVE StoppedLast'
  OBVIOUS
<1>1. CASE BridgeStops
  BY <1>1 DEF BridgeStops, StoppedLast
<1>2. CASE bridge = "stopped" /\ ~BridgeStops
  <2>1. receiver = "stopped" /\ \A s \in Sessions : phase[s] \in {"none", "done"}
    BY <1>2 DEF StoppedLast
  <2>2. \A s \in Sessions :
          ~(\/ Accept(s) \/ Claims(s) \/ Read(s) \/ Superseded(s) \/ StopReading(s)
            \/ Dispatch(s) \/ SendReady(s) \/ SendClosed(s))
    BY <2>1 DEF Accept, Claims, Claim, Supersede, Read, Superseded, StopReading, Dispatch,
       DispatchQuiet, DispatchFirstPoll, DispatchSia, SendReady, SendClosed
  <2>3. UNCHANGED <<phase, receiver>>
    BY <1>2, <2>1, <2>2 DEF Next, ReceiverFails, TakeEvent, TakeReady, TakeClosed, TakeSia,
       AskPanel, QueryReturns
  <2> QED
    BY <2>1, <2>3 DEF StoppedLast
<1>3. CASE bridge # "stopped" /\ ~BridgeStops
  <2>1. bridge' = bridge
    BY <1>3 DEF Next, Claims, Accept, Claim, Supersede, Read, Superseded, StopReading, Dispatch,
       DispatchQuiet, DispatchFirstPoll, DispatchSia, SendReady, SendClosed, ReceiverFails,
       TakeEvent, TakeReady, TakeClosed, TakeSia, AskPanel, QueryReturns
  <2> QED
    BY <1>3, <2>1 DEF StoppedLast
<1> QED
  BY <1>1, <1>2, <1>3

\* Before the first connection.
LEMMA ServiceStarts == Init => LinkServiceInv /\ Service!Init
<1> SUFFICES ASSUME Init PROVE LinkServiceInv /\ Service!Init
  OBVIOUS
<1>1. SaidOnce /\ StoppedLast
  BY DEF Init, SaidOnce, StoppedLast
<1>2. Up = {} /\ Down = {}
  BY DEF Init, Up, Down
<1>3. Known = {} /\ Gone = {}
  BY <1>2 DEF Known, Gone
<1>4. link = NoSession /\ asking = NoSession
  BY DEF Init
<1> QED
  BY <1>1, <1>2, <1>3, <1>4, LinkInit DEF LinkServiceInv, Service!Init

\* Only by sending Ready or Closed does a session come up or end.
LEMMA OthersAreQuiet ==
  ASSUME LinkInv, [Next]_vars, \A s \in Sessions : ~SendReady(s) /\ ~SendClosed(s)
  PROVE  Up' = Up /\ Down' = Down
<1> USE DEF vars, slotVars, queueVars, bridgeVars
<1>0. TypeOK /\ ReadySentOnce
  BY DEF LinkInv
<1>1. ASSUME NEW d \in Sessions
      PROVE  (d \in ready' /\ phase'[d] # "sending") <=> (d \in ready /\ phase[d] # "sending")
  <2>1. ASSUME NEW s \in Sessions,
               \/ Accept(s) \/ Claims(s) \/ Read(s) \/ Superseded(s) \/ StopReading(s)
               \/ DispatchQuiet(s) \/ DispatchSia(s)
        PROVE  ready' = ready /\ (phase'[d] = "sending" <=> phase[d] = "sending")
    BY <1>0, <2>1 DEF Accept, AcceptedPhase, Claims, Claim, Supersede, Read, Superseded,
       StopReading, LeaveLoop, DispatchQuiet, DispatchSia, DropSia, TypeOK
  <2>2. ASSUME NEW s \in Sessions, DispatchFirstPoll(s)
        PROVE  (d \in ready' /\ phase'[d] # "sending") <=> (d \in ready /\ phase[d] # "sending")
    BY <1>0, <2>2 DEF DispatchFirstPoll, TypeOK
  <2>3. CASE ReceiverFails \/ TakeEvent \/ AskPanel \/ QueryReturns \/ BridgeStops \/ UNCHANGED vars
    BY <2>3 DEF ReceiverFails, TakeEvent, TakeReady, TakeClosed, TakeSia, AskPanel,
       QueryReturns, BridgeStops
  <2> QED
    BY <2>1, <2>2, <2>3 DEF Next, Dispatch
<1>2. \A d \in Sessions : phase'[d] = "done" <=> phase[d] = "done"
  BY <1>0, DoneForGood
<1>3. TypeOK'
  BY <1>0, LinkTypeStep
<1> QED
  BY <1>0, <1>1, <1>2, <1>3 DEF Up, Down, TypeOK

\* An event at the end of the queue is queued, and no other is by it.
LEMMA QueuedThen ==
  ASSUME TypeOK, NEW s \in Sessions, NEW k \in {"ready", "sia", "closed"}, Push(k, s)
  PROVE  \A l \in {"ready", "sia", "closed"}, d \in Sessions :
           Queued(l, d)' <=> Queued(l, d) \/ (l = k /\ d = s)
<1> TAKE l \in {"ready", "sia", "closed"}, d \in Sessions
<1>1. ASSUME Queued(l, d) PROVE Queued(l, d)'
  BY <1>1, QueuePush DEF Queued
<1>2. ASSUME l = k, d = s PROVE Queued(l, d)'
  BY <1>2, QueuePush DEF Queued
<1>3. ASSUME Queued(l, d)' PROVE Queued(l, d) \/ (l = k /\ d = s)
  BY <1>3, QueuePush DEF Queued
<1> QED
  BY <1>1, <1>2, <1>3

\* The event taken is no longer queued, any other still is.
LEMMA QueuedBut ==
  ASSUME TypeOK, SaidOnce, events # <<>>, events' = Tail(events)
  PROVE  \A l \in {"ready", "closed"}, d \in Sessions :
           Queued(l, d)' <=> Queued(l, d) /\ ~(Head(events).kind = l /\ Head(events).of = d)
<1> TAKE l \in {"ready", "closed"}, d \in Sessions
<1>1. ASSUME Queued(l, d), ~(Head(events).kind = l /\ Head(events).of = d)
      PROVE  Queued(l, d)'
  <2>1. PICK i \in DOMAIN events : events[i].kind = l /\ events[i].of = d
    BY <1>1 DEF Queued
  <2>2. i > 1
    BY <1>1, <2>1, QueueTake
  <2> QED
    BY <2>1, <2>2, QueueTake DEF Queued
<1>2. ASSUME Queued(l, d)'
      PROVE  Queued(l, d) /\ ~(Head(events).kind = l /\ Head(events).of = d)
  <2>1. PICK i \in DOMAIN events' : events'[i].kind = l /\ events'[i].of = d
    BY <1>2 DEF Queued
  <2>2. /\ i + 1 \in DOMAIN events /\ events[i + 1].kind = l /\ events[i + 1].of = d
        /\ i \in Nat /\ i >= 1
    BY <2>1, QueueTake DEF TypeOK
  <2>3. 1 \in DOMAIN events /\ Head(events) = events[1] /\ i + 1 # 1
    BY <2>2, QueueTake
  <2> QED
    BY <2>2, <2>3 DEF Queued, SaidOnce
<1> QED
  BY <1>1, <1>2

\* Ready is sent: the session comes up (session.rs dispatch).
LEMMA ReadyIsComeUp ==
  ASSUME LinkServiceInv, NEW s \in Sessions, SendReady(s)
  PROVE  Service!ComeUp(s)
<1> USE DEF vars, slotVars, queueVars, bridgeVars
<1>1. TypeOK /\ ReadySentOnce /\ StoppedLast
  BY DEF LinkServiceInv, LinkInv
<1>2. phase[s] = "sending" /\ bridge # "stopped"
  BY <1>1 DEF SendReady, StoppedLast
<1>3. /\ Push("ready", s) /\ phase' = [phase EXCEPT ![s] = "reading"]
      /\ UNCHANGED <<ready, link, asking>>
  BY <1>2 DEF SendReady
<1>4. s \in ready
  BY <1>1, <1>2 DEF ReadySentOnce
<1>5. s \notin Up /\ s \notin Down
  BY <1>2 DEF Up, Down
<1>6. Up' = Up \cup {s} /\ Down' = Down
  BY <1>1, <1>2, <1>3, <1>4 DEF Up, Down, TypeOK
<1>7. \A d \in Sessions : /\ Queued("ready", d)' <=> Queued("ready", d) \/ d = s
                          /\ Queued("closed", d)' <=> Queued("closed", d)
  BY <1>1, <1>3, QueuedThen
<1>8. Up \subseteq Sessions /\ Down \subseteq Sessions
  BY <1>1 DEF Up, Down, TypeOK
<1>9. Known' = Known /\ Gone' = Gone
  BY <1>5, <1>6, <1>7, <1>8 DEF Known, Gone
<1> QED
  BY <1>3, <1>5, <1>6, <1>9 DEF Service!ComeUp

\* Closed is sent: the session ends (session.rs run_session).
LEMMA ClosedIsEnd ==
  ASSUME LinkServiceInv, NEW s \in Sessions, SendClosed(s)
  PROVE  Service!End(s)
<1> USE DEF vars, slotVars, queueVars, bridgeVars
<1>1. TypeOK /\ StoppedLast
  BY DEF LinkServiceInv, LinkInv
<1>2. phase[s] = "closing" /\ bridge # "stopped"
  BY <1>1 DEF SendClosed, StoppedLast
<1>3. /\ Push("closed", s) /\ phase' = [phase EXCEPT ![s] = "done"]
      /\ UNCHANGED <<ready, link, asking>>
  BY <1>2 DEF SendClosed
<1>4. s \notin Down
  BY <1>2 DEF Down
<1>5. Up' = Up /\ Down' = Down \cup {s}
  BY <1>1, <1>2, <1>3 DEF Up, Down, TypeOK
<1>6. \A d \in Sessions : /\ Queued("closed", d)' <=> Queued("closed", d) \/ d = s
                          /\ Queued("ready", d)' <=> Queued("ready", d)
  BY <1>1, <1>3, QueuedThen
<1>7. Up \subseteq Sessions /\ Down \subseteq Sessions
  BY <1>1 DEF Up, Down, TypeOK
<1>8. Known' = Known /\ Gone' = Gone
  BY <1>4, <1>5, <1>6, <1>7 DEF Known, Gone
<1> QED
  BY <1>3, <1>4, <1>5, <1>8 DEF Service!End

\* The bridge takes an event: it learns of a session's start or end, or of an SIA
\* event, for which it may query its link (bridge.rs on_link_event, on_sia).
LEMMA TakingIsLearning ==
  ASSUME LinkServiceInv, [Next]_vars, TakeEvent
  PROVE  [Service!Next]_(Service!service)
<1> USE DEF vars, slotVars, queueVars, bridgeVars
<1>1. /\ TypeOK /\ ReadySentOnce /\ ClosedIsLast /\ DeadLinkIsReported /\ SaidOnce /\ StoppedLast
      /\ LinkInv
  BY DEF LinkServiceInv, LinkInv
<1>2. /\ events # <<>> /\ events' = Tail(events) /\ bridge = "running" /\ asking = NoSession
      /\ UNCHANGED <<phase, ready>>
  BY DEF TakeEvent, TakeReady, TakeClosed, TakeSia, Listening
<1>3. Up' = Up /\ Down' = Down /\ Up \subseteq Sessions /\ Down \subseteq Sessions
  BY <1>1, <1>2 DEF Up, Down, TypeOK
<1> DEFINE e == Head(events)
<1>4. e = events[1] /\ 1 \in DOMAIN events /\ e \in Event /\ e.of \in Sessions
  BY <1>1, <1>2, QueueTake DEF Event
<1>5. \A l \in {"ready", "closed"}, d \in Sessions :
        Queued(l, d)' <=> Queued(l, d) /\ ~(e.kind = l /\ e.of = d)
  BY <1>1, <1>2, QueuedBut
<1>6. \A l \in {"ready", "sia", "closed"} : e.kind = l => Queued(l, e.of)
  BY <1>4 DEF Queued
<1> HIDE DEF e
<1>7. CASE TakeReady
  <2>1. e.kind = "ready" /\ link' = e.of /\ asking' = e.of
    BY <1>7 DEF TakeReady, e
  <2>2. e.of \in Up
    BY <1>1, <1>4, <1>6, <2>1 DEF ReadySentOnce, Up
  <2>3. e.of \notin Known
    BY <1>6, <2>1 DEF Known
  <2>4. e.of \notin Gone
    <3>1. SUFFICES ASSUME phase[e.of] = "done" PROVE Queued("closed", e.of)
      BY DEF Gone, Down
    <3>2. e = [kind |-> "ready", of |-> e.of]
      BY <1>4, <2>1 DEF Event
    <3> QED
      BY <1>1, <1>2, <1>4, <3>1, <3>2 DEF DeadLinkIsReported, Queued
  <2>5. Known' = Known \cup {e.of}
    BY <1>3, <1>4, <1>5, <2>1, <2>2 DEF Known
  <2>6. Gone' = Gone
    BY <1>3, <1>5, <2>1 DEF Gone
  <2>7. Service!LearnUp(e.of)
    BY <1>2, <1>3, <2>1, <2>2, <2>3, <2>4, <2>5, <2>6 DEF Service!LearnUp
  <2> QED
    BY <1>4, <2>7 DEF Service!Next
<1>8. CASE TakeClosed
  <2>1. e.kind = "closed" /\ link' = (IF link = e.of THEN NoSession ELSE link) /\ asking' = asking
    BY <1>8 DEF TakeClosed, IsCurrent, e
  <2>2. phase[e.of] = "done" /\ e.of \in Down /\ e.of \notin Gone
    BY <1>1, <1>4, <1>6, <2>1 DEF ClosedIsLast, Down, Gone
  <2>3. ~Queued("ready", e.of)
    <3>1. SUFFICES ASSUME NEW i \in DOMAIN events, events[i].kind = "ready", events[i].of = e.of
                   PROVE  FALSE
      BY DEF Queued
    <3>2. events[i] \in Event
      BY <1>1 DEF TypeOK
    <3>3. events[i] = [kind |-> "ready", of |-> e.of]
      BY <3>1, <3>2 DEF Event
    <3>4. PICK j \in DOMAIN events : j > i /\ events[j].kind = "closed" /\ events[j].of = e.of
      BY <1>1, <1>2, <1>4, <2>2, <3>3 DEF DeadLinkIsReported
    <3>5. j = 1
      BY <1>1, <1>4, <2>1, <3>4 DEF SaidOnce
    <3> QED
      BY <1>1, <1>2, <3>4, <3>5, QueueTake
  <2>4. e.of \in Up => e.of \in Known
    BY <2>3 DEF Known
  <2>5. Gone' = Gone \cup {e.of}
    BY <1>3, <1>4, <1>5, <2>1, <2>2 DEF Gone
  <2>6. Known' = Known
    BY <1>3, <1>5, <2>1 DEF Known
  <2>7. Service!LearnEnd(e.of)
    BY <1>2, <1>3, <2>1, <2>2, <2>4, <2>5, <2>6 DEF Service!LearnEnd
  <2> QED
    BY <1>4, <2>7 DEF Service!Next
<1>9. CASE TakeSia
  <2>1. e.kind = "sia" /\ link' = link /\ (asking' = NoSession \/ asking' = link)
    BY <1>9 DEF TakeSia, e
  <2>2. Known' = Known /\ Gone' = Gone
    BY <1>3, <1>5, <2>1 DEF Known, Gone
  <2>3. CASE asking' = NoSession
    BY <1>2, <1>3, <2>1, <2>2, <2>3 DEF Service!service
  <2>4. CASE asking' # NoSession
    BY <1>2, <1>3, <2>1, <2>2, <2>4 DEF Service!Query, Service!Next
  <2> QED
    BY <2>3, <2>4
<1> QED
  BY <1>7, <1>8, <1>9 DEF TakeEvent

\* Every step of the connections and of the bridge is a step of the service, or none.
LEMMA LinkServiceStep ==
  LinkServiceInv /\ [Next]_vars => [Service!Next]_(Service!service)
<1> USE DEF vars, slotVars, queueVars, bridgeVars
<1> SUFFICES ASSUME LinkServiceInv, [Next]_vars PROVE [Service!Next]_(Service!service)
  OBVIOUS
<1>1. ASSUME NEW s \in Sessions, SendReady(s) PROVE [Service!Next]_(Service!service)
  BY <1>1, ReadyIsComeUp DEF Service!Next
<1>2. ASSUME NEW s \in Sessions, SendClosed(s) PROVE [Service!Next]_(Service!service)
  BY <1>2, ClosedIsEnd DEF Service!Next
<1>3. ASSUME \A s \in Sessions : ~SendReady(s) /\ ~SendClosed(s), ~TakeEvent
      PROVE  [Service!Next]_(Service!service)
  <2>0. LinkInv
    BY DEF LinkServiceInv
  <2>1. Up' = Up /\ Down' = Down
    BY <1>3, <2>0, OthersAreQuiet
  <2>2. CASE events' = events
    <3>1. Known' = Known /\ Gone' = Gone
      BY <2>1, <2>2 DEF Known, Gone, Queued
    <3>2. CASE AskPanel
      <4>1. Service!Query
        BY <2>1, <3>1, <3>2 DEF AskPanel, Listening, Service!Query
      <4> QED
        BY <4>1 DEF Service!Next
    <3>3. CASE QueryReturns
      <4>1. Service!QueryReturns
        BY <2>1, <3>1, <3>3 DEF QueryReturns, Service!QueryReturns
      <4> QED
        BY <4>1 DEF Service!Next
    <3>4. CASE ~AskPanel /\ ~QueryReturns
      <4>1. link' = link /\ asking' = asking
        BY <1>3, <3>4 DEF Next, Claims, Accept, Claim, Supersede, Read, Superseded, StopReading,
           Dispatch, DispatchQuiet, DispatchFirstPoll, DispatchSia, ReceiverFails, BridgeStops
      <4> QED
        BY <2>1, <3>1, <4>1 DEF Service!service
    <3> QED
      BY <3>2, <3>3, <3>4
  <2>3. ASSUME NEW s \in Sessions, DispatchSia(s), Push("sia", s)
        PROVE  [Service!Next]_(Service!service)
    <3>1. \A d \in Sessions : /\ Queued("ready", d)' <=> Queued("ready", d)
                              /\ Queued("closed", d)' <=> Queued("closed", d)
      BY <2>0, <2>3, QueuedThen DEF LinkInv
    <3>2. Up \subseteq Sessions /\ Down \subseteq Sessions
      BY <2>0 DEF Up, Down, LinkInv, TypeOK
    <3>3. Known' = Known /\ Gone' = Gone
      BY <2>1, <3>1, <3>2 DEF Known, Gone
    <3> QED
      BY <2>1, <2>3, <3>3 DEF DispatchSia, Service!service
  <2>4. events' = events \/ \E s \in Sessions : DispatchSia(s) /\ Push("sia", s)
    BY <1>3 DEF Next, Claims, Accept, Claim, Supersede, Read, Superseded, StopReading, Dispatch,
       DispatchQuiet, DispatchFirstPoll, DispatchSia, ReceiverFails, AskPanel, QueryReturns,
       BridgeStops
  <2> QED
    BY <2>2, <2>3, <2>4
<1> QED
  BY <1>1, <1>2, <1>3, TakingIsLearning

\* The bridge sees of connections, slot and queue what LinkService allows, for any
\* number of connections and any length of the queue (session.rs run_session,
\* dispatch; bridge.rs on_link_event).
THEOREM LinkImplements == Spec => LinkServiceSpec
<1>1. LinkServiceInv /\ [Next]_vars => LinkServiceInv'
  <2> SUFFICES ASSUME LinkServiceInv, [Next]_vars PROVE LinkServiceInv'
    OBVIOUS
  <2>1. LinkInv /\ SaidOnce /\ StoppedLast
    BY DEF LinkServiceInv
  <2>2. LinkInv'
    BY <2>1, LinkStep
  <2>3. SaidOnce' /\ StoppedLast'
    BY <2>1, SaidOnceStep, StoppedStep DEF LinkInv
  <2> QED
    BY <2>2, <2>3 DEF LinkServiceInv
<1>2. LinkServiceInv /\ [Next]_vars => [Service!Next]_(Service!service)
  BY LinkServiceStep
<1> QED
  BY <1>1, <1>2, ServiceStarts, PTL DEF Spec, LinkServiceSpec, Service!Spec
=============================================================================
