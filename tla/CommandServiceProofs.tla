------------------------ MODULE CommandServiceProofs ------------------------
(***************************************************************************)
(* CommandChannel implements CommandService, and its XML replies are       *)
(* assembled from one reply of the panel, for any set of callers and any   *)
(* bounds.                                                                 *)
(*                                                                         *)
(* Most steps of the channel are steps of one caller's call, which map to  *)
(* one step of the service for that caller, or to none.  Beyond ChannelInv *)
(* the argument needs that a request is put no more often than the caller  *)
(* may (FragmentsLeft), which needs that only an XML query can be told     *)
(* that there is more (ReplyFitsCall), and that the panel fulfils nothing  *)
(* before it is asked (AcceptedIsKnown).                                   *)
(***************************************************************************)
EXTENDS CommandChannelProofs

\* The chunks received leave room for one more request.
FragmentsLeft ==
  \A c \in Callers :
    pc[c] \notin Idle => Len(buf[c]) < (IF op[c] = "xml" THEN MaxFragments ELSE 1)

\* A reply takes its major code from the request, and ends in "more" only if
\* that is an XML query's.
ReplyFitsCall ==
  /\ \A i \in DOMAIN from_panel : from_panel[i].body = "more" => from_panel[i].major = "xml"
  /\ \A c \in Callers :
       /\ pc[c] \in {"send", "await"} =>
            \A e \in pending : e.rid = cur[c] => e.major = op[c]
       /\ pc[c] \in {"send", "await", "replied"} /\ inbox[c] # <<>> =>
            (inbox[c][1].body = "more" => op[c] = "xml")

\* The panel fulfils no request before it is registered.
AcceptedIsKnown == accepted \subseteq DOMAIN log

\* The inductive invariant behind the refinement (session.rs transact, xml_query).
ServiceInv == ChannelInv /\ FragmentsLeft /\ ReplyFitsCall /\ AcceptedIsKnown

-----------------------------------------------------------------------------
\* Requests are recorded before the panel can see them (session.rs transact).
LEMMA AcceptedStep == ServiceInv /\ [Next]_vars => AcceptedIsKnown'
<1> USE DEF vars, callerVars, linkVars, writerVars, panelVars
<1> SUFFICES ASSUME ServiceInv, [Next]_vars PROVE AcceptedIsKnown'
  OBVIOUS
<1>0. ChannelInv /\ AcceptedIsKnown /\ log \in Seq(Seqs)
  BY DEF ServiceInv, ChannelInv, TypeOK
<1>1. DOMAIN log \subseteq DOMAIN log'
  BY <1>0, LogGrows
<1>2. CASE PanelAnswers
  <2>1. panel_in \in Seq(Frame) /\ panel_in # <<>>
    BY <1>0, <1>2 DEF ChannelInv, TypeOK, PanelAnswers
  <2>2. Head(panel_in).rid \in DOMAIN log
    BY <1>0, <2>1 DEF ChannelInv, RequestsAreKnown
  <2>3. accepted' \subseteq accepted \cup {Head(panel_in).rid}
    BY <1>2 DEF PanelAnswers
  <2> QED
    BY <1>0, <1>1, <2>2, <2>3 DEF AcceptedIsKnown
<1>3. CASE ~PanelAnswers
  <2>1. accepted' = accepted
    BY <1>3 DEF Next, Transact, Call, Lock, TransactClosed, Register, GiveUpOnQuiet,
       Send, Await, Conclude, DispatchReply, DispatchOther, StopReading, Close,
       WriteFrame, StopWriting, Tick, PanelIgnores, PanelSends
  <2> QED
    BY <1>0, <1>1, <2>1 DEF AcceptedIsKnown
<1> QED
  BY <1>2, <1>3

\* An XML query asks for another fragment only while it may (session.rs xml_query).
LEMMA FragmentsStep == ServiceInv /\ [Next]_vars => FragmentsLeft'
<1> USE DEF vars, callerVars, linkVars, writerVars, panelVars
<1> SUFFICES ASSUME ServiceInv, [Next]_vars, NEW d \in Callers, pc'[d] \notin Idle
             PROVE  Len(buf'[d]) < (IF op'[d] = "xml" THEN MaxFragments ELSE 1)
  BY DEF FragmentsLeft
<1>0. FragmentsLeft /\ ReplyFitsCall /\ InboxIsMine
  BY DEF ServiceInv, ChannelInv
<1>t. /\ pc \in [Callers -> Idle \cup Resolved \cup {"transact", "send", "await"}]
      /\ op \in [Callers -> Majors] /\ inbox \in [Callers -> Seq(Reply)]
      /\ buf \in [Callers -> Seq(Chunk)]
  BY DEF ServiceInv, ChannelInv, TypeOK
<1>1. ASSUME pc[d] \notin Idle, buf'[d] = buf[d], op'[d] = op[d]
      PROVE  Len(buf'[d]) < (IF op'[d] = "xml" THEN MaxFragments ELSE 1)
  BY <1>0, <1>1 DEF FragmentsLeft
<1>2. ASSUME NEW c \in Callers, Lock(c)
      PROVE  Len(buf'[d]) < (IF op'[d] = "xml" THEN MaxFragments ELSE 1)
  <2>1. CASE c = d
    <3>1. buf'[d] = <<>>
      BY <1>2, <1>t, <2>1 DEF Lock
    <3> QED
      BY <3>1, ChannelAssumption
  <2>2. CASE c # d
    BY <1>1, <1>2, <1>t, <2>2 DEF Lock
  <2> QED
    BY <2>1, <2>2
<1>3. ASSUME NEW c \in Callers, Conclude(c)
      PROVE  Len(buf'[d]) < (IF op'[d] = "xml" THEN MaxFragments ELSE 1)
  <2> DEFINE r == Head(inbox[d])
             more == Append(buf[d], [of |-> r.of, chunk |-> r.chunk])
  <2>1. CASE c = d
    <3>1. /\ pc[d] = "replied" /\ r.body = "more" /\ Len(more) < MaxFragments
          /\ buf' = [buf EXCEPT ![d] = more] /\ op' = op
      BY <1>3, <1>t, <2>1 DEF Conclude, TakeReply, Return, Idle
    <3>2. inbox[d] # <<>> /\ r = inbox[d][1]
      BY <1>0, <1>t, <3>1 DEF InboxIsMine
    <3>3. op[d] = "xml"
      BY <1>0, <3>1, <3>2 DEF ReplyFitsCall
    <3>4. buf'[d] = more
      BY <1>t, <3>1
    <3> QED
      BY <3>1, <3>3, <3>4
  <2>2. CASE c # d
    BY <1>1, <1>3, <1>t, <2>2 DEF Conclude, TakeReply, Return
  <2> QED
    BY <2>1, <2>2
<1>4. ASSUME NEW c \in Callers, NEW o \in Majors, Call(c, o)
      PROVE  Len(buf'[d]) < (IF op'[d] = "xml" THEN MaxFragments ELSE 1)
  BY <1>1, <1>4, <1>t DEF Call, Idle
<1>5. ASSUME NEW c \in Callers, Transact(c) \/ Send(c) \/ Await(c)
      PROVE  Len(buf'[d]) < (IF op'[d] = "xml" THEN MaxFragments ELSE 1)
  <2>1. buf' = buf /\ op' = op
    BY <1>5 DEF Transact, TransactClosed, Register, GiveUpOnQuiet, Send, Await
  <2>2. pc[c] \notin Idle /\ \A e \in Callers \ {c} : pc'[e] = pc[e]
    BY <1>5, <1>t DEF Transact, TransactClosed, Register, GiveUpOnQuiet, Send, Await,
       Return, Idle
  <2> QED
    BY <1>1, <2>1, <2>2
<1>6. CASE UNCHANGED <<pc, buf, op>>
  BY <1>1, <1>6
<1> QED
  BY <1>2, <1>3, <1>4, <1>5, <1>6 DEF Next, DispatchReply, DispatchOther, StopReading,
     Close, WriteFrame, StopWriting, Tick, PanelAnswers, PanelIgnores, PanelSends

\* The key under which a reply is looked up has its major code, so a reply that
\* reaches a caller is of the kind the caller asked for (session.rs dispatch).
LEMMA FitsStep == ServiceInv /\ [Next]_vars => ReplyFitsCall'
<1> USE DEF vars, callerVars, linkVars, writerVars, panelVars
<1> SUFFICES ASSUME ServiceInv, [Next]_vars PROVE ReplyFitsCall'
  OBVIOUS
<1>0. ReplyFitsCall /\ RequestsAreKnown /\ InboxIsMine
  BY DEF ServiceInv, ChannelInv
<1>t. /\ pc \in [Callers -> Idle \cup Resolved \cup {"transact", "send", "await"}]
      /\ op \in [Callers -> Majors] /\ inbox \in [Callers -> Seq(Reply)]
      /\ cur \in [Callers -> Nat]
      /\ log \in Seq(Seqs) /\ from_panel \in Seq(Reply) /\ panel_in \in Seq(Frame)
  BY DEF ServiceInv, ChannelInv, TypeOK
<1>1. ASSUME NEW i \in DOMAIN from_panel', from_panel'[i].body = "more"
      PROVE  from_panel'[i].major = "xml"
  <2>1. CASE PanelAnswers
    BY <1>0, <1>1, <1>t, <2>1 DEF PanelAnswers, ReplyFitsCall
  <2>2. ASSUME NEW q \in PanelSeqs, NEW kind \in PanelKinds, PanelSends(q, kind)
        PROVE  from_panel'[i].major = "xml"
    <3> DEFINE f == [major |-> "other", seq |-> q, rid |-> 0, body |-> kind,
                     of |-> 0, chunk |-> 0]
    <3>1. from_panel' = Append(from_panel, f) /\ f.body # "more"
      BY <2>2, ChannelAssumption DEF PanelSends
    <3> HIDE DEF f
    <3>2. i \in DOMAIN from_panel /\ from_panel'[i] = from_panel[i]
      BY <1>1, <1>t, <3>1
    <3> QED
      BY <1>0, <1>1, <3>2 DEF ReplyFitsCall
  <2>3. CASE DispatchReply \/ DispatchOther
    <3>1. from_panel # <<>> /\ from_panel' = Tail(from_panel)
      BY <2>3 DEF DispatchReply, DispatchOther
    <3>2. i + 1 \in DOMAIN from_panel /\ from_panel'[i] = from_panel[i + 1]
      BY <1>1, <1>t, <3>1
    <3> QED
      BY <1>0, <1>1, <3>2 DEF ReplyFitsCall
  <2>4. CASE UNCHANGED from_panel
    BY <1>0, <1>1, <2>4 DEF ReplyFitsCall
  <2> QED
    BY <2>1, <2>2, <2>3, <2>4 DEF Next, Transact, Call, Lock, TransactClosed, Register,
       GiveUpOnQuiet, Send, Await, Conclude, StopReading, Close, WriteFrame, StopWriting,
       Tick, PanelIgnores
\* Who waits for a reply after a step that is no registration did so before.
<1>2. ASSUME NEW d \in Callers, \A c \in Callers : ~Register(c),
             pc'[d] \in {"send", "await", "replied"}
      PROVE  /\ cur'[d] = cur[d] /\ op'[d] = op[d]
             /\ pc[d] \in {"send", "await", "replied"}
             /\ pc'[d] \in {"send", "await"} => pc[d] \in {"send", "await"}
  <2>1. ASSUME NEW c \in Callers, NEW o \in Majors, Call(c, o)
        PROVE  op'[d] = op[d] /\ cur' = cur /\ pc'[d] = pc[d]
    BY <1>2, <1>t, <2>1 DEF Call
  <2>2. ASSUME NEW c \in Callers, Lock(c)
        PROVE  op' = op /\ cur' = cur /\ pc'[d] = pc[d]
    BY <1>2, <1>t, <2>2 DEF Lock
  <2>3. ASSUME NEW c \in Callers, TransactClosed(c) \/ GiveUpOnQuiet(c) \/ Conclude(c)
        PROVE  op' = op /\ cur' = cur /\ pc'[d] = pc[d]
    BY <1>2, <1>t, <2>3 DEF TransactClosed, GiveUpOnQuiet, Conclude, TakeReply, Return
  <2>4. ASSUME NEW c \in Callers, Send(c)
        PROVE  /\ op' = op /\ cur' = cur
               /\ pc'[d] = pc[d] \/ (pc[d] = "send" /\ pc'[d] = "await")
    BY <1>2, <1>t, <2>4 DEF Send, Return
  <2>5. ASSUME NEW c \in Callers, Await(c)
        PROVE  /\ op' = op /\ cur' = cur
               /\ pc'[d] = pc[d] \/ (pc[d] = "await" /\ pc'[d] = "replied")
    BY <1>2, <1>t, <2>5 DEF Await
  <2>6. CASE UNCHANGED <<pc, op, cur>>
    BY <1>2, <2>6
  <2> QED
    BY <1>2, <2>1, <2>2, <2>3, <2>4, <2>5, <2>6 DEF Next, Transact, DispatchReply,
       DispatchOther, StopReading, Close, WriteFrame, StopWriting, Tick, PanelAnswers,
       PanelIgnores, PanelSends
<1>3. ASSUME NEW d \in Callers, pc'[d] \in {"send", "await"},
             NEW e \in pending', e.rid = cur'[d]
      PROVE  e.major = op'[d]
  <2>1. ASSUME NEW c \in Callers, Register(c) PROVE e.major = op'[d]
    <3> DEFINE new == [major |-> op[c], seq |-> NextSeq(next_seq), rid |-> Len(log) + 1]
    <3>1. /\ op' = op /\ cur' = [cur EXCEPT ![c] = Len(log) + 1]
          /\ pc' = [pc EXCEPT ![c] = "send"]
          /\ e = new \/ e \in pending
      BY <2>1 DEF Register
    <3>2. CASE c = d
      <4>1. e.rid = Len(log) + 1
        BY <1>3, <1>t, <3>1, <3>2
      <4>2. \A x \in pending : x.rid # Len(log) + 1
        BY <1>0, <1>t DEF RequestsAreKnown
      <4> QED
        BY <3>1, <3>2, <4>1, <4>2
    <3>3. CASE c # d
      <4>1. pc[d] \in {"send", "await"}
        BY <1>3, <1>t, <3>1, <3>3
      <4>2. pc[c] = "transact"
        BY <2>1 DEF Register
      <4> QED
        BY <3>3, <4>1, <4>2 DEF ServiceInv, ChannelInv, OneTransaction, Idle
    <3> QED
      BY <3>2, <3>3
  <2>2. ASSUME \A c \in Callers : ~Register(c) PROVE e.major = op'[d]
    <3>1. e \in pending
      BY <1>3, <2>2 DEF Next, Transact, Call, Lock, TransactClosed, GiveUpOnQuiet, Send,
         Await, Conclude, DispatchReply, DispatchOther, StopReading, Close,
         PendingAfterClose, WriteFrame, StopWriting, Tick, PanelAnswers, PanelIgnores,
         PanelSends
    <3> QED
      BY <1>0, <1>2, <1>3, <2>2, <3>1 DEF ReplyFitsCall
  <2> QED
    BY <2>1, <2>2
<1>4. ASSUME NEW d \in Callers, pc'[d] \in {"send", "await", "replied"}, inbox'[d] # <<>>,
             inbox'[d][1].body = "more"
      PROVE  op'[d] = "xml"
  <2>1. ASSUME NEW c \in Callers, Register(c) PROVE op'[d] = "xml"
    <3>1. /\ op' = op /\ inbox' = [inbox EXCEPT ![c] = <<>>]
          /\ pc' = [pc EXCEPT ![c] = "send"]
      BY <2>1 DEF Register
    <3> QED
      BY <1>0, <1>4, <1>t, <3>1 DEF ReplyFitsCall
  <2>2. CASE DispatchReply
    <3> DEFINE f == Head(from_panel)
    <3>1. /\ pc' = pc /\ op' = op /\ from_panel # <<>>
          /\ inbox'[d] = IF d \in Receivers(Matches(f)) THEN <<f>> ELSE inbox[d]
      BY <2>2 DEF DispatchReply
    <3>2. CASE d \in Receivers(Matches(f))
      <4>1. PICK e \in pending : e.rid = cur[d] /\ e.major = f.major
        BY <3>2 DEF Receivers, Matches, Entries
      <4>2. pc[d] \in {"send", "await"}
        BY <3>2 DEF Receivers
      <4>3. op[d] = f.major
        BY <1>0, <4>1, <4>2 DEF ReplyFitsCall
      <4>4. f = from_panel[1] /\ 1 \in DOMAIN from_panel
        BY <1>t, <3>1
      <4>5. inbox'[d][1] = f
        BY <3>1, <3>2
      <4>6. f.major = "xml"
        BY <1>0, <1>4, <4>4, <4>5 DEF ReplyFitsCall
      <4> QED
        BY <3>1, <4>3, <4>6
    <3>3. CASE d \notin Receivers(Matches(f))
      BY <1>0, <1>4, <3>1, <3>3 DEF ReplyFitsCall
    <3> QED
      BY <3>2, <3>3
  <2>3. ASSUME \A c \in Callers : ~Register(c), ~DispatchReply PROVE op'[d] = "xml"
    <3>1. inbox' = inbox
      BY <2>3 DEF Next, Transact, Call, Lock, TransactClosed, GiveUpOnQuiet, Send, Await,
         Conclude, DispatchOther, StopReading, Close, WriteFrame, StopWriting, Tick,
         PanelAnswers, PanelIgnores, PanelSends
    <3> QED
      BY <1>0, <1>2, <1>4, <2>3, <3>1 DEF ReplyFitsCall
  <2> QED
    BY <2>1, <2>2, <2>3
<1> QED
  BY <1>1, <1>3, <1>4 DEF ReplyFitsCall

\* The invariant behind the refinement (session.rs SessionHandle).
THEOREM ServiceInvariance == Spec => []ServiceInv
<1>1. Init => ServiceInv
  <2> SUFFICES ASSUME Init PROVE ServiceInv
    OBVIOUS
  <2>1. FragmentsLeft /\ ReplyFitsCall /\ AcceptedIsKnown
    BY DEF Init, FragmentsLeft, ReplyFitsCall, AcceptedIsKnown, Idle
  <2> QED
    BY <2>1, InitInv DEF ServiceInv
<1>2. ServiceInv /\ [Next]_vars => ServiceInv'
  <2>1. ChannelInv /\ [Next]_vars => ChannelInv'
    BY TypeStep, KnownStep, NumberStep, InboxStep, LockStep, ClosedStep, OkStep
       DEF ChannelInv
  <2> QED
    BY <2>1, FragmentsStep, FitsStep, AcceptedStep DEF ServiceInv
<1> QED
  BY <1>1, <1>2, PTL DEF Spec

-----------------------------------------------------------------------------
\* What a step leaves alone the service does not see.
LEMMA SameView ==
  ASSUME UNCHANGED <<pc, buf, cur, accepted>>
  PROVE  UNCHANGED <<[c \in Callers |-> PhaseOf(c)], [c \in Callers |-> AskedOf(c)],
                     [c \in Callers |-> FulfilledOf(c)]>>
  BY DEF PhaseOf, AskedOf, FulfilledOf

\* A step of one caller's call changes the service's view of that caller only.
LEMMA ViewOf ==
  ASSUME NEW c \in Callers, accepted' = accepted,
         \A d \in Callers \ {c} : pc'[d] = pc[d] /\ buf'[d] = buf[d] /\ cur'[d] = cur[d]
  PROVE  /\ [d \in Callers |-> PhaseOf(d)]'
              = [[d \in Callers |-> PhaseOf(d)] EXCEPT ![c] = PhaseOf(c)']
         /\ [d \in Callers |-> AskedOf(d)]'
              = [[d \in Callers |-> AskedOf(d)] EXCEPT ![c] = AskedOf(c)']
         /\ [d \in Callers |-> FulfilledOf(d)]'
              = [[d \in Callers |-> FulfilledOf(d)] EXCEPT ![c] = FulfilledOf(c)']
  BY DEF PhaseOf, AskedOf, FulfilledOf

\* A call that returns is answered (session.rs xml_query, binary_command).
LEMMA ReturnAnswers ==
  ASSUME ChannelInv, NEW c \in Callers, NEW r \in Results \ {"none"},
         pc[c] \notin Idle, Return(c, r),
         cur' = cur, op' = op, accepted' = accepted, closed' = closed, wrapped' = wrapped,
         \A d \in Callers \ {c} : buf'[d] = buf[d],
         r \in {"ok", "rejected", "protocol"} => pc[c] \in Resolved,
         r = "ok" => cur[c] \in accepted \/ wrapped
  PROVE  Service!Answer(c, r)
<1>t. /\ pc \in [Callers -> Idle \cup Resolved \cup {"transact", "send", "await"}]
      /\ buf \in [Callers -> Seq(Chunk)] /\ result \in [Callers -> Results]
  BY DEF ChannelInv, TypeOK
<1>1. /\ pc' = [pc EXCEPT ![c] = "idle"] /\ result' = [result EXCEPT ![c] = r]
      /\ pc'[c] = "idle" /\ \A d \in Callers \ {c} : pc'[d] = pc[d]
  BY <1>t DEF Return
<1>2. PhaseOf(c)' = "idle" /\ AskedOf(c)' = 0 /\ FulfilledOf(c)' = FALSE
  <2>1. PhaseOf(c)' = "idle"
    BY <1>1 DEF PhaseOf
  <2>2. AskedOf(c)' = 0
    BY <1>1 DEF AskedOf, Idle
  <2>3. FulfilledOf(c)' = FALSE
    BY <2>2 DEF FulfilledOf
  <2> QED
    BY <2>1, <2>2, <2>3
<1>3. PhaseOf(c) = "serving"
  BY DEF PhaseOf, Idle
<1>4. pc[c] \in Resolved => AskedOf(c) > 0
  BY <1>t DEF AskedOf, Idle, Resolved
<1>5. r = "ok" => FulfilledOf(c) \/ wrapped
  BY <1>4 DEF FulfilledOf
<1> QED
  BY <1>1, <1>2, <1>3, <1>4, <1>5, ViewOf DEF Service!Answer

\* A fresh connection is a service nobody has used yet.
LEMMA ServiceInit == Init => Service!Init
<1> SUFFICES ASSUME Init PROVE Service!Init
  OBVIOUS
<1>1. \A c \in Callers : PhaseOf(c) = "idle" /\ AskedOf(c) = 0 /\ FulfilledOf(c) = FALSE
  BY DEF Init, PhaseOf, AskedOf, FulfilledOf, Idle
<1> QED
  BY <1>1 DEF Init, Service!Init, Service!Kinds

\* Every step of the channel is a step of the service or leaves it alone.
LEMMA ServiceStep ==
  ServiceInv /\ ServiceInv' /\ [Next]_vars => [Service!Next]_(Service!service)
<1> USE DEF vars, callerVars, linkVars, writerVars, panelVars
<1> SUFFICES ASSUME ServiceInv, ServiceInv', [Next]_vars
             PROVE  Service!Next \/ UNCHANGED Service!service
  OBVIOUS
<1>0. ChannelInv /\ FragmentsLeft /\ AcceptedIsKnown /\ OneTransaction /\ InboxIsMine
  BY DEF ServiceInv, ChannelInv
<1>t. /\ pc \in [Callers -> Idle \cup Resolved \cup {"transact", "send", "await"}]
      /\ op \in [Callers -> Majors] /\ inbox \in [Callers -> Seq(Reply)]
      /\ buf \in [Callers -> Seq(Chunk)] /\ cur \in [Callers -> Nat]
      /\ log \in Seq(Seqs) /\ panel_in \in Seq(Frame) /\ wrapped \in BOOLEAN
  BY DEF ServiceInv, ChannelInv, TypeOK
<1>a. ASSUME NEW c \in Callers, NEW r \in Results \ {"none"}, Service!Answer(c, r)
      PROVE  Service!Next
  BY <1>a DEF Service!Next, Service!Answers, Results
<1>1. ASSUME NEW c \in Callers, NEW o \in Majors, Call(c, o) PROVE Service!Ask(c)
  <2>1. /\ pc[c] = "idle" /\ pc' = [pc EXCEPT ![c] = "queued"]
        /\ op' = [op EXCEPT ![c] = o]
        /\ UNCHANGED <<buf, cur, accepted, result, closed, wrapped>>
    BY <1>1 DEF Call
  <2>2. pc'[c] = "queued" /\ \A d \in Callers \ {c} : pc'[d] = pc[d]
    BY <1>t, <2>1
  <2>3. /\ PhaseOf(c) = "idle" /\ PhaseOf(c)' = "waiting"
        /\ AskedOf(c)' = AskedOf(c) /\ FulfilledOf(c)' = FulfilledOf(c)
    BY <2>1, <2>2 DEF PhaseOf, AskedOf, FulfilledOf, Idle
  <2>4. o \in Service!Kinds
    BY DEF Service!Kinds, Majors
  <2> QED
    BY <2>1, <2>2, <2>3, <2>4, ViewOf DEF Service!Ask
<1>2. ASSUME NEW c \in Callers, Lock(c) PROVE Service!BeginTurn(c)
  <2>1. /\ pc[c] = "queued" /\ command_lock = NoCaller
        /\ pc' = [pc EXCEPT ![c] = "transact"] /\ buf' = [buf EXCEPT ![c] = <<>>]
        /\ UNCHANGED <<op, cur, accepted, result, closed, wrapped>>
    BY <1>2 DEF Lock, LockIsFree
  <2>2. /\ pc'[c] = "transact" /\ buf'[c] = <<>>
        /\ \A d \in Callers \ {c} : pc'[d] = pc[d] /\ buf'[d] = buf[d]
    BY <1>t, <2>1
  <2>3. /\ PhaseOf(c) = "waiting" /\ PhaseOf(c)' = "serving"
        /\ AskedOf(c) = 0 /\ AskedOf(c)' = 0 /\ ~FulfilledOf(c) /\ ~FulfilledOf(c)'
    BY <2>1, <2>2 DEF PhaseOf, AskedOf, FulfilledOf, Idle
  <2>4. \A d \in Callers : PhaseOf(d) # "serving"
    BY <1>0, <2>1, ChannelAssumption DEF OneTransaction, PhaseOf, Idle
  <2>5. \A d \in Callers : AskedOf(d)' = AskedOf(d) /\ FulfilledOf(d)' = FulfilledOf(d)
    <3> TAKE d \in Callers
    <3>1. CASE d = c
      <4>1. FulfilledOf(c) = FALSE /\ FulfilledOf(c)' = FALSE
        BY <2>3 DEF FulfilledOf
      <4> QED
        BY <2>3, <3>1, <4>1
    <3>2. CASE d # c
      BY <2>1, <2>2, <3>2 DEF AskedOf, FulfilledOf
    <3> QED
      BY <3>1, <3>2
  <2>6. /\ UNCHANGED <<[d \in Callers |-> AskedOf(d)], [d \in Callers |-> FulfilledOf(d)]>>
        /\ \A d \in Callers : [e \in Callers |-> PhaseOf(e)][d] # "serving"
    BY <2>4, <2>5
  <2>7. \A d \in Callers : d # c => PhaseOf(d)' = PhaseOf(d)
    BY <2>2 DEF PhaseOf
  <2>8. [d \in Callers |-> PhaseOf(d)]'
          = [[d \in Callers |-> PhaseOf(d)] EXCEPT ![c] = "serving"]
    BY <2>3, <2>7
  <2> QED
    BY <2>1, <2>3, <2>6, <2>8 DEF Service!BeginTurn
<1>3. ASSUME NEW c \in Callers, TransactClosed(c) \/ GiveUpOnQuiet(c) PROVE Service!Next
  BY <1>0, <1>3, <1>a, ReturnAnswers DEF TransactClosed, GiveUpOnQuiet, Idle, Results
<1>4. ASSUME NEW c \in Callers, Register(c) PROVE Service!PutRequest(c)
  <2>1. /\ pc[c] = "transact" /\ ~closed
        /\ pc' = [pc EXCEPT ![c] = "send"] /\ cur' = [cur EXCEPT ![c] = Len(log) + 1]
        /\ wrapped' \in {wrapped, TRUE}
        /\ UNCHANGED <<op, buf, accepted, result, closed>>
    BY <1>4, <1>t DEF Register, Refused
  <2>2. /\ pc'[c] = "send" /\ cur'[c] = Len(log) + 1
        /\ \A d \in Callers \ {c} : pc'[d] = pc[d] /\ cur'[d] = cur[d]
    BY <1>t, <2>1
  <2>3. /\ PhaseOf(c) = "serving" /\ PhaseOf(c)' = "serving"
        /\ AskedOf(c) = Len(buf[c]) /\ AskedOf(c)' = AskedOf(c) + 1
    BY <1>t, <2>1, <2>2 DEF PhaseOf, AskedOf, Idle
  <2>4. ~FulfilledOf(c)'
    BY <1>0, <1>t, <2>1, <2>2 DEF FulfilledOf, AcceptedIsKnown
  <2>5. AskedOf(c) < Service!MayAsk(c)
    BY <1>0, <2>1, <2>3 DEF FragmentsLeft, Idle, Service!MayAsk
  <2>6. \A d \in Callers \ {c} : /\ pc'[d] = pc[d] /\ buf'[d] = buf[d]
                                /\ cur'[d] = cur[d]
    BY <2>1, <2>2
  <2>7. FulfilledOf(c)' = FALSE
    BY <2>4 DEF FulfilledOf
  <2>8. /\ [d \in Callers |-> FulfilledOf(d)]'
             = [[d \in Callers |-> FulfilledOf(d)] EXCEPT ![c] = FALSE]
        /\ [d \in Callers |-> AskedOf(d)]'
             = [[d \in Callers |-> AskedOf(d)] EXCEPT ![c] = AskedOf(c) + 1]
        /\ UNCHANGED [d \in Callers |-> PhaseOf(d)]
    <3>1. /\ [d \in Callers |-> PhaseOf(d)]'
               = [[d \in Callers |-> PhaseOf(d)] EXCEPT ![c] = PhaseOf(c)']
          /\ [d \in Callers |-> AskedOf(d)]'
               = [[d \in Callers |-> AskedOf(d)] EXCEPT ![c] = AskedOf(c)']
          /\ [d \in Callers |-> FulfilledOf(d)]'
               = [[d \in Callers |-> FulfilledOf(d)] EXCEPT ![c] = FulfilledOf(c)']
      BY <2>1, <2>6, ViewOf
    <3> QED
      BY <2>3, <2>7, <3>1
  <2> QED
    BY <1>t, <2>1, <2>3, <2>5, <2>8 DEF Service!PutRequest, Service!MayAsk
<1>5. ASSUME NEW c \in Callers, Send(c) PROVE Service!Next \/ UNCHANGED Service!service
  <2>1. CASE CanQueue
    <3>1. /\ pc[c] = "send" /\ pc' = [pc EXCEPT ![c] = "await"]
          /\ UNCHANGED <<op, buf, cur, accepted, result, closed, wrapped>>
      BY <1>5, <2>1 DEF Send
    <3>2. pc'[c] = "await" /\ \A d \in Callers \ {c} : pc'[d] = pc[d]
      BY <1>t, <3>1
    <3>3. /\ PhaseOf(c)' = PhaseOf(c) /\ AskedOf(c)' = AskedOf(c)
          /\ FulfilledOf(c)' = FulfilledOf(c)
      BY <3>1, <3>2 DEF PhaseOf, AskedOf, FulfilledOf, Idle
    <3> QED
      BY <3>1, <3>2, <3>3, ViewOf DEF Service!service
  <2>2. CASE ~CanQueue
    <3>1. /\ pc[c] = "send" /\ Return(c, "lost")
          /\ UNCHANGED <<op, buf, cur, accepted, closed, wrapped>>
      BY <1>5, <2>2 DEF Send
    <3> QED
      BY <1>0, <1>a, <3>1, ReturnAnswers DEF Idle, Results
  <2> QED
    BY <2>1, <2>2
<1>6. ASSUME NEW c \in Callers, Await(c) PROVE UNCHANGED Service!service
  <2>1. /\ pc[c] = "await" /\ pc'[c] \in Resolved
        /\ \A d \in Callers \ {c} : pc'[d] = pc[d]
        /\ UNCHANGED <<op, buf, cur, accepted, result, closed, wrapped>>
    BY <1>6, <1>t DEF Await, Resolved
  <2>2. /\ PhaseOf(c)' = PhaseOf(c) /\ AskedOf(c)' = AskedOf(c)
        /\ FulfilledOf(c)' = FulfilledOf(c)
    BY <2>1 DEF PhaseOf, AskedOf, FulfilledOf, Idle, Resolved
  <2> QED
    BY <2>1, <2>2, ViewOf DEF Service!service
<1>7. ASSUME NEW c \in Callers, Conclude(c) PROVE Service!Next \/ UNCHANGED Service!service
  <2> DEFINE r == Head(inbox[c])
             more == Append(buf[c], [of |-> r.of, chunk |-> r.chunk])
  <2>0. /\ pc[c] \in Resolved /\ pc[c] \notin Idle
        /\ UNCHANGED <<op, cur, accepted, closed, wrapped>>
    BY <1>7 DEF Conclude, Resolved, Idle
  <2>1. CASE \E res \in {"lost", "timeout"} : Return(c, res) /\ buf' = buf
    BY <1>0, <1>a, <2>0, <2>1, ReturnAnswers DEF Results
  <2>2. CASE pc[c] = "replied" /\ TakeReply(c, r)
    <3>0. r = inbox[c][1] /\ inbox[c] # <<>>
      BY <1>0, <1>t, <2>2 DEF InboxIsMine
    <3>1. CASE r.body \in {"close", "ok"}
      <4>1. /\ Return(c, "ok") /\ \A d \in Callers \ {c} : buf'[d] = buf[d]
        BY <1>t, <2>2, <3>1 DEF TakeReply
      <4>2. cur[c] \in accepted \/ wrapped
        BY <1>0, <3>0, <3>1 DEF InboxIsMine
      <4> QED
        BY <1>0, <1>a, <2>0, <4>1, <4>2, ReturnAnswers DEF Results
    <3>2. CASE \E res \in {"rejected", "protocol"} : Return(c, res) /\ buf' = buf
      BY <1>0, <1>a, <2>0, <3>2, ReturnAnswers DEF Results
    <3>3. CASE /\ pc' = [pc EXCEPT ![c] = "transact"]
               /\ buf' = [buf EXCEPT ![c] = more] /\ result' = result
      <4>1. /\ pc'[c] = "transact" /\ Len(buf'[c]) = Len(buf[c]) + 1
            /\ \A d \in Callers \ {c} : pc'[d] = pc[d] /\ buf'[d] = buf[d]
        <5>1. more \in Seq(Chunk) /\ Len(more) = Len(buf[c]) + 1
          <6>1. r \in Reply
            BY <1>t, <3>0
          <6> QED
            BY <1>t, <6>1 DEF Reply, Chunk
        <5> HIDE DEF more
        <5> QED
          BY <1>t, <3>3, <5>1
      <4>2. /\ PhaseOf(c)' = PhaseOf(c) /\ AskedOf(c)' = AskedOf(c)
            /\ FulfilledOf(c)' = FulfilledOf(c)
        BY <1>t, <2>0, <2>2, <4>1 DEF PhaseOf, AskedOf, FulfilledOf, Idle, Resolved
      <4> QED
        BY <2>0, <3>3, <4>1, <4>2, ViewOf DEF Service!service
    <3> QED
      BY <2>2, <3>1, <3>2, <3>3 DEF TakeReply
  <2> QED
    BY <1>7, <2>1, <2>2 DEF Conclude
<1>8. CASE Close
  <2>1. /\ UNCHANGED <<pc, op, buf, cur, accepted, result, wrapped>> /\ closed'
    BY <1>8 DEF Close
  <2>2. Service!GoDown
    BY <2>1, SameView DEF Service!GoDown
  <2> QED
    BY <2>2 DEF Service!Next
<1>9. CASE PanelAnswers
  <2>1. UNCHANGED <<pc, op, buf, cur, result, closed, wrapped>>
    BY <1>9 DEF PanelAnswers
  <2>2. PICK id \in Nat : accepted' \in {accepted, accepted \cup {id}}
    <3>1. Head(panel_in) \in Frame
      BY <1>9, <1>t DEF PanelAnswers
    <3> QED
      BY <1>9, <3>1 DEF PanelAnswers, Frame
  <2>3. \A d \in Callers : PhaseOf(d)' = PhaseOf(d) /\ AskedOf(d)' = AskedOf(d)
    BY <2>1 DEF PhaseOf, AskedOf
  <2>4. ASSUME NEW c \in Callers, AskedOf(c) > 0, cur[c] = id, accepted' # accepted
        PROVE  Service!Fulfil(c)
    <3>0. pc[c] \notin Idle
      <4>1. pc[c] \in Idle => AskedOf(c) = 0
        BY DEF AskedOf
      <4>2. AskedOf(c) > 0
        BY <2>4
      <4> HIDE DEF AskedOf
      <4> QED
        BY <4>1, <4>2
    <3>1. PhaseOf(c) = "serving"
      BY <3>0 DEF PhaseOf, Idle
    <3>2. \A d \in Callers \ {c} : AskedOf(d) = 0
      <4>1. \A d \in Callers \ {c} : pc[d] \in Idle
        BY <1>0, <3>0 DEF OneTransaction
      <4> QED
        BY <4>1 DEF AskedOf
    <3>3. FulfilledOf(c)' = TRUE /\ \A d \in Callers \ {c} : FulfilledOf(d)' = FulfilledOf(d)
      BY <2>1, <2>2, <2>3, <2>4, <3>2 DEF FulfilledOf
    <3>4. [d \in Callers |-> FulfilledOf(d)]'
            = [[d \in Callers |-> FulfilledOf(d)] EXCEPT ![c] = TRUE]
      BY <3>3
    <3> QED
      BY <2>1, <2>3, <2>4, <3>1, <3>4 DEF Service!Fulfil
  <2>5. ASSUME \A c \in Callers : ~(AskedOf(c) > 0 /\ cur[c] = id /\ accepted' # accepted)
        PROVE  UNCHANGED Service!service
    <3>1. \A d \in Callers : FulfilledOf(d)' = FulfilledOf(d)
      BY <2>1, <2>2, <2>3, <2>5 DEF FulfilledOf
    <3> QED
      BY <2>1, <2>3, <3>1 DEF Service!service
  <2> QED
    BY <2>4, <2>5 DEF Service!Next
<1>10. CASE UNCHANGED <<pc, op, buf, cur, accepted, result, closed, wrapped>>
  BY <1>10, SameView DEF Service!service
<1>11. (\E c \in Callers : Service!Ask(c) \/ Service!BeginTurn(c) \/ Service!PutRequest(c))
         => Service!Next
  BY DEF Service!Next
<1> QED
  BY <1>1, <1>2, <1>3, <1>4, <1>5, <1>6, <1>7, <1>8, <1>9, <1>10, <1>11 DEF Next, Transact,
     DispatchReply, DispatchOther, StopReading, WriteFrame, StopWriting, Tick, PanelIgnores,
     PanelSends

\* Whatever callers, reader, writer, clock and panel do, a caller sees no more than
\* the service allows (session.rs SessionHandle).
THEOREM Implements == Spec => ServiceSpec
<1>1. Init => Service!Init
  BY ServiceInit
<1>2. ServiceInv /\ ServiceInv' /\ [Next]_vars => [Service!Next]_(Service!service)
  BY ServiceStep
<1> QED
  BY <1>1, <1>2, ServiceInvariance, PTL DEF Spec, ServiceSpec, Service!Spec

-----------------------------------------------------------------------------
(***************************************************************************)
(* An XML reply is assembled from consecutive chunks of one reply of the   *)
(* panel.                                                                  *)
(*                                                                         *)
(* The panel keeps one place in one reply at a time, and any XML request   *)
(* moves it.  A caller that is past its first fragment must therefore be   *)
(* the only one with a request on its way: it is, because it has had the   *)
(* answer to the newest request, which travels behind all others           *)
(* (NewestIsLast), and because command_lock covers the continuations.  So  *)
(* the panel's place and the caller's last chunk agree (ChunksFollow).     *)
(***************************************************************************)

\* A request or an answer that is on its way was registered before, under a
\* rid of its own.
LEMMA InFlightIsKnown ==
  ASSUME ChannelInv
  PROVE  /\ \A q \in Requests : q \in Frame /\ q.rid \in DOMAIN log
         /\ \A r \in Answers : r \in Reply /\ r.rid \in DOMAIN log
         /\ Len(log) + 1 \notin DOMAIN log
<1>1. /\ outbox \in Seq(Frame) /\ panel_in \in Seq(Frame) /\ from_panel \in Seq(Reply)
      /\ log \in Seq(Seqs)
  BY DEF ChannelInv, TypeOK
<1>2. RequestsAreKnown
  BY DEF ChannelInv
<1> QED
  BY <1>1, <1>2 DEF Requests, Answers, RequestsAreKnown

\* Sending adds the caller's request to those on their way (session.rs send).
LEMMA SentRequest ==
  ASSUME ChannelInv, NEW c \in Callers, Send(c)
  PROVE  \E q : /\ Requests' \subseteq Requests \cup {q}
                /\ q.rid = cur[c] /\ q.major = op[c] /\ (q.cont <=> buf[c] # <<>>)
                /\ panel_in' = panel_in
                /\ outbox' = outbox \/ outbox' = Append(outbox, q)
<1> DEFINE q == [major |-> op[c], seq |-> log[cur[c]], rid |-> cur[c], cont |-> buf[c] # <<>>]
<1>1. outbox \in Seq(Frame)
  BY DEF ChannelInv, TypeOK
<1>2. panel_in' = panel_in /\ (outbox' = outbox \/ outbox' = Append(outbox, q))
  BY DEF Send, panelVars
<1>3. q.rid = cur[c] /\ q.major = op[c] /\ (q.cont <=> buf[c] # <<>>)
  OBVIOUS
<1> HIDE DEF q
<1>4. ASSUME NEW j \in DOMAIN outbox'
      PROVE  outbox'[j] = q \/ (j \in DOMAIN outbox /\ outbox'[j] = outbox[j])
  BY <1>1, <1>2
<1>5. Requests' \subseteq Requests \cup {q}
  BY <1>2, <1>4 DEF Requests
<1> QED
  BY <1>2, <1>3, <1>5

\* The panel answers the request in front, and moves its place in the reply when
\* the request is for XML (panel_in, stream).
LEMMA GivenAnswer ==
  ASSUME ChannelInv, PanelAnswers
  PROVE  /\ panel_in # <<>> /\ panel_in' = Tail(panel_in)
         /\ 1 \in DOMAIN panel_in /\ panel_in[1] \in Requests
         /\ \E a : /\ Answers' \subseteq Answers \cup {a} /\ a.rid = panel_in[1].rid
                   /\ panel_in[1].major = "xml" => stream' = [of |-> a.of, chunk |-> a.chunk]
                   /\ panel_in[1].major # "xml" => stream' = stream
                   /\ IF panel_in[1].cont THEN a.of = stream.of /\ a.chunk = stream.chunk + 1
                      ELSE a.chunk = 1
<1> DEFINE r == Head(panel_in)
           s == IF r.cont THEN [of |-> stream.of, chunk |-> stream.chunk + 1]
                ELSE [of |-> r.rid, chunk |-> 1]
<1>1. panel_in \in Seq(Frame) /\ from_panel \in Seq(Reply)
  BY DEF ChannelInv, TypeOK
<1>2. panel_in # <<>> /\ panel_in' = Tail(panel_in) /\ stream' = IF r.major = "xml" THEN s ELSE stream
  BY DEF PanelAnswers
<1>3. 1 \in DOMAIN panel_in /\ r = panel_in[1] /\ panel_in[1] \in Requests
  BY <1>1, <1>2 DEF Requests
<1>4. PICK b : from_panel' = Append(from_panel, [major |-> r.major, seq |-> r.seq,
                 rid |-> r.rid, body |-> b, of |-> s.of, chunk |-> s.chunk])
  BY DEF PanelAnswers
<1> DEFINE a == [major |-> r.major, seq |-> r.seq, rid |-> r.rid, body |-> b,
                 of |-> s.of, chunk |-> s.chunk]
<1>5. a.rid = r.rid /\ a.of = s.of /\ a.chunk = s.chunk
  OBVIOUS
<1>6. s = [of |-> s.of, chunk |-> s.chunk]
  OBVIOUS
<1>7. IF r.cont THEN s.of = stream.of /\ s.chunk = stream.chunk + 1 ELSE s.chunk = 1
  OBVIOUS
<1>8. Answers' \subseteq Answers \cup {a}
  <2> HIDE DEF a
  <2>1. from_panel' = Append(from_panel, a)
    BY <1>4 DEF a
  <2>2. ASSUME NEW j \in DOMAIN from_panel'
        PROVE  from_panel'[j] = a \/ (j \in DOMAIN from_panel /\ from_panel'[j] = from_panel[j])
    BY <1>1, <2>1
  <2> QED
    BY <2>2 DEF Answers
<1> HIDE DEF r, s, a
<1> QED
  BY <1>2, <1>3, <1>5, <1>6, <1>7, <1>8

\* Nothing else puts a request or an answer on its way.
LEMMA InFlightShrinks ==
  ASSUME ChannelInv, [Next]_vars
  PROVE  /\ (\A c \in Callers : ~Send(c)) => Requests' \subseteq Requests
         /\ ~PanelAnswers => Answers' \subseteq Answers
<1> USE DEF vars, callerVars, linkVars, writerVars, panelVars
<1>t. /\ outbox \in Seq(Frame) /\ panel_in \in Seq(Frame) /\ from_panel \in Seq(Reply)
      /\ log \in Seq(Seqs)
  BY DEF ChannelInv, TypeOK
<1>1. ASSUME \A c \in Callers : ~Send(c) PROVE Requests' \subseteq Requests
  <2>1. CASE UNCHANGED <<outbox, panel_in>>
    BY <2>1 DEF Requests
  <2>2. CASE WriteFrame
    <3>1. /\ outbox # <<>> /\ outbox' = Tail(outbox)
          /\ panel_in' = panel_in \/ (Head(outbox).major # "ack" /\ panel_in' = Append(panel_in, Head(outbox)))
      BY <2>2 DEF WriteFrame
    <3>2. 1 \in DOMAIN outbox /\ Head(outbox) = outbox[1] /\ outbox[1] \in Frame
      BY <1>t, <3>1
    <3>3. \A j \in DOMAIN outbox' : j + 1 \in DOMAIN outbox /\ outbox'[j] = outbox[j + 1]
      BY <1>t, <3>1
    <3>4. \A j \in DOMAIN panel_in' :
            \/ j \in DOMAIN panel_in /\ panel_in'[j] = panel_in[j]
            \/ panel_in'[j] = outbox[1] /\ outbox[1].major \in Majors
      <4>1. outbox[1].major # "ack" => outbox[1].major \in Majors
        BY <3>2 DEF Frame
      <4>2. Head(outbox) = outbox[1]
        BY <3>2
      <4>3. CASE panel_in' = panel_in
        BY <4>3
      <4>4. CASE outbox[1].major # "ack" /\ panel_in' = Append(panel_in, outbox[1])
        BY <1>t, <4>1, <4>4
      <4> QED
        BY <3>1, <4>2, <4>3, <4>4
    <3> QED
      BY <3>2, <3>3, <3>4 DEF Requests
  <2>3. CASE StopWriting
    BY <2>3 DEF StopWriting, Requests
  <2>4. CASE PanelAnswers \/ PanelIgnores
    <3>1. panel_in # <<>> /\ panel_in' = Tail(panel_in) /\ outbox' = outbox
      BY <2>4 DEF PanelAnswers, PanelIgnores
    <3>2. \A j \in DOMAIN panel_in' : j + 1 \in DOMAIN panel_in /\ panel_in'[j] = panel_in[j + 1]
      BY <1>t, <3>1
    <3> QED
      BY <3>1, <3>2 DEF Requests
  <2>5. CASE DispatchOther
    <3> DEFINE a == [major |-> "ack", seq |-> Head(from_panel).seq, rid |-> 0, cont |-> FALSE]
    <3>1. panel_in' = panel_in /\ (outbox' = outbox \/ outbox' = Append(outbox, a))
      BY <2>5 DEF DispatchOther
    <3>2. a.major \notin Majors
      BY DEF Majors
    <3> HIDE DEF a
    <3>3. \A j \in DOMAIN outbox' :
            \/ j \in DOMAIN outbox /\ outbox'[j] = outbox[j]
            \/ outbox'[j] = a
      BY <1>t, <3>1
    <3> QED
      BY <3>1, <3>2, <3>3 DEF Requests
  <2> QED
    BY <1>1, <2>1, <2>2, <2>3, <2>4, <2>5 DEF Next, Transact, Call, Lock, TransactClosed,
       Register, GiveUpOnQuiet, Await, Conclude, DispatchReply, StopReading, Close, Tick,
       PanelSends
<1>2. ASSUME ~PanelAnswers PROVE Answers' \subseteq Answers
  <2>1. CASE UNCHANGED from_panel
    BY <2>1 DEF Answers
  <2>2. CASE DispatchReply \/ DispatchOther
    <3>1. from_panel # <<>> /\ from_panel' = Tail(from_panel)
      BY <2>2 DEF DispatchReply, DispatchOther
    <3>2. \A j \in DOMAIN from_panel' :
            j + 1 \in DOMAIN from_panel /\ from_panel'[j] = from_panel[j + 1]
      BY <1>t, <3>1
    <3> QED
      BY <3>2 DEF Answers
  <2>3. ASSUME NEW q \in PanelSeqs, NEW kind \in PanelKinds, PanelSends(q, kind)
        PROVE  Answers' \subseteq Answers
    <3> DEFINE f == [major |-> "other", seq |-> q, rid |-> 0, body |-> kind,
                     of |-> 0, chunk |-> 0]
    <3>1. from_panel' = Append(from_panel, f)
      BY <2>3 DEF PanelSends
    <3>2. f.major \notin Majors
      BY DEF Majors
    <3> HIDE DEF f
    <3>3. \A j \in DOMAIN from_panel' :
            \/ j \in DOMAIN from_panel /\ from_panel'[j] = from_panel[j]
            \/ from_panel'[j] = f
      BY <1>t, <3>1
    <3> QED
      BY <3>2, <3>3 DEF Answers
  <2> QED
    BY <1>2, <2>1, <2>2, <2>3 DEF Next, Transact, Call, Lock, TransactClosed, Register,
       GiveUpOnQuiet, Send, Await, Conclude, StopReading, Close, WriteFrame, StopWriting,
       Tick, PanelIgnores
<1> QED
  BY <1>1, <1>2
-----------------------------------------------------------------------------
\* What a caller in its turn, or ready to ask for a next fragment, was before a
\* step that registers nothing (session.rs transact, xml_query).
LEMMA TurnStep ==
  ASSUME ChannelInv, [Next]_vars, \A c \in Callers : ~Register(c), NEW d \in Callers
  PROVE  /\ log' = log /\ (~wrapped' => ~wrapped)
         /\ InTurn(d)' => /\ InTurn(d) /\ cur'[d] = cur[d] /\ op'[d] = op[d]
                          /\ buf'[d] = buf[d] /\ (pc'[d] = "send" => pc[d] = "send")
         /\ pc'[d] = "transact" /\ buf'[d] # <<>> =>
              (pc[d] = "transact" /\ buf'[d] = buf[d]) \/ Conclude(d)
<1> USE DEF vars, callerVars, linkVars, writerVars, panelVars, InTurn, Resolved
<1> DEFINE Goal == /\ log' = log /\ (~wrapped' => ~wrapped)
                   /\ InTurn(d)' => /\ InTurn(d) /\ cur'[d] = cur[d] /\ op'[d] = op[d]
                                    /\ buf'[d] = buf[d] /\ (pc'[d] = "send" => pc[d] = "send")
                   /\ pc'[d] = "transact" /\ buf'[d] # <<>> =>
                        (pc[d] = "transact" /\ buf'[d] = buf[d]) \/ Conclude(d)
<1>t. /\ pc \in [Callers -> Idle \cup Resolved \cup {"transact", "send", "await"}]
      /\ op \in [Callers -> Majors] /\ buf \in [Callers -> Seq(Chunk)]
      /\ cur \in [Callers -> Nat]
  BY DEF ChannelInv, TypeOK
<1>1. ASSUME NEW c \in Callers, NEW o \in Majors, Call(c, o) PROVE Goal
  BY <1>t, <1>1 DEF Call
<1>2. ASSUME NEW c \in Callers, Lock(c) PROVE Goal
  BY <1>t, <1>2 DEF Lock
<1>3. ASSUME NEW c \in Callers, TransactClosed(c) \/ GiveUpOnQuiet(c) PROVE Goal
  BY <1>t, <1>3 DEF TransactClosed, GiveUpOnQuiet, Return
<1>4. ASSUME NEW c \in Callers, Send(c) PROVE Goal
  BY <1>t, <1>4 DEF Send, Return
<1>5. ASSUME NEW c \in Callers, Await(c) PROVE Goal
  BY <1>t, <1>5 DEF Await
<1>6. ASSUME NEW c \in Callers, Conclude(c) PROVE Goal
  <2>1. CASE c = d
    <3>1. log' = log /\ wrapped' = wrapped
      BY <1>6 DEF Conclude
    <3>2. pc'[d] \in {"idle", "transact"}
      BY <1>6, <1>t, <2>1 DEF Conclude, TakeReply, Return
    <3> QED
      BY <1>6, <2>1, <3>1, <3>2
  <2>2. CASE c # d
    <3>1. log' = log /\ wrapped' = wrapped /\ cur' = cur /\ op' = op
      BY <1>6 DEF Conclude
    <3>2. pc'[d] = pc[d] /\ buf'[d] = buf[d]
      BY <1>6, <1>t, <2>2 DEF Conclude, TakeReply, Return
    <3> QED
      BY <3>1, <3>2
  <2> QED
    BY <2>1, <2>2
<1>7. ASSUME UNCHANGED <<pc, op, cur, buf, log, wrapped>> PROVE Goal
  BY <1>7
<1> HIDE DEF Goal, InTurn, Resolved
<1>0. \/ \E c \in Callers :
            \/ \E o \in Majors : Call(c, o)
            \/ Lock(c) \/ TransactClosed(c) \/ GiveUpOnQuiet(c)
            \/ Send(c) \/ Await(c) \/ Conclude(c)
      \/ UNCHANGED <<pc, op, cur, buf, log, wrapped>>
  BY DEF Next, Transact, DispatchReply, DispatchOther, StopReading, Close, WriteFrame,
     StopWriting, Tick, PanelAnswers, PanelIgnores, PanelSends
<1>8. Goal
  BY <1>0, <1>1, <1>2, <1>3, <1>4, <1>5, <1>6, <1>7
<1> QED
  BY <1>8 DEF Goal

\* Between two steps at most one caller is in its turn, or about to register.
LEMMA TurnIsMine ==
  ASSUME OneTransaction, NEW c \in Callers, NEW d \in Callers,
         pc[c] \notin Idle, pc[d] \notin Idle
  PROVE  c = d
  BY DEF OneTransaction

\* A new request is one nobody has asked or answered (session.rs transact).
LEMMA RegisterFacts ==
  ASSUME ChannelInv, [Next]_vars, NEW c \in Callers, Register(c)
  PROVE  /\ Len(log') = Len(log) + 1
         /\ pc[c] = "transact" /\ pc'[c] = "send" /\ cur'[c] = Len(log')
         /\ inbox'[c] = <<>> /\ buf' = buf /\ op' = op /\ stream' = stream
         /\ UNCHANGED <<outbox, panel_in>>
         /\ Requests' = Requests /\ Answers' = Answers
         /\ \A f \in Requests \cup Answers : f.rid # Len(log')
         /\ ~wrapped' => ~wrapped
         /\ \A d \in Callers : InTurn(d)' \/ pc'[d] = "transact" => d = c
<1> USE DEF vars, callerVars, linkVars, writerVars, panelVars
<1>t. /\ pc \in [Callers -> Idle \cup Resolved \cup {"transact", "send", "await"}]
      /\ cur \in [Callers -> Nat] /\ inbox \in [Callers -> Seq(Reply)]
      /\ log \in Seq(Seqs)
  BY DEF ChannelInv, TypeOK
<1>1. Len(log') = Len(log) + 1
  <2>1. log' = Append(log, NextSeq(next_seq))
    BY DEF Register
  <2> QED
    BY <1>t, <2>1
<1>2. /\ pc[c] = "transact" /\ pc'[c] = "send" /\ cur'[c] = Len(log) + 1
      /\ inbox'[c] = <<>> /\ buf' = buf /\ op' = op /\ stream' = stream
      /\ UNCHANGED <<outbox, panel_in, from_panel>> /\ (~wrapped' => ~wrapped)
  BY <1>t DEF Register
<1>3. Requests' = Requests /\ Answers' = Answers
  BY <1>2 DEF Requests, Answers
<1>4. \A f \in Requests \cup Answers : f.rid # Len(log) + 1
  BY InFlightIsKnown
<1>5. ASSUME NEW d \in Callers, InTurn(d)' \/ pc'[d] = "transact" PROVE d = c
  <2>1. OneTransaction'
    BY LockStep
  <2>2. pc'[d] \notin Idle /\ pc'[c] \notin Idle
    BY <1>2, <1>5 DEF InTurn, Idle, Resolved
  <2> QED
    BY <2>1, <2>2 DEF OneTransaction
<1> QED
  BY <1>1, <1>2, <1>3, <1>4, <1>5

\* What DispatchReply puts into a channel was among the answers.
LEMMA DispatchedAnswer ==
  ASSUME ChannelInv, DispatchReply, NEW d \in Callers, inbox'[d] # inbox[d]
  PROVE  /\ Head(from_panel) \in Answers /\ inbox'[d] = <<Head(from_panel)>>
         /\ ~wrapped => Head(from_panel).rid = cur[d]
<1>1. from_panel \in Seq(Reply) /\ from_panel # <<>> /\ Head(from_panel).major \in Majors
  BY DEF ChannelInv, TypeOK, DispatchReply
<1>2. 1 \in DOMAIN from_panel /\ Head(from_panel) = from_panel[1]
  BY <1>1
<1>3. Head(from_panel) \in Answers
  BY <1>1, <1>2 DEF Answers
<1>4. d \in Receivers(Matches(Head(from_panel))) /\ inbox'[d] = <<Head(from_panel)>>
  BY DEF DispatchReply
<1>5. ~wrapped => Head(from_panel).rid = cur[d]
  BY <1>4, ReplyIsForReceiver
<1> QED
  BY <1>3, <1>4, <1>5
-----------------------------------------------------------------------------
\* The newest request stays behind all others on its way through the write queue
\* to the panel.
LEMMA WayStep ==
  ASSUME ChannelInv, NewestIsLast, [Next]_vars
  PROVE  /\ \A i \in DOMAIN panel_in' :
              panel_in'[i].rid = Len(log') =>
                i = Len(panel_in') /\ \A j \in DOMAIN outbox' : outbox'[j].major \notin Majors
         /\ \A i, j \in DOMAIN outbox' :
              i < j /\ outbox'[i].major \in Majors /\ outbox'[i].rid = Len(log') =>
                outbox'[j].major \notin Majors
<1> USE DEF vars, callerVars, linkVars, writerVars, panelVars
<1> DEFINE AtPanel == \A i \in DOMAIN panel_in' :
              panel_in'[i].rid = Len(log') =>
                i = Len(panel_in') /\ \A j \in DOMAIN outbox' : outbox'[j].major \notin Majors
           InQueue == \A i, j \in DOMAIN outbox' :
              i < j /\ outbox'[i].major \in Majors /\ outbox'[i].rid = Len(log') =>
                outbox'[j].major \notin Majors
<1>t. /\ outbox \in Seq(Frame) /\ panel_in \in Seq(Frame) /\ log \in Seq(Seqs)
  BY DEF ChannelInv, TypeOK
<1>a. \A i \in DOMAIN panel_in :
        panel_in[i].rid = Len(log) =>
          i = Len(panel_in) /\ \A j \in DOMAIN outbox : outbox[j].major \notin Majors
  BY DEF NewestIsLast
<1>b. \A i, j \in DOMAIN outbox :
        i < j /\ outbox[i].major \in Majors /\ outbox[i].rid = Len(log) =>
          outbox[j].major \notin Majors
  BY DEF NewestIsLast
<1>k. /\ \A i \in DOMAIN panel_in : panel_in[i] \in Requests
      /\ \A i \in DOMAIN outbox : outbox[i].major \in Majors => outbox[i] \in Requests
  BY DEF Requests
<1>1. ASSUME NEW c \in Callers, Register(c) PROVE AtPanel /\ InQueue
  <2>1. /\ UNCHANGED <<outbox, panel_in>>
        /\ \A f \in Requests : f.rid # Len(log')
    BY <1>1, RegisterFacts
  <2> QED
    BY <1>k, <2>1
<1>2. ASSUME NEW c \in Callers, Send(c) PROVE AtPanel /\ InQueue
  <2>1. log' = log
    BY <1>2 DEF Send
  <2>2. \A f \in Requests : f.rid # Len(log)
    BY <1>2 DEF NewestIsLast, InTurn, Send
  <2>3. PICK q : panel_in' = panel_in /\ (outbox' = outbox \/ outbox' = Append(outbox, q))
    BY <1>2, SentRequest
  <2>4. AtPanel
    BY <1>k, <2>1, <2>2, <2>3
  <2>5. ASSUME NEW i \in DOMAIN outbox', NEW j \in DOMAIN outbox', i < j
        PROVE  i \in DOMAIN outbox /\ outbox'[i] = outbox[i]
    BY <1>t, <2>3, <2>5
  <2>6. InQueue
    BY <1>k, <2>1, <2>2, <2>5
  <2> QED
    BY <2>4, <2>6
<1>3. ASSUME WriteFrame PROVE AtPanel /\ InQueue
  <2>1. /\ outbox # <<>> /\ outbox' = Tail(outbox) /\ log' = log
        /\ IF Head(outbox).major = "ack" THEN panel_in' = panel_in
           ELSE panel_in' = Append(panel_in, Head(outbox))
    BY <1>3 DEF WriteFrame
  <2>2. /\ 1 \in DOMAIN outbox /\ Head(outbox) = outbox[1]
        /\ outbox[1].major # "ack" => outbox[1].major \in Majors
    <3>1. 1 \in DOMAIN outbox /\ Head(outbox) = outbox[1] /\ outbox[1] \in Frame
      BY <1>t, <2>1
    <3>2. \A f \in Frame : f.major # "ack" => f.major \in Majors
      BY DEF Frame
    <3> QED
      BY <3>1, <3>2
  <2>3. ASSUME NEW j \in DOMAIN outbox'
        PROVE  j + 1 \in DOMAIN outbox /\ outbox'[j] = outbox[j + 1] /\ 1 < j + 1 /\ j \in Int
    BY <1>t, <2>1
  <2>4. InQueue
    <3> SUFFICES ASSUME NEW i \in DOMAIN outbox', NEW j \in DOMAIN outbox', i < j,
                        outbox'[i].major \in Majors, outbox'[i].rid = Len(log')
                 PROVE  outbox'[j].major \notin Majors
      OBVIOUS
    <3>1. i + 1 < j + 1
      BY <2>3
    <3> QED
      BY <1>b, <2>1, <2>3, <3>1
  <2>5. AtPanel
    <3>1. CASE outbox[1].major = "ack"
      BY <1>a, <2>1, <2>2, <2>3, <3>1
    <3>2. CASE outbox[1].major # "ack"
      <4> SUFFICES ASSUME NEW i \in DOMAIN panel_in', panel_in'[i].rid = Len(log)
                   PROVE  i = Len(panel_in') /\
                          \A j \in DOMAIN outbox' : outbox'[j].major \notin Majors
        BY <2>1
      <4>1. panel_in' = Append(panel_in, outbox[1]) /\ outbox[1].major \in Majors
        BY <2>1, <2>2, <3>2
      <4>2. ~(i \in DOMAIN panel_in /\ panel_in'[i] = panel_in[i])
        BY <1>a, <2>2, <4>1
      <4>3. i = Len(panel_in') /\ panel_in'[i] = outbox[1]
        BY <1>t, <4>1, <4>2
      <4>4. \A j \in DOMAIN outbox' : outbox'[j].major \notin Majors
        BY <1>b, <2>2, <2>3, <4>1, <4>3
      <4> QED
        BY <4>3, <4>4
    <3> QED
      BY <3>1, <3>2
  <2> QED
    BY <2>4, <2>5
<1>4. ASSUME StopWriting PROVE AtPanel /\ InQueue
  <2>1. outbox' = <<>> /\ panel_in' = panel_in /\ log' = log
    BY <1>4 DEF StopWriting
  <2>2. DOMAIN outbox' = {}
    BY <2>1
  <2> QED
    BY <1>a, <2>1, <2>2
<1>5. ASSUME PanelAnswers \/ PanelIgnores PROVE AtPanel /\ InQueue
  <2>1. panel_in # <<>> /\ panel_in' = Tail(panel_in) /\ outbox' = outbox /\ log' = log
    BY <1>5 DEF PanelAnswers, PanelIgnores
  <2>2. ASSUME NEW i \in DOMAIN panel_in'
        PROVE  /\ i + 1 \in DOMAIN panel_in /\ panel_in'[i] = panel_in[i + 1]
               /\ i + 1 = Len(panel_in) => i = Len(panel_in')
    BY <1>t, <2>1
  <2> QED
    BY <1>a, <1>b, <2>1, <2>2
<1>6. ASSUME DispatchOther PROVE AtPanel /\ InQueue
  <2> DEFINE a == [major |-> "ack", seq |-> Head(from_panel).seq, rid |-> 0, cont |-> FALSE]
  <2>1. panel_in' = panel_in /\ log' = log /\ (outbox' = outbox \/ outbox' = Append(outbox, a))
    BY <1>6 DEF DispatchOther
  <2>2. a.major \notin Majors
    BY DEF Majors
  <2> HIDE DEF a
  <2>3. \A j \in DOMAIN outbox' :
          \/ j \in DOMAIN outbox /\ outbox'[j] = outbox[j]
          \/ outbox'[j] = a
    BY <1>t, <2>1
  <2> QED
    BY <1>a, <1>b, <2>1, <2>2, <2>3
<1>7. ASSUME UNCHANGED <<outbox, panel_in, log>> PROVE AtPanel /\ InQueue
  BY <1>a, <1>b, <1>7
<1> HIDE DEF AtPanel, InQueue
<1>8. \/ \E c \in Callers : Register(c) \/ Send(c)
      \/ WriteFrame \/ StopWriting \/ PanelAnswers \/ PanelIgnores \/ DispatchOther
      \/ UNCHANGED <<outbox, panel_in, log>>
  BY DEF Next, Transact, Call, Lock, TransactClosed, GiveUpOnQuiet, Await, Conclude,
     DispatchReply, StopReading, Close, Tick, PanelSends
<1>9. AtPanel /\ InQueue
  BY <1>1, <1>2, <1>3, <1>4, <1>5, <1>6, <1>7, <1>8
<1> QED
  BY <1>9 DEF AtPanel, InQueue

\* Once the newest request is answered none is on its way, and only then can the
\* caller ask again (session.rs transact, dispatch).
LEMMA NewestStep == ChannelInv /\ NewestIsLast /\ [Next]_vars => NewestIsLast'
<1> USE DEF vars, callerVars, linkVars, writerVars, panelVars
<1> SUFFICES ASSUME ChannelInv, NewestIsLast, [Next]_vars PROVE NewestIsLast'
  OBVIOUS
<1>0. OneTransaction
  BY DEF ChannelInv
<1>s. ASSUME NEW c \in Callers, Send(c)
      PROVE  /\ InTurn(c) /\ pc[c] = "send" /\ pc[c] \notin Idle /\ cur[c] = Len(log)
             /\ \A f \in Requests \cup Answers : f.rid # Len(log)
  BY <1>s DEF NewestIsLast, InTurn, Send, Idle
<1>a. PanelAnswers =>
        /\ Requests # {}
        /\ panel_in[1].rid = Len(log) => Requests' = {}
        /\ \E a : Answers' \subseteq Answers \cup {a} /\ a.rid = panel_in[1].rid
        /\ panel_in[1] \in Requests
  <2> SUFFICES ASSUME PanelAnswers
               PROVE  /\ Requests # {}
                      /\ panel_in[1].rid = Len(log) => Requests' = {}
                      /\ \E a : Answers' \subseteq Answers \cup {a} /\ a.rid = panel_in[1].rid
                      /\ panel_in[1] \in Requests
    OBVIOUS
  <2>1. ASSUME panel_in[1].rid = Len(log) PROVE Requests' = {}
    <3>1. 1 \in DOMAIN panel_in /\ panel_in' = Tail(panel_in) /\ outbox' = outbox
      BY GivenAnswer DEF PanelAnswers
    <3>2. 1 = Len(panel_in) /\ \A j \in DOMAIN outbox : outbox[j].major \notin Majors
      BY <2>1, <3>1 DEF NewestIsLast
    <3>3. panel_in \in Seq(Frame)
      BY DEF ChannelInv, TypeOK
    <3>4. DOMAIN panel_in' = {}
      BY <3>1, <3>2, <3>3
    <3> QED
      BY <3>1, <3>2, <3>4 DEF Requests
  <2> QED
    BY <2>1, GivenAnswer
<1>1. ASSUME NEW r \in Answers', r.rid = Len(log') PROVE Requests' = {}
  <2>1. ASSUME NEW c \in Callers, Register(c) PROVE FALSE
    BY <1>1, <2>1, RegisterFacts
  <2>2. log' = log
    BY <2>1 DEF Next, Transact, Call, Lock, TransactClosed, GiveUpOnQuiet, Send, Await,
       Conclude, DispatchReply, DispatchOther, StopReading, Close, WriteFrame, StopWriting,
       Tick, PanelAnswers, PanelIgnores, PanelSends
  <2>3. CASE PanelAnswers
    <3>1. CASE r \in Answers
      BY <1>1, <1>a, <2>2, <2>3, <3>1 DEF NewestIsLast
    <3>2. CASE r \notin Answers
      BY <1>1, <1>a, <2>2, <2>3, <3>2
    <3> QED
      BY <3>1, <3>2
  <2>4. CASE ~PanelAnswers
    <3>1. r \in Answers
      BY <2>4, InFlightShrinks
    <3>2. \A c \in Callers : ~Send(c)
      BY <1>1, <1>s, <2>2, <3>1
    <3> QED
      BY <1>1, <2>2, <3>1, <3>2, InFlightShrinks DEF NewestIsLast
  <2> QED
    BY <2>3, <2>4
<1>2. ASSUME NEW d \in Callers, InTurn(d)'
      PROVE  /\ cur'[d] = Len(log')
             /\ pc'[d] = "send" => \A f \in Requests' \cup Answers' : f.rid # Len(log')
             /\ inbox'[d] # <<>> /\ ~wrapped' => pc'[d] # "send" /\ Requests' = {}
  <2>1. ASSUME NEW c \in Callers, Register(c)
        PROVE  /\ cur'[d] = Len(log')
               /\ \A f \in Requests' \cup Answers' : f.rid # Len(log')
               /\ inbox'[d] = <<>>
    BY <1>2, <2>1, RegisterFacts
  <2>2. ASSUME \A c \in Callers : ~Register(c)
        PROVE  /\ cur'[d] = Len(log')
               /\ pc'[d] = "send" => \A f \in Requests' \cup Answers' : f.rid # Len(log')
               /\ inbox'[d] # <<>> /\ ~wrapped' => pc'[d] # "send" /\ Requests' = {}
    <3>1. /\ log' = log /\ (~wrapped' => ~wrapped) /\ InTurn(d) /\ cur'[d] = cur[d]
          /\ pc'[d] = "send" => pc[d] = "send"
      BY <1>2, <2>2, TurnStep
    <3>2. /\ cur[d] = Len(log)
          /\ pc[d] = "send" => \A f \in Requests \cup Answers : f.rid # Len(log)
          /\ inbox[d] # <<>> /\ ~wrapped => pc[d] # "send" /\ Requests = {}
      BY <3>1 DEF NewestIsLast
    <3>3. pc[d] \notin Idle
      BY <3>1 DEF InTurn, Idle, Resolved
    <3>4. ASSUME NEW c \in Callers, Send(c)
          PROVE  c = d /\ pc[d] = "send" /\ inbox' = inbox /\ pc'[d] # "send"
      <4>1. c = d
        BY <1>0, <1>s, <3>3, <3>4, TurnIsMine
      <4>2. pc[d] = "send" /\ inbox' = inbox /\ pc'[d] # "send"
        BY <3>4, <4>1 DEF Send, Return, ChannelInv, TypeOK
      <4> QED
        BY <4>1, <4>2
    <3>5. ASSUME pc'[d] = "send" PROVE \A f \in Requests' \cup Answers' : f.rid # Len(log')
      <4>1. Requests' \subseteq Requests
        BY <3>4, <3>5, InFlightShrinks
      <4>2. CASE PanelAnswers
        BY <1>a, <3>1, <3>2, <3>5, <4>1, <4>2
      <4>3. CASE ~PanelAnswers
        BY <3>1, <3>2, <3>5, <4>1, <4>3, InFlightShrinks
      <4> QED
        BY <4>2, <4>3
    <3>6. ASSUME inbox'[d] # <<>>, ~wrapped' PROVE pc'[d] # "send" /\ Requests' = {}
      <4>1. CASE DispatchReply /\ inbox'[d] # inbox[d]
        <5>1. Head(from_panel) \in Answers /\ Head(from_panel).rid = Len(log)
          BY <3>1, <3>2, <3>6, <4>1, DispatchedAnswer
        <5>2. Requests = {} /\ pc[d] # "send"
          BY <3>2, <5>1 DEF NewestIsLast
        <5>3. \A c \in Callers : ~Send(c)
          BY <3>4, <5>2
        <5> QED
          BY <3>1, <5>2, <5>3, InFlightShrinks
      <4>2. CASE inbox'[d] = inbox[d]
        <5>1. Requests = {} /\ pc[d] # "send"
          BY <3>1, <3>2, <3>6, <4>2
        <5>2. \A c \in Callers : ~Send(c)
          BY <3>4, <5>1
        <5> QED
          BY <3>1, <5>1, <5>2, InFlightShrinks
      <4>3. DispatchReply \/ inbox' = inbox
        BY <2>2 DEF Next, Transact, Call, Lock, TransactClosed, GiveUpOnQuiet, Send, Await,
           Conclude, DispatchOther, StopReading, Close, WriteFrame, StopWriting, Tick,
           PanelAnswers, PanelIgnores, PanelSends
      <4> QED
        BY <4>1, <4>2, <4>3
    <3> QED
      BY <3>1, <3>2, <3>5, <3>6
  <2> QED
    BY <2>1, <2>2
<1> QED
  BY <1>1, <1>2, WayStep DEF NewestIsLast

\* The chunk a caller takes is the one the panel is at (session.rs xml_query).
LEMMA TakenFits ==
  ASSUME ServiceInv, NewestIsLast, ChunksFollow, ~wrapped,
         NEW c \in Callers, Conclude(c), buf'[c] # buf[c]
  PROVE  /\ buf'[c] = Append(buf[c], stream) /\ stream' = stream /\ Requests' = {}
         /\ IF buf[c] = <<>> THEN stream.chunk = 1
            ELSE stream.of = buf[c][1].of /\ stream.chunk = Len(buf[c]) + 1
<1> DEFINE r == Head(inbox[c])
           x == [of |-> r.of, chunk |-> r.chunk]
<1>t. /\ pc \in [Callers -> Idle \cup Resolved \cup {"transact", "send", "await"}]
      /\ op \in [Callers -> Majors] /\ buf \in [Callers -> Seq(Chunk)]
      /\ inbox \in [Callers -> Seq(Reply)] /\ stream \in Chunk
  BY DEF ServiceInv, ChannelInv, TypeOK
<1>1. /\ pc[c] = "replied" /\ UNCHANGED <<stream, outbox, panel_in>>
      /\ buf' = [buf EXCEPT ![c] = Append(buf[c], x)]
      /\ r.body = "more" \/ op[c] = "xml"
  BY <1>t DEF Conclude, TakeReply, Return, writerVars, panelVars
<1>2. InTurn(c)
  BY <1>1 DEF InTurn, Resolved
<1>3. inbox[c] # <<>> /\ r = inbox[c][1]
  BY <1>t, <1>1 DEF ServiceInv, ChannelInv, InboxIsMine
<1>4. op[c] = "xml"
  BY <1>1, <1>3 DEF ServiceInv, ReplyFitsCall
<1>5. Requests = {} /\ Fits(c, r)
  BY <1>2, <1>3, <1>4 DEF NewestIsLast, ChunksFollow
<1>6. Requests' = {}
  BY <1>1, <1>5 DEF Requests
<1> HIDE DEF r
<1>7. x = stream
  BY <1>t, <1>5 DEF Fits, Chunk
<1>8. buf'[c] = Append(buf[c], x)
  BY <1>t, <1>1
<1> QED
  BY <1>1, <1>5, <1>6, <1>7, <1>8 DEF Fits

\* Chunks are appended in their order (session.rs xml_query).
LEMMA AssembledStep ==
  ServiceInv /\ NewestIsLast /\ ChunksFollow /\ AssembledInOrder /\ [Next]_vars => AssembledInOrder'
<1> USE DEF vars, callerVars, linkVars, writerVars, panelVars
<1> SUFFICES ASSUME ServiceInv, NewestIsLast, ChunksFollow, AssembledInOrder, [Next]_vars,
                    NEW d \in Callers, ~wrapped', NEW i \in DOMAIN buf'[d]
             PROVE  buf'[d][i].of = buf'[d][1].of /\ buf'[d][i].chunk = i
  BY DEF AssembledInOrder
<1>t. buf \in [Callers -> Seq(Chunk)] /\ stream \in Chunk
  BY DEF ServiceInv, ChannelInv, TypeOK
<1>w. ~wrapped
  BY DEF Next, Transact, Call, Lock, TransactClosed, Register, GiveUpOnQuiet, Send, Await,
     Conclude, DispatchReply, DispatchOther, StopReading, Close, WriteFrame, StopWriting,
     Tick, PanelAnswers, PanelIgnores, PanelSends
<1>0. \A k \in DOMAIN buf[d] : buf[d][k].of = buf[d][1].of /\ buf[d][k].chunk = k
  BY <1>w DEF AssembledInOrder
<1>1. CASE buf'[d] = buf[d]
  BY <1>0, <1>1
<1>2. CASE buf'[d] = <<>>
  BY <1>2
<1>3. CASE Conclude(d) /\ buf'[d] # buf[d]
  <2>1. /\ buf'[d] = Append(buf[d], stream)
        /\ IF buf[d] = <<>> THEN stream.chunk = 1
           ELSE stream.of = buf[d][1].of /\ stream.chunk = Len(buf[d]) + 1
    BY <1>3, <1>w, TakenFits
  <2>2. buf[d] \in Seq(Chunk)
    BY <1>t
  <2>3. CASE i \in DOMAIN buf[d]
    <3>1. buf'[d][i] = buf[d][i] /\ buf'[d][1] = buf[d][1]
      BY <2>1, <2>2, <2>3
    <3> QED
      BY <1>0, <2>3, <3>1
  <2>4. CASE i \notin DOMAIN buf[d]
    <3>1. i = Len(buf[d]) + 1 /\ buf'[d][i] = stream
      BY <2>1, <2>2, <2>4
    <3>2. CASE buf[d] = <<>>
      BY <2>1, <3>1, <3>2
    <3>3. CASE buf[d] # <<>>
      <4>1. buf'[d][1] = buf[d][1]
        BY <2>1, <2>2, <3>3
      <4> QED
        BY <2>1, <3>1, <3>3, <4>1
    <3> QED
      BY <3>2, <3>3
  <2> QED
    BY <2>3, <2>4
<1>4. buf'[d] = buf[d] \/ buf'[d] = <<>> \/ Conclude(d)
  <2>1. ASSUME NEW c \in Callers, Lock(c) PROVE buf'[d] = buf[d] \/ buf'[d] = <<>>
    BY <1>t, <2>1 DEF Lock
  <2>2. ASSUME NEW c \in Callers, Conclude(c), c # d PROVE buf'[d] = buf[d]
    BY <1>t, <2>2 DEF Conclude, TakeReply, Return
  <2> QED
    BY <2>1, <2>2 DEF Next, Transact, Call, TransactClosed, Register, GiveUpOnQuiet, Send,
       Await, DispatchReply, DispatchOther, StopReading, Close, WriteFrame, StopWriting,
       Tick, PanelAnswers, PanelIgnores, PanelSends
<1> QED
  BY <1>1, <1>2, <1>3, <1>4

\* The panel's place in the reply moves with the caller whose turn it is, and with
\* nobody else's requests (session.rs transact; stream).
LEMMA FollowStep ==
  ServiceInv /\ NewestIsLast /\ ChunksFollow /\ AssembledInOrder /\ [Next]_vars => ChunksFollow'
<1> USE DEF vars, callerVars, linkVars, writerVars, panelVars
<1> DEFINE Ready(d) == pc[d] = "transact" /\ buf[d] # <<>> =>
                         Requests = {} /\ stream = buf[d][Len(buf[d])]
           Asks(d) == \A q \in Requests :
                        q.rid = cur[d] => q.major = op[d] /\ (q.cont <=> buf[d] # <<>>)
           Alone(d) == buf[d] # <<>> => \A q \in Requests : q.rid = cur[d]
           Place(d) == buf[d] # <<>> /\ (pc[d] = "send" \/ Requests # {}) =>
                         stream = buf[d][Len(buf[d])]
           Coming(d) == op[d] = "xml" => \A r \in Answers : r.rid = cur[d] => Fits(d, r)
           Here(d) == op[d] = "xml" /\ inbox[d] # <<>> => Fits(d, inbox[d][1])
<1> SUFFICES ASSUME ServiceInv, NewestIsLast, ChunksFollow, AssembledInOrder, [Next]_vars,
                    NEW d \in Callers, ~wrapped'
             PROVE  /\ Ready(d)'
                    /\ InTurn(d)' => Asks(d)' /\ Alone(d)' /\ Place(d)' /\ Coming(d)' /\ Here(d)'
  BY DEF ChunksFollow
<1>t. /\ pc \in [Callers -> Idle \cup Resolved \cup {"transact", "send", "await"}]
      /\ op \in [Callers -> Majors] /\ buf \in [Callers -> Seq(Chunk)]
      /\ stream \in Chunk
  BY DEF ServiceInv, ChannelInv, TypeOK
<1>c. ChannelInv /\ OneTransaction
  BY DEF ServiceInv, ChannelInv
<1>w. ~wrapped
  BY DEF Next, Transact, Call, Lock, TransactClosed, Register, GiveUpOnQuiet, Send, Await,
     Conclude, DispatchReply, DispatchOther, StopReading, Close, WriteFrame, StopWriting,
     Tick, PanelAnswers, PanelIgnores, PanelSends
<1>0. Ready(d) /\ (InTurn(d) => Asks(d) /\ Alone(d) /\ Place(d) /\ Coming(d) /\ Here(d))
  BY <1>w DEF ChunksFollow
<1>n. InTurn(d) =>
        /\ cur[d] = Len(log)
        /\ pc[d] = "send" => \A f \in Requests \cup Answers : f.rid # Len(log)
        /\ inbox[d] # <<>> => Requests = {}
  BY <1>w DEF NewestIsLast
<1>1. ASSUME NEW c \in Callers, Register(c)
      PROVE  /\ Ready(d)'
             /\ InTurn(d)' => Asks(d)' /\ Alone(d)' /\ Place(d)' /\ Coming(d)' /\ Here(d)'
  <2>0. pc'[d] # "transact"
    BY <1>c, <1>1, RegisterFacts
  <2>1. ASSUME InTurn(d)'
        PROVE  Asks(d)' /\ Alone(d)' /\ Place(d)' /\ Coming(d)' /\ Here(d)'
    <3>1. /\ d = c /\ pc[d] = "transact" /\ cur'[d] = Len(log') /\ inbox'[d] = <<>>
          /\ buf' = buf /\ stream' = stream /\ Requests' = Requests /\ Answers' = Answers
          /\ \A f \in Requests \cup Answers : f.rid # Len(log')
      BY <1>c, <1>1, <2>1, RegisterFacts
    <3> QED
      BY <1>0, <3>1
  <2> QED
    BY <2>0, <2>1
<1>2. ASSUME \A c \in Callers : ~Register(c)
      PROVE  Ready(d)'
  <2> SUFFICES ASSUME pc'[d] = "transact", buf'[d] # <<>>
               PROVE  Requests' = {} /\ stream' = buf'[d][Len(buf'[d])]
    OBVIOUS
  <2>1. CASE pc[d] = "transact" /\ buf'[d] = buf[d]
    <3>1. Requests = {} /\ stream = buf[d][Len(buf[d])]
      BY <1>0, <2>1
    <3>2. ASSUME NEW c \in Callers, Send(c) PROVE FALSE
      BY <1>c, <2>1, <3>2, TurnIsMine DEF Send, Idle
    <3>3. ~PanelAnswers
      BY <1>c, <3>1, GivenAnswer
    <3>4. stream' = stream
      BY <3>3 DEF Next, Transact, Call, Lock, TransactClosed, Register, GiveUpOnQuiet, Send,
         Await, Conclude, DispatchReply, DispatchOther, StopReading, Close, WriteFrame,
         StopWriting, Tick, PanelIgnores, PanelSends
    <3> QED
      BY <1>c, <2>1, <3>1, <3>2, <3>4, InFlightShrinks
  <2>2. CASE Conclude(d) /\ buf'[d] # buf[d]
    <3>1. buf'[d] = Append(buf[d], stream) /\ stream' = stream /\ Requests' = {}
      BY <1>w, <2>2, TakenFits
    <3>2. buf[d] \in Seq(Chunk)
      BY <1>t
    <3> QED
      BY <3>1, <3>2
  <2>3. CASE Conclude(d) /\ buf'[d] = buf[d]
    <3>1. pc'[d] # "transact" \/ buf'[d] = Append(buf[d],
            [of |-> Head(inbox[d]).of, chunk |-> Head(inbox[d]).chunk])
      BY <1>t, <2>3 DEF Conclude, TakeReply, Return
    <3>2. buf[d] \in Seq(Chunk) /\ \A x : Append(buf[d], x) # buf[d]
      BY <1>t
    <3> QED
      BY <2>3, <3>1, <3>2
  <2> QED
    BY <1>2, <1>c, <2>1, <2>2, <2>3, TurnStep
<1>3. ASSUME \A c \in Callers : ~Register(c), InTurn(d)'
      PROVE  Asks(d)' /\ Alone(d)' /\ Place(d)' /\ Coming(d)' /\ Here(d)'
  <2>1. /\ log' = log /\ InTurn(d) /\ cur'[d] = cur[d] /\ op'[d] = op[d]
        /\ buf'[d] = buf[d] /\ (pc'[d] = "send" => pc[d] = "send")
    BY <1>3, <1>c, TurnStep
  <2>2. pc[d] \notin Idle /\ pc[d] # "transact"
    BY <2>1 DEF InTurn, Idle, Resolved
  <2>3. ASSUME NEW c \in Callers, Send(c)
        PROVE  Asks(d)' /\ Alone(d)' /\ Place(d)' /\ Coming(d)' /\ Here(d)'
    <3>1. c = d /\ pc[d] = "send" /\ UNCHANGED <<stream, inbox, from_panel>>
      BY <1>c, <2>2, <2>3, TurnIsMine DEF Send, Idle
    <3>2. PICK q : /\ Requests' \subseteq Requests \cup {q}
                   /\ q.rid = cur[d] /\ q.major = op[d] /\ (q.cont <=> buf[d] # <<>>)
      BY <1>c, <2>3, <3>1, SentRequest
    <3>3. Answers' = Answers
      BY <3>1 DEF Answers
    <3> QED
      BY <1>0, <1>n, <2>1, <3>1, <3>2, <3>3 DEF Fits
  <2>4. ASSUME PanelAnswers
        PROVE  Asks(d)' /\ Alone(d)' /\ Place(d)' /\ Coming(d)' /\ Here(d)'
    <3> DEFINE r == panel_in[1]
    <3>1. PICK a : /\ Answers' \subseteq Answers \cup {a} /\ a.rid = r.rid
                   /\ r.major = "xml" => stream' = [of |-> a.of, chunk |-> a.chunk]
                   /\ IF r.cont THEN a.of = stream.of /\ a.chunk = stream.chunk + 1
                      ELSE a.chunk = 1
      BY <1>c, <2>4, GivenAnswer
    <3>2. /\ r \in Requests /\ 1 \in DOMAIN panel_in /\ inbox' = inbox
          /\ panel_in' = Tail(panel_in) /\ outbox' = outbox
      BY <1>c, <2>4, GivenAnswer DEF PanelAnswers
    <3>3. Requests' \subseteq Requests
      BY <1>c, <2>4, InFlightShrinks DEF PanelAnswers, Send
    <3>4. inbox[d] = <<>> /\ ~\E f \in Answers : f.rid = Len(log)
      BY <1>n, <2>1, <3>2 DEF NewestIsLast
    <3>5. ASSUME r.rid = Len(log) PROVE Requests' = {}
      <4>1. 1 = Len(panel_in) /\ \A j \in DOMAIN outbox : outbox[j].major \notin Majors
        BY <3>2, <3>5 DEF NewestIsLast
      <4>2. panel_in \in Seq(Frame)
        BY <1>c DEF ChannelInv, TypeOK
      <4>3. DOMAIN panel_in' = {}
        BY <3>2, <4>1, <4>2
      <4> QED
        BY <3>2, <4>1, <4>3 DEF Requests
    <3> HIDE DEF r
    <3>6. Asks(d)' /\ Alone(d)' /\ Here(d)'
      BY <1>0, <2>1, <3>2, <3>3, <3>4
    <3>7. Place(d)'
      <4> SUFFICES ASSUME buf'[d] # <<>>, pc'[d] = "send" \/ Requests' # {} PROVE FALSE
        OBVIOUS
      <4>1. r.rid = Len(log)
        BY <1>0, <1>n, <2>1, <3>2
      <4> QED
        BY <1>n, <2>1, <3>2, <3>5, <4>1
    <3>8. ASSUME op'[d] = "xml", NEW f \in Answers', f.rid = cur'[d] PROVE Fits(d, f)'
      <4>1. f = a /\ r.rid = cur[d]
        BY <1>n, <2>1, <3>1, <3>4, <3>8
      <4>2. r.major = "xml" /\ (r.cont <=> buf[d] # <<>>)
        BY <1>0, <2>1, <3>2, <3>8, <4>1
      <4>3. a.of = stream'.of /\ a.chunk = stream'.chunk
        BY <3>1, <4>2
      <4>4. CASE buf[d] = <<>>
        BY <2>1, <3>1, <4>1, <4>2, <4>3, <4>4 DEF Fits
      <4>5. CASE buf[d] # <<>>
        <5>1. stream = buf[d][Len(buf[d])]
          BY <1>0, <2>1, <3>2, <4>5
        <5>2. buf[d] \in Seq(Chunk) /\ Len(buf[d]) \in DOMAIN buf[d]
          BY <1>t, <4>5
        <5>3. stream.of = buf[d][1].of /\ stream.chunk = Len(buf[d])
          BY <1>w, <5>1, <5>2 DEF AssembledInOrder
        <5>4. a.of = buf[d][1].of /\ a.chunk = Len(buf[d]) + 1
          BY <3>1, <4>2, <4>5, <5>3
        <5> QED
          BY <2>1, <4>1, <4>3, <4>5, <5>4 DEF Fits
      <4> QED
        BY <4>4, <4>5
    <3> QED
      BY <3>6, <3>7, <3>8
  <2>5. ASSUME ~PanelAnswers, \A c \in Callers : ~Send(c)
        PROVE  Asks(d)' /\ Alone(d)' /\ Place(d)' /\ Coming(d)' /\ Here(d)'
    <3>1. stream' = stream
      BY <2>5 DEF Next, Transact, Call, Lock, TransactClosed, Register, GiveUpOnQuiet,
         Await, Conclude, DispatchReply, DispatchOther, StopReading, Close, WriteFrame,
         StopWriting, Tick, PanelIgnores, PanelSends
    <3>2. Requests' \subseteq Requests /\ Answers' \subseteq Answers
      BY <1>c, <2>5, InFlightShrinks
    <3>3. Here(d)'
      <4>1. CASE inbox'[d] = inbox[d]
        BY <1>0, <2>1, <3>1, <4>1 DEF Fits
      <4>2. CASE DispatchReply /\ inbox'[d] # inbox[d]
        <5>1. /\ Head(from_panel) \in Answers /\ inbox'[d] = <<Head(from_panel)>>
              /\ Head(from_panel).rid = cur[d]
          BY <1>c, <1>w, <4>2, DispatchedAnswer
        <5>2. op[d] = "xml" => Fits(d, Head(from_panel))
          BY <1>0, <2>1, <5>1
        <5>3. inbox'[d][1] = Head(from_panel)
          BY <5>1
        <5> QED
          BY <2>1, <3>1, <5>2, <5>3 DEF Fits
      <4>3. DispatchReply \/ inbox' = inbox
        BY <1>3 DEF Next, Transact, Call, Lock, TransactClosed, GiveUpOnQuiet, Send, Await,
           Conclude, DispatchOther, StopReading, Close, WriteFrame, StopWriting, Tick,
           PanelAnswers, PanelIgnores, PanelSends
      <4> QED
        BY <4>1, <4>2, <4>3
    <3> QED
      BY <1>0, <2>1, <3>1, <3>2, <3>3 DEF Fits
  <2> QED
    BY <2>3, <2>4, <2>5
<1> QED
  BY <1>1, <1>2, <1>3

-----------------------------------------------------------------------------
\* The inductive invariant, together with the one behind the refinement, which
\* knows what kind of reply can reach which call (session.rs xml_query).
THEOREM Assembly == Spec => []AssemblyInv
<1>1. Init => NewestIsLast /\ ChunksFollow /\ AssembledInOrder
  BY DEF Init, NewestIsLast, ChunksFollow, AssembledInOrder, Requests, Answers, InTurn, Resolved
<1>2. ServiceInv /\ NewestIsLast /\ ChunksFollow /\ AssembledInOrder /\ [Next]_vars
        => NewestIsLast' /\ ChunksFollow' /\ AssembledInOrder'
  BY NewestStep, FollowStep, AssembledStep DEF ServiceInv
<1>3. ServiceInv /\ NewestIsLast /\ ChunksFollow /\ AssembledInOrder => AssemblyInv
  BY DEF AssemblyInv, ServiceInv
<1> QED
  BY <1>1, <1>2, <1>3, ServiceInvariance, PTL DEF Spec

\* Callers assemble their XML replies from consecutive chunks of one reply,
\* whatever else is said on the connection, up to the wrap of the 32-bit number
\* (session.rs xml_query, command_lock).
THEOREM RepliesAreWhole == Spec => []AssembledInOrder
<1>1. AssemblyInv => AssembledInOrder
  BY DEF AssemblyInv
<1> QED
  BY <1>1, Assembly, PTL
=============================================================================
