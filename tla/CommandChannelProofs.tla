------------------------ MODULE CommandChannelProofs ------------------------
(***************************************************************************)
(* ChannelInv is an invariant of CommandChannel, for any set of callers    *)
(* and any bounds.                                                         *)
(*                                                                         *)
(* The argument for OkMeansAccepted: Register gives every request a number *)
(* larger than all before it (NumberedInOrder, until the number wraps);    *)
(* the frame, the panel's answer and the entry in `pending' carry that     *)
(* number unchanged (RequestsAreKnown); so the entry that DispatchReply    *)
(* finds under an answer's number is the entry of the answered request,    *)
(* and what lies in a caller's channel answers that caller's request       *)
(* (InboxIsMine).  A step of one caller leaves the others alone because    *)
(* one transaction is in progress at a time (OneTransaction).              *)
(***************************************************************************)
EXTENDS CommandChannel, TLAPS

USE ChannelAssumption

\* wrapping_add stays within the width of the sequence number.
LEMMA NextSeqType == \A s \in Seqs : NextSeq(s) \in Seqs
  BY SMTT(30) DEF Seqs, NextSeq

\* A fresh connection (session.rs read_loop, Shared) satisfies the invariant.
LEMMA InitInv == Init => ChannelInv
<1> SUFFICES ASSUME Init PROVE ChannelInv
  OBVIOUS
<1>1. TypeOK
  <2>1. 0 \in Seqs
    BY DEF Seqs
  <2>2. stream \in Chunk
    BY DEF Init, Chunk
  <2> QED
    <3>1. /\ command_lock \in Callers \cup {NoCaller}
          /\ pc \in [Callers -> Idle \cup Resolved \cup {"transact", "send", "await"}]
          /\ op \in [Callers -> Majors]
          /\ cur \in [Callers -> Nat]
          /\ left \in [Callers -> 0..CommandTimeout]
          /\ result \in [Callers -> Results]
      BY DEF Init, Idle, Majors, Results
    <3>2. /\ buf \in [Callers -> Seq(Chunk)]
          /\ inbox \in [Callers -> Seq(Reply)]
      BY DEF Init
    <3>3. /\ outbox \in Seq(Frame) /\ Len(outbox) <= WriteQueueLen
          /\ panel_in \in Seq(Frame) /\ from_panel \in Seq(Reply) /\ log \in Seq(Seqs)
      BY DEF Init
    <3>4. /\ next_seq \in Seqs
          /\ pending \in SUBSET Entry /\ accepted \in SUBSET Nat
          /\ since_rx \in 0..QuietTime /\ calls \in 0..MaxCalls
          /\ writer \in {"running", "stopped"} /\ reader \in {"running", "stopped"}
      BY <2>1 DEF Init
    <3>5. closed \in BOOLEAN /\ wrapped \in BOOLEAN
      BY DEF Init
    <3> QED
      BY <2>2, <3>1, <3>2, <3>3, <3>4, <3>5 DEF TypeOK
<1>2. RequestsAreKnown /\ NumberedInOrder
  BY DEF Init, RequestsAreKnown, NumberedInOrder
<1>3. InboxIsMine /\ OneTransaction
  BY DEF Init, InboxIsMine, OneTransaction, Idle, Resolved
<1>4. ClosedHasNoPending /\ OkMeansAccepted
  BY DEF Init, ClosedHasNoPending, OkMeansAccepted
<1> QED
  BY <1>1, <1>2, <1>3, <1>4 DEF ChannelInv

\* A call that returns, with any result, keeps the callers' part well typed.
LEMMA ReturnType ==
  ASSUME TypeOK, NEW c \in Callers, NEW r \in Results, Return(c, r)
  PROVE  /\ command_lock' \in Callers \cup {NoCaller}
         /\ pc' \in [Callers -> Idle \cup Resolved \cup {"transact", "send", "await"}]
         /\ result' \in [Callers -> Results]
         /\ left' \in [Callers -> 0..CommandTimeout]
  BY SMTT(60) DEF Return, TypeOK, Idle

\* Every step keeps the state well typed: among others, the write queue never
\* exceeds WRITE_QUEUE_LEN, and numbers keep their width.
LEMMA TypeStep == ChannelInv /\ [Next]_vars => TypeOK'
<1> USE DEF vars, callerVars, linkVars, writerVars, panelVars
<1> SUFFICES ASSUME ChannelInv, [Next]_vars PROVE TypeOK'
  OBVIOUS
<1>0. TypeOK /\ InboxIsMine /\ RequestsAreKnown
  BY DEF ChannelInv
<1>1. ASSUME NEW c \in Callers, NEW o \in Majors, Call(c, o) PROVE TypeOK'
  <2>1. calls' \in 0..MaxCalls
    BY <1>0, <1>1 DEF Call, TypeOK
  <2> QED
    BY <1>0, <1>1, <2>1 DEF Call, TypeOK, Idle
<1>2. ASSUME NEW c \in Callers, Lock(c) PROVE TypeOK'
  BY <1>0, <1>2 DEF Lock, TypeOK, Idle, Resolved
<1>3. ASSUME NEW c \in Callers, TransactClosed(c) PROVE TypeOK'
  BY <1>0, <1>3 DEF TransactClosed, Return, TypeOK, Idle, Resolved, Results
<1>4. ASSUME NEW c \in Callers, Register(c) PROVE TypeOK'
  BY <1>0, <1>4, NextSeqType DEF Register, TypeOK, Idle, Resolved, Entries, Entry
<1>5. ASSUME NEW c \in Callers, GiveUpOnQuiet(c) PROVE TypeOK'
  BY <1>0, <1>5 DEF GiveUpOnQuiet, Return, TypeOK, Idle, Resolved, Results
<1>6. ASSUME NEW c \in Callers, Send(c) PROVE TypeOK'
  <2> DEFINE f == [major |-> op[c], seq |-> log[cur[c]], rid |-> cur[c],
                   cont |-> buf[c] # <<>>]
  <2>1. f \in Frame
    <3>1. cur[c] \in DOMAIN log /\ log \in Seq(Seqs)
      BY <1>0, <1>6 DEF Send, InboxIsMine, TypeOK
    <3>2. log[cur[c]] \in Seqs /\ cur[c] \in Nat
      BY <1>0, <3>1 DEF TypeOK
    <3>3. op[c] \in Majors
      BY <1>0 DEF TypeOK
    <3> QED
      BY <3>2, <3>3 DEF Frame
  <2>2. CASE CanQueue
    <3>1. /\ outbox' = Append(outbox, f)
          /\ pc' = [pc EXCEPT ![c] = "await"]
          /\ UNCHANGED <<command_lock, left, result>>
      BY <1>6, <2>2 DEF Send
    <3>2. outbox' \in Seq(Frame) /\ Len(outbox') <= WriteQueueLen
      BY <1>0, <2>1, <2>2, <3>1 DEF TypeOK, CanQueue
    <3> QED
      BY <1>0, <1>6, <3>1, <3>2 DEF Send, TypeOK
  <2>3. CASE ~CanQueue
    <3>1. Return(c, "lost") /\ outbox' = outbox
      BY <1>6, <2>3 DEF Send
    <3> QED
      BY <1>0, <1>6, <3>1, ReturnType DEF Send, TypeOK, Results
  <2> QED
    BY <2>2, <2>3
<1>7. ASSUME NEW c \in Callers, Await(c) PROVE TypeOK'
  BY <1>0, <1>7 DEF Await, TypeOK, Idle, Resolved
<1>8. ASSUME NEW c \in Callers, Conclude(c) PROVE TypeOK'
  <2> DEFINE r == Head(inbox[c])
             more == Append(buf[c], [of |-> r.of, chunk |-> r.chunk])
  <2>1. pending' \in SUBSET Entry
    BY <1>0, <1>8 DEF Conclude, TypeOK
  <2>2. /\ UNCHANGED <<op, cur, inbox, next_seq, closed, since_rx, log, wrapped,
                      writerVars, reader, panelVars, calls>>
        /\ \/ /\ \E res \in Results : Return(c, res)
              /\ buf' = buf \/ (pc[c] = "replied" /\ buf' = [buf EXCEPT ![c] = more])
           \/ /\ pc[c] = "replied"
              /\ pc' = [pc EXCEPT ![c] = "transact"]
              /\ left' = [left EXCEPT ![c] = CommandTimeout]
              /\ buf' = [buf EXCEPT ![c] = more]
              /\ UNCHANGED <<command_lock, result>>
    BY <1>8 DEF Conclude, TakeReply, Results
  <2>3. buf' \in [Callers -> Seq(Chunk)]
    <3>1. ASSUME pc[c] = "replied" PROVE more \in Seq(Chunk)
      <4>1. inbox[c] \in Seq(Reply) /\ inbox[c] # <<>>
        BY <1>0, <3>1 DEF TypeOK, InboxIsMine
      <4>2. r \in Reply
        BY <4>1
      <4>3. [of |-> r.of, chunk |-> r.chunk] \in Chunk
        BY <4>2 DEF Reply, Chunk
      <4> QED
        BY <1>0, <4>3 DEF TypeOK
    <3> QED
      BY <1>0, <2>2, <3>1 DEF TypeOK
  <2> QED
    <3>1. CASE \E res \in Results : Return(c, res)
      BY <1>0, <2>1, <2>2, <2>3, <3>1, ReturnType DEF TypeOK
    <3>2. CASE /\ pc' = [pc EXCEPT ![c] = "transact"]
               /\ left' = [left EXCEPT ![c] = CommandTimeout]
               /\ UNCHANGED <<command_lock, result>>
      BY <1>0, <2>1, <2>2, <2>3, <3>2, SMTT(60) DEF TypeOK
    <3> QED
      BY <2>2, <3>1, <3>2
<1>9. CASE DispatchReply
  <2> DEFINE f == Head(from_panel)
  <2>1. f \in Reply /\ from_panel' \in Seq(Reply)
    BY <1>0, <1>9 DEF DispatchReply, TypeOK
  <2>2. next_seq' \in Seqs
    <3>1. f.seq \in Seqs
      BY <2>1 DEF Reply
    <3> QED
      BY <1>0, <1>9, <3>1 DEF DispatchReply, TypeOK, Larger
  <2>3. inbox' \in [Callers -> Seq(Reply)]
    <3>1. <<f>> \in Seq(Reply)
      BY <2>1
    <3>2. inbox' = [d \in Callers |->
                      IF d \in Receivers(Matches(f)) THEN <<f>> ELSE inbox[d]]
      BY <1>9 DEF DispatchReply
    <3>3. inbox \in [Callers -> Seq(Reply)]
      BY <1>0 DEF TypeOK
    <3> QED
      BY <3>1, <3>2, <3>3
  <2> QED
    BY <1>0, <1>9, <2>1, <2>2, <2>3 DEF DispatchReply, TypeOK
<1>10. CASE DispatchOther
  <2> DEFINE f == Head(from_panel)
             a == [major |-> "ack", seq |-> f.seq, rid |-> 0, cont |-> FALSE]
  <2>1. f \in Reply /\ from_panel' \in Seq(Reply)
    BY <1>0, <1>10 DEF DispatchOther, TypeOK
  <2>2. f.seq \in Seqs /\ a \in Frame
    <3>1. f.seq \in Seqs
      BY <2>1 DEF Reply
    <3> HIDE DEF f
    <3> QED
      BY <3>1 DEF Frame
  <2>3. next_seq' \in Seqs
    BY <1>0, <1>10, <2>2 DEF DispatchOther, TypeOK, Larger
  <2>4. outbox' \in Seq(Frame) /\ Len(outbox') <= WriteQueueLen
    <3>1. outbox' = outbox \/ (CanQueue /\ outbox' = Append(outbox, a))
      BY <1>10 DEF DispatchOther
    <3>2. outbox \in Seq(Frame) /\ Len(outbox) <= WriteQueueLen
      BY <1>0 DEF TypeOK
    <3>3. CASE outbox' = outbox
      BY <3>2, <3>3
    <3>4. CASE CanQueue /\ outbox' = Append(outbox, a)
      <4> HIDE DEF a
      <4> QED
        BY <2>2, <3>2, <3>4 DEF CanQueue
    <3> QED
      BY <3>1, <3>3, <3>4
  <2> QED
    BY <1>0, <1>10, <2>1, <2>3, <2>4, SMTT(60) DEF DispatchOther, TypeOK
<1>11. CASE StopReading
  BY <1>0, <1>11 DEF StopReading, TypeOK
<1>12. CASE Close
  BY <1>0, <1>12 DEF Close, PendingAfterClose, TypeOK
<1>13. CASE WriteFrame
  BY <1>0, <1>13 DEF WriteFrame, TypeOK
<1>14. CASE StopWriting
  BY <1>0, <1>14 DEF StopWriting, TypeOK
<1>15. CASE Tick
  <2>1. left' \in [Callers -> 0..CommandTimeout]
    BY <1>0, <1>15 DEF Tick, TypeOK
  <2>2. since_rx' \in 0..QuietTime
    BY <1>0, <1>15 DEF Tick, TypeOK
  <2> QED
    BY <1>0, <1>15, <2>1, <2>2 DEF Tick, TypeOK
<1>16. CASE PanelAnswers
  <2> DEFINE r == Head(panel_in)
             s == IF r.cont THEN [of |-> stream.of, chunk |-> stream.chunk + 1]
                  ELSE [of |-> r.rid, chunk |-> 1]
  <2>1. r \in Frame /\ r.major \in Majors /\ panel_in' \in Seq(Frame)
    BY <1>0, <1>16 DEF PanelAnswers, TypeOK, RequestsAreKnown
  <2>2. s \in Chunk /\ stream' \in Chunk
    <3>1. s \in Chunk
      BY <1>0, <2>1 DEF TypeOK, Frame, Chunk
    <3> QED
      BY <1>0, <1>16, <3>1 DEF PanelAnswers, TypeOK
  <2>3. PICK b \in {"more", "close", "ok", "rejected", "bad"} :
          /\ from_panel' = Append(from_panel,
               [major |-> r.major, seq |-> r.seq, rid |-> r.rid, body |-> b,
                of |-> s.of, chunk |-> s.chunk])
          /\ accepted' = IF b \in {"ok", "close"} THEN accepted \cup {r.rid}
                         ELSE accepted
    BY <1>16 DEF PanelAnswers
  <2>4. [major |-> r.major, seq |-> r.seq, rid |-> r.rid, body |-> b,
         of |-> s.of, chunk |-> s.chunk] \in Reply
    <3>1. s.of \in Nat /\ s.chunk \in Nat
      BY <2>2 DEF Chunk
    <3>2. r.seq \in Seqs /\ r.rid \in Nat
      BY <2>1 DEF Frame
    <3> HIDE DEF s, r
    <3> QED
      BY <2>1, <3>1, <3>2 DEF Reply
  <2>5. from_panel' \in Seq(Reply)
    BY <1>0, <2>3, <2>4 DEF TypeOK
  <2>6. accepted' \in SUBSET Nat
    BY <1>0, <2>1, <2>3 DEF TypeOK, Frame
  <2> QED
    BY <1>0, <1>16, <2>1, <2>2, <2>5, <2>6 DEF PanelAnswers, TypeOK
<1>17. CASE PanelIgnores
  BY <1>0, <1>17 DEF PanelIgnores, TypeOK
<1>18. ASSUME NEW q \in PanelSeqs, NEW kind \in PanelKinds, PanelSends(q, kind)
       PROVE  TypeOK'
  <2> DEFINE f == [major |-> "other", seq |-> q, rid |-> 0, body |-> kind,
                   of |-> 0, chunk |-> 0]
  <2>1. f \in Reply
    BY DEF Reply, Seqs
  <2>2. from_panel' = Append(from_panel, f)
    BY <1>18 DEF PanelSends
  <2>3. from_panel' \in Seq(Reply)
    BY <1>0, <2>1, <2>2 DEF TypeOK
  <2> QED
    BY <1>0, <1>18, <2>3 DEF PanelSends, TypeOK
<1>19. CASE UNCHANGED vars
  BY <1>0, <1>19 DEF TypeOK
<1> QED
  BY <1>1, <1>2, <1>3, <1>4, <1>5, <1>6, <1>7, <1>8, <1>9, <1>10, <1>11, <1>12,
     <1>13, <1>14, <1>15, <1>16, <1>17, <1>18, <1>19 DEF Next, Transact

\* log only grows, and only Register writes it.
LEMMA LogGrows ==
  ASSUME ChannelInv, [Next]_vars
  PROVE  /\ DOMAIN log \subseteq DOMAIN log'
         /\ \A i \in DOMAIN log : log'[i] = log[i]
<1> USE DEF vars, callerVars, linkVars, writerVars, panelVars
<1>0. log \in Seq(Seqs)
  BY DEF ChannelInv, TypeOK
<1>1. ASSUME NEW c \in Callers, Register(c)
      PROVE  /\ DOMAIN log \subseteq DOMAIN log'
             /\ \A i \in DOMAIN log : log'[i] = log[i]
  <2>1. log' = Append(log, NextSeq(next_seq))
    BY <1>1 DEF Register
  <2> QED
    BY <1>0, <2>1
<1>2. CASE \A c \in Callers : ~Register(c)
  <2>1. UNCHANGED log
    BY <1>2 DEF Next, Transact, Call, Lock, TransactClosed, GiveUpOnQuiet, Send,
       Await, Conclude, DispatchReply, DispatchOther, StopReading, Close,
       WriteFrame, StopWriting, Tick, PanelAnswers, PanelIgnores, PanelSends
  <2> QED
    BY <2>1
<1> QED
  BY <1>1, <1>2

\* A number is carried unchanged from registration through the write queue,
\* the panel and the socket.
LEMMA KnownStep == ChannelInv /\ [Next]_vars => RequestsAreKnown'
<1> USE DEF vars, callerVars, linkVars, writerVars, panelVars
<1> SUFFICES ASSUME ChannelInv, [Next]_vars PROVE RequestsAreKnown'
  OBVIOUS
<1>0. TypeOK /\ InboxIsMine /\ RequestsAreKnown
  BY DEF ChannelInv
<1>a. /\ DOMAIN log \subseteq DOMAIN log'
      /\ \A i \in DOMAIN log : log'[i] = log[i]
  BY LogGrows
<1>t. /\ outbox \in Seq(Frame) /\ panel_in \in Seq(Frame)
      /\ from_panel \in Seq(Reply) /\ log \in Seq(Seqs)
  BY <1>0 DEF TypeOK
<1> DEFINE P == \A e \in pending : e.rid \in DOMAIN log /\ e.seq = log[e.rid]
           O == \A i \in DOMAIN outbox :
                  outbox[i].major \in Majors =>
                    outbox[i].rid \in DOMAIN log /\ outbox[i].seq = log[outbox[i].rid]
           Q == \A i \in DOMAIN panel_in :
                  /\ panel_in[i].major \in Majors
                  /\ panel_in[i].rid \in DOMAIN log
                  /\ panel_in[i].seq = log[panel_in[i].rid]
           F == \A i \in DOMAIN from_panel :
                  from_panel[i].major \in Majors =>
                    /\ from_panel[i].rid \in DOMAIN log
                    /\ from_panel[i].seq = log[from_panel[i].rid]
                    /\ from_panel[i].body \in {"ok", "close"} =>
                         from_panel[i].rid \in accepted
<1>1. P'
  <2>1. ASSUME NEW c \in Callers, Register(c) PROVE P'
    <3>1. /\ log' = Append(log, NextSeq(next_seq))
          /\ pending' \subseteq pending \cup {[major |-> op[c], seq |-> NextSeq(next_seq),
                                               rid |-> Len(log) + 1]}
      BY <2>1 DEF Register
    <3>2. P
      BY <1>0 DEF RequestsAreKnown
    <3> QED
      BY <1>t, <1>a, <3>1, <3>2
  <2>2. CASE \A c \in Callers : ~Register(c)
    <3>1. pending' \subseteq pending
      BY <2>2 DEF Next, Transact, Call, Lock, TransactClosed, GiveUpOnQuiet, Send,
         Await, Conclude, DispatchReply, DispatchOther, StopReading, Close,
         WriteFrame, StopWriting, Tick, PanelAnswers, PanelIgnores, PanelSends,
         PendingAfterClose
    <3> QED
      BY <1>0, <1>a, <3>1 DEF RequestsAreKnown
  <2> QED
    BY <2>1, <2>2
<1>2. O'
  <2>0. O
    BY <1>0 DEF RequestsAreKnown
  <2>1. ASSUME NEW c \in Callers, Send(c), CanQueue PROVE O'
    <3>1. cur[c] \in DOMAIN log
      BY <1>0, <2>1 DEF Send, InboxIsMine
    <3>2. /\ outbox' = Append(outbox, [major |-> op[c], seq |-> log[cur[c]],
                                      rid |-> cur[c], cont |-> buf[c] # <<>>])
          /\ log' = log
      BY <2>1 DEF Send
    <3> QED
      BY <1>t, <2>0, <3>1, <3>2
  <2>2. ASSUME DispatchOther, CanQueue, outbox' # outbox PROVE O'
    <3>1. /\ outbox' = Append(outbox, [major |-> "ack", seq |-> Head(from_panel).seq,
                                      rid |-> 0, cont |-> FALSE])
          /\ log' = log
      BY <2>2 DEF DispatchOther
    <3> QED
      BY <1>t, <2>0, <3>1 DEF Majors
  <2>3. CASE WriteFrame
    <3>1. outbox # <<>> /\ outbox' = Tail(outbox) /\ log' = log
      BY <2>3 DEF WriteFrame
    <3> QED
      BY <1>t, <2>0, <3>1
  <2>4. CASE StopWriting
    BY <2>4 DEF StopWriting
  <2>5. CASE outbox' = outbox
    BY <1>a, <2>0, <2>5
  <2>6. \/ \E c \in Callers : Send(c) /\ CanQueue
        \/ DispatchOther /\ CanQueue /\ outbox' # outbox
        \/ WriteFrame \/ StopWriting \/ outbox' = outbox
    BY DEF Next, Transact, Call, Lock, TransactClosed, Register, GiveUpOnQuiet,
       Send, Await, Conclude, DispatchReply, DispatchOther, StopReading, Close,
       Tick, PanelAnswers, PanelIgnores, PanelSends
  <2> QED
    BY <2>1, <2>2, <2>3, <2>4, <2>5, <2>6
<1>3. Q'
  <2>0. O /\ Q
    BY <1>0 DEF RequestsAreKnown
  <2>1. CASE WriteFrame
    <3>1. Head(outbox) = outbox[1] /\ 1 \in DOMAIN outbox /\ log' = log
      BY <1>t, <2>1 DEF WriteFrame
    <3>2. CASE Head(outbox).major = "ack"
      BY <2>0, <2>1, <3>1, <3>2 DEF WriteFrame
    <3>3. CASE Head(outbox).major # "ack"
      <4>1. panel_in' = Append(panel_in, outbox[1])
        BY <2>1, <3>1, <3>3 DEF WriteFrame
      <4>2. outbox[1].major \in Majors
        <5>1. outbox[1] \in Frame /\ outbox[1].major # "ack"
          BY <1>t, <3>1, <3>3
        <5>2. outbox[1].major \in Majors \cup {"ack"}
          BY <5>1 DEF Frame
        <5> QED
          BY <5>1, <5>2
      <4> QED
        BY <1>t, <2>0, <3>1, <4>1, <4>2
    <3> QED
      BY <3>2, <3>3
  <2>2. CASE panel_in # <<>> /\ panel_in' = Tail(panel_in)
    BY <1>a, <1>t, <2>0, <2>2
  <2>3. CASE panel_in' = panel_in
    BY <1>a, <2>0, <2>3
  <2>4. \/ WriteFrame
        \/ panel_in # <<>> /\ panel_in' = Tail(panel_in)
        \/ panel_in' = panel_in
    BY DEF Next, Transact, Call, Lock, TransactClosed, Register, GiveUpOnQuiet,
       Send, Await, Conclude, DispatchReply, DispatchOther, StopReading, Close,
       StopWriting, Tick, PanelAnswers, PanelIgnores, PanelSends
  <2> QED
    BY <2>1, <2>2, <2>3, <2>4
<1>4. F'
  <2>0. Q /\ F
    BY <1>0 DEF RequestsAreKnown
  <2>1. CASE PanelAnswers
    <3> DEFINE r == panel_in[1]
    <3>1. Head(panel_in) = r /\ 1 \in DOMAIN panel_in /\ log' = log
      BY <1>t, <2>1 DEF PanelAnswers
    <3>2. r.major \in Majors /\ r.rid \in DOMAIN log /\ r.seq = log[r.rid]
      BY <2>0, <3>1
    <3>3. PICK b, x, y :
            /\ from_panel' = Append(from_panel,
                 [major |-> r.major, seq |-> r.seq, rid |-> r.rid, body |-> b,
                  of |-> x, chunk |-> y])
            /\ accepted' = IF b \in {"ok", "close"} THEN accepted \cup {r.rid}
                           ELSE accepted
      BY <2>1, <3>1 DEF PanelAnswers
    <3> DEFINE f == [major |-> r.major, seq |-> r.seq, rid |-> r.rid, body |-> b,
                     of |-> x, chunk |-> y]
    <3>4. /\ f.rid \in DOMAIN log /\ f.seq = log[f.rid]
          /\ f.body \in {"ok", "close"} => f.rid \in accepted'
      BY <3>2, <3>3
    <3>5. accepted \subseteq accepted' /\ from_panel' = Append(from_panel, f)
      BY <3>3
    <3> HIDE DEF f
    <3> QED
      BY <1>t, <2>0, <3>1, <3>4, <3>5
  <2>2. ASSUME NEW q \in PanelSeqs, NEW kind \in PanelKinds, PanelSends(q, kind)
        PROVE  F'
    <3>1. /\ from_panel' = Append(from_panel,
               [major |-> "other", seq |-> q, rid |-> 0, body |-> kind,
                of |-> 0, chunk |-> 0])
          /\ log' = log /\ accepted' = accepted
      BY <2>2 DEF PanelSends
    <3> QED
      BY <1>t, <2>0, <3>1 DEF Majors
  <2>3. CASE from_panel # <<>> /\ from_panel' = Tail(from_panel) /\ accepted' = accepted
    BY <1>a, <1>t, <2>0, <2>3
  <2>4. CASE from_panel' = from_panel /\ accepted' = accepted
    BY <1>a, <2>0, <2>4
  <2>5. \/ PanelAnswers
        \/ \E q \in PanelSeqs, kind \in PanelKinds : PanelSends(q, kind)
        \/ from_panel # <<>> /\ from_panel' = Tail(from_panel) /\ accepted' = accepted
        \/ from_panel' = from_panel /\ accepted' = accepted
    BY DEF Next, Transact, Call, Lock, TransactClosed, Register, GiveUpOnQuiet,
       Send, Await, Conclude, DispatchReply, DispatchOther, StopReading, Close,
       WriteFrame, StopWriting, Tick, PanelIgnores
  <2> QED
    BY <2>1, <2>2, <2>3, <2>4, <2>5
<1> QED
  BY <1>1, <1>2, <1>3, <1>4 DEF RequestsAreKnown

\* Register gives the next number, the reader only raises next_seq.
LEMMA NumberStep == ChannelInv /\ [Next]_vars => NumberedInOrder'
<1> USE DEF vars, callerVars, linkVars, writerVars, panelVars
<1> SUFFICES ASSUME ChannelInv, [Next]_vars, ~wrapped' PROVE NumberedInOrder'
  BY DEF NumberedInOrder
<1>0. /\ log \in Seq(Seqs) /\ next_seq \in Int /\ NextSeq(next_seq) \in Int
      /\ \A i \in DOMAIN log : log[i] \in Int
  <2>1. log \in Seq(Seqs) /\ next_seq \in Seqs
    BY DEF ChannelInv, TypeOK
  <2> QED
    BY <2>1, NextSeqType DEF Seqs
<1>1. NumberedInOrder
  BY DEF ChannelInv
<1>2. ASSUME NEW c \in Callers, Register(c) PROVE NumberedInOrder'
  <2>1. /\ log' = Append(log, NextSeq(next_seq)) /\ next_seq' = NextSeq(next_seq)
        /\ ~wrapped /\ ~(NextSeq(next_seq) <= next_seq)
    BY <1>2 DEF Register
  <2>2. \A i \in DOMAIN log : log[i] < NextSeq(next_seq)
    BY <1>0, <1>1, <2>1 DEF NumberedInOrder
  <2>3. /\ DOMAIN log' = DOMAIN log \cup {Len(log) + 1}
        /\ \A i \in DOMAIN log : log'[i] = log[i]
        /\ log'[Len(log) + 1] = NextSeq(next_seq)
        /\ DOMAIN log = 1..Len(log) /\ Len(log) \in Nat
    BY <1>0, <2>1
  <2>4. \A i \in DOMAIN log' : log'[i] <= next_seq'
    <3> SUFFICES ASSUME NEW i \in DOMAIN log' PROVE log'[i] <= next_seq'
      OBVIOUS
    <3>1. CASE i \in DOMAIN log
      <4>1. log[i] \in Int /\ log[i] < NextSeq(next_seq) /\ log'[i] = log[i]
        BY <1>0, <2>2, <2>3, <3>1
      <4> QED
        BY <1>0, <2>1, <4>1
    <3>2. CASE i = Len(log) + 1
      <4>1. log'[i] = next_seq' /\ next_seq' \in Int
        BY <1>0, <2>1, <2>3, <3>2
      <4> HIDE <2>1
      <4> QED
        BY <4>1
    <3> QED
      BY <2>3, <3>1, <3>2
  <2>5. \A i, j \in DOMAIN log' : i < j => log'[i] < log'[j]
    <3> SUFFICES ASSUME NEW i \in DOMAIN log', NEW j \in DOMAIN log', i < j
                 PROVE  log'[i] < log'[j]
      OBVIOUS
    <3>1. i \in DOMAIN log
      BY <2>3
    <3>2. CASE j \in DOMAIN log
      BY <1>1, <2>1, <2>3, <3>1, <3>2 DEF NumberedInOrder
    <3>3. CASE j = Len(log) + 1
      BY <2>2, <2>3, <3>1, <3>3
    <3> QED
      BY <2>3, <3>2, <3>3
  <2> QED
    BY <2>4, <2>5 DEF NumberedInOrder
<1>3. CASE DispatchReply \/ DispatchOther
  <2>1. log' = log /\ wrapped' = wrapped /\ next_seq' = Larger(next_seq, Head(from_panel).seq)
    BY <1>3 DEF DispatchReply, DispatchOther
  <2>2. Head(from_panel).seq \in Int
    <3>1. from_panel \in Seq(Reply) /\ from_panel # <<>>
      BY <1>3 DEF ChannelInv, TypeOK, DispatchReply, DispatchOther
    <3> QED
      <4>1. Head(from_panel) \in Reply
        BY <3>1
      <4> QED
        BY <4>1 DEF Reply, Seqs
  <2>3. next_seq <= next_seq' /\ next_seq' \in Int
    BY <1>0, <2>1, <2>2 DEF Larger
  <2> QED
    BY <1>0, <1>1, <2>1, <2>3 DEF NumberedInOrder
<1>4. CASE UNCHANGED <<log, next_seq, wrapped>>
  BY <1>1, <1>4 DEF NumberedInOrder
<1>5. \/ \E c \in Callers : Register(c)
      \/ DispatchReply \/ DispatchOther
      \/ UNCHANGED <<log, next_seq, wrapped>>
  BY DEF Next, Transact, Call, Lock, TransactClosed, GiveUpOnQuiet, Send, Await,
     Conclude, StopReading, Close, WriteFrame, StopWriting, Tick, PanelAnswers,
     PanelIgnores, PanelSends
<1> QED
  BY <1>2, <1>3, <1>4, <1>5

\* A request's number is its own as long as it has not wrapped.
LEMMA NumberNamesRequest ==
  ASSUME NumberedInOrder, ~wrapped, log \in Seq(Seqs),
         NEW i \in DOMAIN log, NEW j \in DOMAIN log, log[i] = log[j]
  PROVE  i = j
<1>1. i \in Int /\ j \in Int /\ log[i] \in Int /\ log[j] \in Int
  BY DEF Seqs
<1>2. ~(i < j) /\ ~(j < i)
  BY <1>1 DEF NumberedInOrder
<1> QED
  BY <1>1, <1>2

\* What DispatchReply puts into a channel answers the request of the caller
\* that waits there.
LEMMA ReplyIsForReceiver ==
  ASSUME ChannelInv, DispatchReply, ~wrapped,
         NEW c \in Receivers(Matches(Head(from_panel)))
  PROVE  Head(from_panel).rid = cur[c]
<1> DEFINE f == Head(from_panel)
<1>1. /\ from_panel # <<>> /\ f = from_panel[1] /\ 1 \in DOMAIN from_panel
      /\ f.major \in Majors
  <2>1. from_panel \in Seq(Reply)
    BY DEF ChannelInv, TypeOK
  <2> QED
    BY <2>1 DEF DispatchReply
<1>2. f.rid \in DOMAIN log /\ f.seq = log[f.rid]
  BY <1>1 DEF ChannelInv, RequestsAreKnown
<1>3. PICK e \in pending : e.rid = cur[c] /\ e.seq = f.seq
  BY DEF Receivers, Matches, Entries
<1>4. e.rid \in DOMAIN log /\ e.seq = log[e.rid]
  BY <1>3 DEF ChannelInv, RequestsAreKnown
<1>5. log \in Seq(Seqs) /\ NumberedInOrder
  BY DEF ChannelInv, TypeOK
<1> HIDE DEF f
<1>6. f.rid = e.rid
  BY <1>2, <1>3, <1>4, <1>5, NumberNamesRequest
<1> QED
  BY <1>3, <1>6 DEF f

\* A caller's one-shot channel only ever holds the answer to its last request.
LEMMA InboxStep == ChannelInv /\ [Next]_vars => InboxIsMine'
<1> USE DEF vars, callerVars, linkVars, writerVars, panelVars
<1> SUFFICES ASSUME ChannelInv, [Next]_vars, NEW d \in Callers
             PROVE  (/\ pc[d] \in {"send", "await"} \cup Resolved => cur[d] \in DOMAIN log
                     /\ pc[d] = "replied" => inbox[d] # <<>>
                     /\ inbox[d] # <<>> =>
                          /\ inbox[d][1].body \in {"ok", "close"} =>
                               inbox[d][1].rid \in accepted
                          /\ ~wrapped => inbox[d][1].rid = cur[d])'
  BY DEF InboxIsMine
<1>0. TypeOK /\ InboxIsMine /\ RequestsAreKnown
  BY DEF ChannelInv
<1>a. DOMAIN log \subseteq DOMAIN log'
  BY LogGrows
<1>t. /\ pc \in [Callers -> Idle \cup Resolved \cup {"transact", "send", "await"}]
      /\ cur \in [Callers -> Nat] /\ inbox \in [Callers -> Seq(Reply)]
      /\ log \in Seq(Seqs)
  BY <1>0 DEF TypeOK
<1>b. accepted \subseteq accepted' /\ (wrapped => wrapped')
  <2>1. accepted \subseteq accepted'
    <3>1. CASE PanelAnswers
      BY <3>1 DEF PanelAnswers
    <3>2. CASE ~PanelAnswers
      BY <3>2 DEF Next, Transact, Call, Lock, TransactClosed, Register,
         GiveUpOnQuiet, Send, Await, Conclude, DispatchReply, DispatchOther,
         StopReading, Close, WriteFrame, StopWriting, Tick, PanelIgnores, PanelSends
    <3> QED
      BY <3>1, <3>2
  <2>2. wrapped => wrapped'
    BY DEF Next, Transact, Call, Lock, TransactClosed, Register, GiveUpOnQuiet,
       Send, Await, Conclude, DispatchReply, DispatchOther, StopReading, Close,
       WriteFrame, StopWriting, Tick, PanelAnswers, PanelIgnores, PanelSends
  <2> QED
    BY <2>1, <2>2
<1>1. cur'[d] \in DOMAIN log' \/ pc'[d] \notin {"send", "await"} \cup Resolved
  <2>1. ASSUME NEW c \in Callers, Register(c) PROVE cur'[d] \in DOMAIN log' \/
                             pc'[d] \notin {"send", "await"} \cup Resolved
    <3>1. log' = Append(log, NextSeq(next_seq)) /\ cur' = [cur EXCEPT ![c] = Len(log) + 1]
          /\ pc' = [pc EXCEPT ![c] = "send"]
      BY <2>1 DEF Register
    <3>2. CASE d = c
      BY <1>t, <3>1, <3>2
    <3>3. CASE d # c
      BY <1>0, <1>a, <1>t, <3>1, <3>3 DEF InboxIsMine
    <3> QED
      BY <3>2, <3>3
  <2>2. CASE \A c \in Callers : ~Register(c)
    <3>1. cur' = cur
      BY <2>2 DEF Next, Transact, Call, Lock, TransactClosed, GiveUpOnQuiet, Send,
         Await, Conclude, DispatchReply, DispatchOther, StopReading, Close,
         WriteFrame, StopWriting, Tick, PanelAnswers, PanelIgnores, PanelSends
    <3> DEFINE Harmless == \/ pc'[d] = pc[d]
                           \/ pc'[d] \in {"idle", "queued", "transact"}
                           \/ pc[d] \in {"send", "await"}
    <3>a. ASSUME NEW c \in Callers, NEW p \in {"idle", "queued", "transact"},
                 pc' = [pc EXCEPT ![c] = p]
          PROVE  Harmless
      BY <1>t, <3>a
    <3>b. ASSUME NEW c \in Callers, NEW p, pc[c] \in {"send", "await"},
                 pc' = [pc EXCEPT ![c] = p]
          PROVE  Harmless
      BY <1>t, <3>b
    <3>c. ASSUME UNCHANGED pc PROVE Harmless
      BY <3>c
    <3> HIDE DEF Harmless
    <3>d. ASSUME NEW c \in Callers, NEW o \in Majors, Call(c, o) PROVE Harmless
      BY <3>a, <3>d DEF Call
    <3>e. ASSUME NEW c \in Callers, Lock(c) PROVE Harmless
      BY <3>a, <3>e DEF Lock
    <3>f. ASSUME NEW c \in Callers, Transact(c) PROVE Harmless
      BY <2>2, <3>a, <3>f DEF Transact, TransactClosed, GiveUpOnQuiet, Return
    <3>g. ASSUME NEW c \in Callers, Send(c) PROVE Harmless
      BY <3>b, <3>g DEF Send, Return
    <3>h. ASSUME NEW c \in Callers, Await(c) PROVE Harmless
      BY <3>b, <3>h DEF Await
    <3>i. ASSUME NEW c \in Callers, Conclude(c) PROVE Harmless
      BY <3>a, <3>i DEF Conclude, TakeReply, Return
    <3>j. Harmless
      BY <3>c, <3>d, <3>e, <3>f, <3>g, <3>h, <3>i DEF Next, DispatchReply,
         DispatchOther, StopReading, Close, WriteFrame, StopWriting, Tick,
         PanelAnswers, PanelIgnores, PanelSends
    <3>2. \/ pc'[d] = pc[d]
          \/ pc'[d] \in {"idle", "queued", "transact"}
          \/ pc[d] \in {"send", "await"}
      BY <3>j DEF Harmless
    <3> QED
      BY <1>0, <1>a, <3>1, <3>2 DEF InboxIsMine, Resolved
  <2> QED
    BY <2>1, <2>2
<1>2. pc'[d] = "replied" => inbox'[d] # <<>>
  <2>1. ASSUME NEW c \in Callers, Register(c), pc'[d] = "replied"
        PROVE  inbox'[d] # <<>>
    BY <1>0, <1>t, <2>1 DEF Register, InboxIsMine
  <2>2. ASSUME DispatchReply, pc'[d] = "replied" PROVE inbox'[d] # <<>>
    BY <1>0, <1>t, <2>2 DEF DispatchReply, InboxIsMine
  <2>3. ASSUME NEW c \in Callers, Await(c), pc'[d] = "replied" PROVE inbox'[d] # <<>>
    BY <1>0, <1>t, <2>3 DEF Await, InboxIsMine
  <2>4. ASSUME UNCHANGED inbox, pc'[d] = pc[d] \/ pc'[d] # "replied"
        PROVE  pc'[d] = "replied" => inbox'[d] # <<>>
    BY <1>0, <2>4 DEF InboxIsMine
  <2>5. \/ \E c \in Callers : Register(c) \/ Await(c)
        \/ DispatchReply
        \/ UNCHANGED inbox /\ (pc'[d] = pc[d] \/ pc'[d] # "replied")
    <3>1. ASSUME NEW c \in Callers, Conclude(c)
          PROVE  UNCHANGED inbox /\ (pc'[d] = pc[d] \/ pc'[d] # "replied")
      BY <1>t, <3>1 DEF Conclude, TakeReply, Return
    <3>2. ASSUME NEW c \in Callers, Send(c)
          PROVE  UNCHANGED inbox /\ (pc'[d] = pc[d] \/ pc'[d] # "replied")
      BY <1>t, <3>2 DEF Send, Return
    <3> QED
      BY <1>t, <3>1, <3>2 DEF Next, Transact, Call, Lock, TransactClosed, GiveUpOnQuiet, Return,
         DispatchOther, StopReading, Close, WriteFrame, StopWriting, Tick, PanelAnswers, PanelIgnores, PanelSends
  <2> QED
    BY <2>1, <2>2, <2>3, <2>4, <2>5
<1>3. ASSUME inbox'[d] # <<>>
      PROVE  /\ inbox'[d][1].body \in {"ok", "close"} => inbox'[d][1].rid \in accepted'
             /\ ~wrapped' => inbox'[d][1].rid = cur'[d]
  <2>1. CASE DispatchReply /\ d \in Receivers(Matches(Head(from_panel)))
    <3> DEFINE f == Head(from_panel)
    <3>1. inbox'[d] = <<f>> /\ cur' = cur /\ wrapped' = wrapped
      BY <2>1 DEF DispatchReply
    <3>2. f = from_panel[1] /\ 1 \in DOMAIN from_panel /\ f.major \in Majors
      BY <1>0, <2>1 DEF DispatchReply, TypeOK
    <3>3. f.body \in {"ok", "close"} => f.rid \in accepted
      BY <1>0, <3>2 DEF RequestsAreKnown
    <3>4. ~wrapped => f.rid = cur[d]
      BY <2>1, ReplyIsForReceiver
    <3> HIDE DEF f
    <3> QED
      BY <1>b, <3>1, <3>3, <3>4
  <2>2. CASE inbox'[d] = inbox[d] /\ cur'[d] = cur[d]
    BY <1>0, <1>3, <1>b, <2>2 DEF InboxIsMine
  <2>3. \/ DispatchReply /\ d \in Receivers(Matches(Head(from_panel)))
        \/ inbox'[d] = inbox[d] /\ cur'[d] = cur[d]
    <3>1. ASSUME NEW c \in Callers, Register(c)
          PROVE  inbox'[d] = inbox[d] /\ cur'[d] = cur[d]
      BY <1>3, <1>t, <3>1 DEF Register
    <3>2. CASE DispatchReply
      BY <3>2 DEF DispatchReply
    <3>3. CASE UNCHANGED <<inbox, cur>>
      BY <3>3
    <3>4. \/ \E c \in Callers : Register(c)
          \/ DispatchReply \/ UNCHANGED <<inbox, cur>>
      BY DEF Next, Transact, Call, Lock, TransactClosed, GiveUpOnQuiet, Send,
         Await, Conclude, DispatchOther, StopReading, Close, WriteFrame,
         StopWriting, Tick, PanelAnswers, PanelIgnores, PanelSends
    <3> QED
      BY <3>1, <3>2, <3>3, <3>4
  <2> QED
    BY <2>1, <2>2, <2>3
<1> QED
  BY <1>1, <1>2, <1>3

\* Only the holder of command_lock leaves "queued", and it releases the lock as it
\* returns.
LEMMA LockStep == ChannelInv /\ [Next]_vars => OneTransaction'
<1> USE DEF vars, callerVars, linkVars, writerVars, panelVars
<1> SUFFICES ASSUME ChannelInv, [Next]_vars PROVE OneTransaction'
  OBVIOUS
<1>0. OneTransaction
  BY DEF ChannelInv
<1>t. /\ pc \in [Callers -> Idle \cup Resolved \cup {"transact", "send", "await"}]
      /\ command_lock \in Callers \cup {NoCaller}
  BY DEF ChannelInv, TypeOK
<1>1. ASSUME NEW c \in Callers, Lock(c) PROVE OneTransaction'
  BY <1>0, <1>t, <1>1 DEF Lock, LockIsFree, OneTransaction, Idle
<1>2. ASSUME NEW c \in Callers, NEW r, pc[c] \notin Idle, Return(c, r)
      PROVE  OneTransaction'
  BY <1>0, <1>t, <1>2 DEF Return, OneTransaction, Idle
<1>3. ASSUME NEW c \in Callers, NEW p, UNCHANGED command_lock,
             pc' = [pc EXCEPT ![c] = p], pc[c] \in Idle <=> p \in Idle
      PROVE  OneTransaction'
  BY <1>0, <1>t, <1>3 DEF OneTransaction
<1>4. CASE UNCHANGED <<command_lock, pc>>
  BY <1>0, <1>4 DEF OneTransaction
<1>5. ASSUME NEW c \in Callers, Conclude(c) PROVE OneTransaction'
  BY <1>2, <1>3, <1>5 DEF Conclude, TakeReply, Idle, Resolved
<1>6. ASSUME NEW c \in Callers, Send(c) PROVE OneTransaction'
  BY <1>2, <1>3, <1>6 DEF Send, Idle
<1>7. ASSUME NEW c \in Callers, Await(c) PROVE OneTransaction'
  BY <1>3, <1>7 DEF Await, Idle
<1>8. ASSUME NEW c \in Callers, Transact(c) PROVE OneTransaction'
  BY <1>2, <1>3, <1>8 DEF Transact, TransactClosed, Register, GiveUpOnQuiet, Idle
<1>9. ASSUME NEW c \in Callers, NEW o \in Majors, Call(c, o) PROVE OneTransaction'
  BY <1>3, <1>9 DEF Call, Idle
<1> QED
  BY <1>1, <1>4, <1>5, <1>6, <1>7, <1>8, <1>9 DEF Next, DispatchReply,
     DispatchOther, StopReading, Close, WriteFrame, StopWriting, Tick,
     PanelAnswers, PanelIgnores, PanelSends

\* Only Register adds an entry, and it finds the connection open in the same
\* critical section.
LEMMA ClosedStep == ChannelInv /\ [Next]_vars => ClosedHasNoPending'
<1> USE DEF vars, callerVars, linkVars, writerVars, panelVars
<1> SUFFICES ASSUME ChannelInv, [Next]_vars, closed' PROVE pending' = {}
  BY DEF ClosedHasNoPending
<1>1. CASE Close
  BY <1>1 DEF Close, PendingAfterClose
<1>2. CASE ~Close
  <2>1. closed' = closed
    BY <1>2 DEF Next, Transact, Call, Lock, TransactClosed, Register,
       GiveUpOnQuiet, Send, Await, Conclude, DispatchReply, DispatchOther,
       StopReading, WriteFrame, StopWriting, Tick, PanelAnswers, PanelIgnores,
       PanelSends
  <2>2. pending = {}
    BY <2>1 DEF ChannelInv, ClosedHasNoPending
  <2>3. \A c \in Callers : ~Register(c)
    BY <2>1 DEF Register, Refused
  <2>4. pending' \subseteq pending
    BY <1>2, <2>3 DEF Next, Transact, Call, Lock, TransactClosed, GiveUpOnQuiet,
       Send, Await, Conclude, DispatchReply, DispatchOther, StopReading,
       WriteFrame, StopWriting, Tick, PanelAnswers, PanelIgnores, PanelSends
  <2> QED
    BY <2>2, <2>4
<1> QED
  BY <1>1, <1>2

\* A call ends in success only by taking an answer out of its own channel
\* (session.rs xml_query, binary_command).
LEMMA OkStep == ChannelInv /\ [Next]_vars => OkMeansAccepted'
<1> USE DEF vars, callerVars, linkVars, writerVars, panelVars
<1> SUFFICES ASSUME ChannelInv, [Next]_vars, NEW d \in Callers,
                    pc'[d] = "idle", result'[d] = "ok", ~wrapped'
             PROVE  cur'[d] \in accepted'
  BY DEF OkMeansAccepted
<1>0. OkMeansAccepted /\ InboxIsMine
  BY DEF ChannelInv
<1>t. /\ pc \in [Callers -> Idle \cup Resolved \cup {"transact", "send", "await"}]
      /\ result \in [Callers -> Results] /\ inbox \in [Callers -> Seq(Reply)]
  BY DEF ChannelInv, TypeOK
<1>1. ASSUME NEW c \in Callers, NEW r, r # "ok", Return(c, r)
      PROVE  pc[d] = "idle" /\ result[d] = "ok"
  BY <1>1, <1>t DEF Return
<1>2. ASSUME NEW c \in Callers, Conclude(c) PROVE cur'[d] \in accepted'
  <2>0. cur' = cur /\ accepted' = accepted /\ wrapped' = wrapped
    BY <1>2 DEF Conclude
  <2>1. CASE c = d
    <3> DEFINE r == Head(inbox[d])
    <3>1. pc[d] = "replied" /\ r.body \in {"ok", "close"}
      BY <1>2, <1>t, <2>1 DEF Conclude, TakeReply, Return, Resolved
    <3>2. inbox[d] # <<>> /\ r = inbox[d][1]
      BY <1>0, <1>t, <3>1 DEF InboxIsMine
    <3> QED
      BY <1>0, <2>0, <3>1, <3>2 DEF InboxIsMine
  <2>2. CASE c # d
    <3>1. pc'[d] = pc[d] /\ result'[d] = result[d]
      BY <1>2, <1>t, <2>2 DEF Conclude, TakeReply, Return
    <3> QED
      BY <1>0, <2>0, <3>1 DEF OkMeansAccepted
  <2> QED
    BY <2>1, <2>2
<1>3. ASSUME NEW c \in Callers, Register(c) PROVE cur'[d] \in accepted'
  <2>1. /\ pc' = [pc EXCEPT ![c] = "send"] /\ result' = result
        /\ cur' = [cur EXCEPT ![c] = Len(log) + 1] /\ accepted' = accepted
    BY <1>3 DEF Register
  <2>2. ~wrapped
    BY <1>3 DEF Register
  <2>3. d # c /\ pc[d] = "idle" /\ cur'[d] = cur[d]
    BY <1>t, <2>1
  <2> QED
    BY <1>0, <2>1, <2>2, <2>3 DEF OkMeansAccepted
<1>4. ASSUME ~\E c \in Callers : Conclude(c) \/ Register(c)
      PROVE  cur'[d] \in accepted'
  <2>1. cur' = cur /\ accepted \subseteq accepted'
    <3>1. CASE PanelAnswers
      BY <3>1 DEF PanelAnswers
    <3>2. CASE ~PanelAnswers
      BY <1>4, <3>2 DEF Next, Transact, Call, Lock, TransactClosed,
         GiveUpOnQuiet, Send, Await, DispatchReply, DispatchOther, StopReading,
         Close, WriteFrame, StopWriting, Tick, PanelIgnores, PanelSends
    <3> QED
      BY <3>1, <3>2
  <2>2. ~wrapped
    BY <1>4 DEF Next, Transact, Call, Lock, TransactClosed, GiveUpOnQuiet,
       Send, Await, DispatchReply, DispatchOther, StopReading, Close, WriteFrame,
       StopWriting, Tick, PanelAnswers, PanelIgnores, PanelSends
  <2>3. pc[d] = "idle" /\ result[d] = "ok"
    <3>1. ASSUME NEW c \in Callers, Send(c) PROVE pc[d] = "idle" /\ result[d] = "ok"
      BY <1>1, <1>t, <3>1 DEF Send
    <3>2. ASSUME NEW c \in Callers, TransactClosed(c) \/ GiveUpOnQuiet(c)
          PROVE  pc[d] = "idle" /\ result[d] = "ok"
      BY <1>1, <1>t, <3>2 DEF TransactClosed, GiveUpOnQuiet
    <3> QED
      BY <1>4, <1>t, <3>1, <3>2 DEF Next, Transact, Call, Lock, Await,
         DispatchReply, DispatchOther, StopReading, Close, WriteFrame,
         StopWriting, Tick, PanelAnswers, PanelIgnores, PanelSends
  <2> QED
    BY <1>0, <2>1, <2>2, <2>3 DEF OkMeansAccepted
<1> QED
  BY <1>2, <1>3, <1>4

\* The invariant holds of every behaviour of the channel, for any number of
\* callers, any width of the sequence number and any queue length.
THEOREM Invariance == Spec => []ChannelInv
<1>1. Init => ChannelInv
  BY InitInv
<1>2. ChannelInv /\ [Next]_vars => ChannelInv'
  BY TypeStep, KnownStep, NumberStep, InboxStep, LockStep, ClosedStep, OkStep
     DEF ChannelInv
<1> QED
  BY <1>1, <1>2, PTL DEF Spec

\* Type correctness of the channel's state (session.rs Shared, LinkState).
THEOREM TypeCorrect == Spec => []TypeOK
<1>1. ChannelInv => TypeOK
  BY DEF ChannelInv
<1> QED
  BY <1>1, Invariance, PTL

\* A caller is told of success only for a command the panel accepted: no late
\* reply is taken for another command's, up to the wrap of the 32-bit number
\* (session.rs transact, dispatch).
THEOREM SuccessIsReal == Spec => []OkMeansAccepted
<1>1. ChannelInv => OkMeansAccepted
  BY DEF ChannelInv
<1> QED
  BY <1>1, Invariance, PTL

\* No command is registered on a closed connection, whichever of transact and
\* close takes the link mutex first (session.rs transact, close).
THEOREM NoneLeftOnClosed == Spec => []ClosedHasNoPending
<1>1. ChannelInv => ClosedHasNoPending
  BY DEF ChannelInv
<1> QED
  BY <1>1, Invariance, PTL

\* One transaction at a time, fragments included (session.rs command_lock).
THEOREM OneAtATime == Spec => []OneTransaction
<1>1. ChannelInv => OneTransaction
  BY DEF ChannelInv
<1> QED
  BY <1>1, Invariance, PTL
=============================================================================
