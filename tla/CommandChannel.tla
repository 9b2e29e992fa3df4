--------------------------- MODULE CommandChannel ---------------------------
(***************************************************************************)
(* Commands on one panel connection (src/src/edp/session.rs).              *)
(*                                                                         *)
(* Tasks holding a clone of the SessionHandle call xml_query and           *)
(* binary_command.  A call takes command_lock for the whole transaction,   *)
(* and for every fragment registers a one-shot channel in `pending' under  *)
(* the key (major, sequence), queues the request frame, and waits for the  *)
(* reader to deliver a reply, for the channel to be dropped by close(), or *)
(* for the deadline.  The reader, the writer and the panel run             *)
(* concurrently with the callers.                                          *)
(*                                                                         *)
(* A request id (rid) names one call of transact: the one-shot channel it  *)
(* creates and the frame it sends.  log[rid] is the sequence number that   *)
(* request was given.  The panel is outside the repository and is modelled *)
(* by what the code expects of it: it answers requests in order, late or   *)
(* never, and sends frames of its own at any time.                         *)
(***************************************************************************)
EXTENDS Integers, Sequences, FiniteSets

CONSTANTS
  Callers,          \* tasks holding a clone of the session handle
  NoCaller,         \* command_lock is free
  SeqMod,           \* sequence numbers are taken modulo this (2^32 in the code)
  QuietTime,        \* COMMAND_QUIET_TIME in ticks
  CommandTimeout,   \* COMMAND_TIMEOUT in ticks
  WriteQueueLen,    \* WRITE_QUEUE_LEN
  MaxFragments,     \* MAX_XML_FRAGMENTS
  MaxCalls,         \* bound on the number of calls (model only)
  PanelSeqs,        \* the numbers the panel's own frames may bear
  PanelKinds,       \* and their kinds: "ackable", "unhandled"
  MaxPanelFrames    \* bound on its own frames under way (model only)

ASSUME ChannelAssumption ==
  /\ NoCaller \notin Callers
  /\ SeqMod \in Nat \ {0}
  /\ QuietTime \in Nat
  /\ CommandTimeout \in Nat
  /\ WriteQueueLen \in Nat \ {0}
  /\ MaxFragments \in Nat \ {0}
  /\ MaxCalls \in Nat
  /\ PanelSeqs \subseteq 0..(SeqMod - 1)
  /\ PanelKinds \subseteq {"ackable", "unhandled"}
  /\ MaxPanelFrames \in Nat

VARIABLES
  command_lock,  \* the caller holding command_lock, or NoCaller
  pc,            \* where each caller is in its call
  op,            \* "xml" or "binary": the major code of the call in progress
  cur,           \* rid of the caller's last request, 0 before the first
  buf,           \* ReplyAssembler: the chunks received so far
  left,          \* ticks until the deadline of the current transact
  inbox,         \* what the caller's one-shot channel holds: <<>> or <<reply>>
  result,        \* outcome of the caller's last call
  next_seq, pending, closed,  \* LinkState
  since_rx,      \* ticks since last_received, up to QuietTime
  writer,        \* whether the write_loop task is alive
  outbox,        \* the write queue
  reader,        \* whether read_loop is still reading
  panel_in,      \* frames written to the socket, not yet seen by the panel
  stream,        \* the XML reply the panel is sending: its first request, chunks sent
  accepted,      \* requests the panel accepted (binary) or completed (xml)
  from_panel,    \* frames on the socket, not yet dispatched
  log,           \* log[rid] is the sequence number of request rid
  wrapped,       \* next_seq has wrapped around
  calls          \* calls made so far, for the model's bound

callerVars == <<command_lock, pc, op, cur, buf, left, inbox, result>>
linkVars   == <<next_seq, pending, closed, since_rx, log, wrapped>>
writerVars == <<writer, outbox>>
panelVars  == <<panel_in, stream, accepted, from_panel>>
vars == <<callerVars, linkVars, writerVars, reader, panelVars, calls>>

Seqs     == 0..(SeqMod - 1)
Majors   == {"xml", "binary"}
Idle     == {"idle", "queued"}
Resolved == {"replied", "lost", "timed_out"}
Results  == {"none", "ok", "rejected", "protocol", "lost", "timeout"}

Frame == [major : Majors \cup {"ack"}, seq : Seqs, rid : Nat, cont : BOOLEAN]
Chunk == [of : Nat, chunk : Nat]
Reply == [major : Majors \cup {"other"}, seq : Seqs, rid : Nat,
          body : {"more", "close", "ok", "rejected", "bad", "ackable", "unhandled"},
          of : Nat, chunk : Nat]
Entry == [major : Majors, seq : Seqs, rid : Nat]

-----------------------------------------------------------------------------
Init ==
  /\ command_lock = NoCaller
  /\ pc = [c \in Callers |-> "idle"]
  /\ op = [c \in Callers |-> "xml"]
  /\ cur = [c \in Callers |-> 0]
  /\ buf = [c \in Callers |-> <<>>]
  /\ left = [c \in Callers |-> 0]
  /\ inbox = [c \in Callers |-> <<>>]
  /\ result = [c \in Callers |-> "none"]
  /\ next_seq = 0
  /\ pending = {}
  /\ closed = FALSE
  /\ since_rx = 0
  /\ writer = "running"
  /\ outbox = <<>>
  /\ reader = "running"
  /\ panel_in = <<>>
  /\ stream = [of |-> 0, chunk |-> 0]
  /\ accepted = {}
  /\ from_panel = <<>>
  /\ log = <<>>
  /\ wrapped = FALSE
  /\ calls = 0

-----------------------------------------------------------------------------
(* SessionHandle: xml_query, binary_command and transact.                  *)

\* A task calls xml_query or binary_command and queues for command_lock.
Call(c, o) ==
  /\ pc[c] = "idle"
  /\ calls < MaxCalls
  /\ calls' = calls + 1
  /\ pc' = [pc EXCEPT ![c] = "queued"]
  /\ op' = [op EXCEPT ![c] = o]
  /\ UNCHANGED <<command_lock, cur, buf, left, inbox, result, linkVars,
                 writerVars, reader, panelVars>>

\* Mutant: nothing keeps a second caller out.
LockIsFreeAlways == TRUE
LockIsFree == command_lock = NoCaller

Lock(c) ==
  /\ pc[c] = "queued"
  /\ LockIsFree
  /\ command_lock' = c
  /\ pc' = [pc EXCEPT ![c] = "transact"]
  /\ buf' = [buf EXCEPT ![c] = <<>>]
  /\ left' = [left EXCEPT ![c] = CommandTimeout]
  /\ UNCHANGED <<op, cur, inbox, result, linkVars, writerVars, reader,
                 panelVars, calls>>

\* The call ends; dropping the guard releases command_lock.
Return(c, r) ==
  /\ command_lock' = NoCaller
  /\ pc' = [pc EXCEPT ![c] = "idle"]
  /\ result' = [result EXCEPT ![c] = r]
  /\ left' = [left EXCEPT ![c] = 0]

Entries(m, s) == {e \in pending : e.major = m /\ e.seq = s}

\* Mutant: the sequence number is not kept to its width.
NextSeqUnbounded(s) == s + 1
NextSeq(s) == (s + 1) % SeqMod

\* Mutant: transact registers a request without looking at `closed'.
RefusedNever == FALSE
Refused == closed

TransactClosed(c) ==
  /\ pc[c] = "transact"
  /\ Refused
  /\ Return(c, "lost")
  /\ UNCHANGED <<op, cur, buf, inbox, linkVars, writerVars, reader, panelVars,
                 calls>>

\* The line has been quiet: number the request and register its channel, in
\* one critical section of the link mutex.  insert replaces an entry that has
\* the same key.
Register(c) ==
  LET seq == NextSeq(next_seq)
      rid == Len(log) + 1
  IN  /\ pc[c] = "transact"
      /\ ~Refused
      /\ since_rx >= QuietTime
      /\ next_seq' = seq
      /\ log' = Append(log, seq)
      /\ wrapped' = (wrapped \/ seq <= next_seq)
      /\ pending' = (pending \ Entries(op[c], seq))
                      \cup {[major |-> op[c], seq |-> seq, rid |-> rid]}
      /\ cur' = [cur EXCEPT ![c] = rid]
      /\ inbox' = [inbox EXCEPT ![c] = <<>>]
      /\ pc' = [pc EXCEPT ![c] = "send"]
      /\ UNCHANGED <<command_lock, op, buf, left, result, closed, since_rx,
                     writerVars, reader, panelVars, calls>>

\* Mutant: the wait for the line to go quiet has no deadline.
CannotGoQuietNever(c) == FALSE
CannotGoQuiet(c) == QuietTime - since_rx > left[c]

\* quiet_at > deadline: the line cannot go quiet in time.  Otherwise the
\* caller sleeps, which is staying where it is.
GiveUpOnQuiet(c) ==
  /\ pc[c] = "transact"
  /\ ~Refused
  /\ since_rx < QuietTime
  /\ CannotGoQuiet(c)
  /\ Return(c, "timeout")
  /\ UNCHANGED <<op, cur, buf, inbox, linkVars, writerVars, reader, panelVars,
                 calls>>

CanQueue == writer = "running" /\ Len(outbox) < WriteQueueLen

\* Shared::send for the request.  When it fails transact returns at once and
\* the entry stays in `pending'.
Send(c) ==
  /\ pc[c] = "send"
  /\ IF CanQueue
       THEN /\ outbox' = Append(outbox, [major |-> op[c], seq |-> log[cur[c]],
                                         rid |-> cur[c], cont |-> buf[c] # <<>>])
            /\ pc' = [pc EXCEPT ![c] = "await"]
            /\ UNCHANGED <<command_lock, left, result>>
       ELSE /\ Return(c, "lost")
            /\ UNCHANGED outbox
  /\ UNCHANGED <<op, cur, buf, inbox, linkVars, writer, reader, panelVars,
                 calls>>

\* Mutant: the wait for a reply has no deadline.
DeadlinePassedNever(c) == FALSE
DeadlinePassed(c) == left[c] = 0

SenderAlive(c) == \E e \in pending : e.rid = cur[c]

\* timeout_at polls the channel before the clock, so a reply that is already
\* there wins over the deadline.
Await(c) ==
  /\ pc[c] = "await"
  /\ \/ /\ inbox[c] # <<>>
        /\ pc' = [pc EXCEPT ![c] = "replied"]
     \/ /\ inbox[c] = <<>>
        /\ ~SenderAlive(c)
        /\ pc' = [pc EXCEPT ![c] = "lost"]
     \/ /\ inbox[c] = <<>>
        /\ SenderAlive(c)
        /\ DeadlinePassed(c)
        /\ pc' = [pc EXCEPT ![c] = "timed_out"]
  /\ UNCHANGED <<command_lock, op, cur, buf, left, inbox, result, linkVars,
                 writerVars, reader, panelVars, calls>>

\* xml_query and binary_command on a reply r: the call ends, or an XML reply
\* that is not closed yet starts its next fragment under a new deadline, with the
\* lock still held.
TakeReply(c, r) ==
  LET more == Append(buf[c], [of |-> r.of, chunk |-> r.chunk])
  IN  \/ /\ r.body \in {"close", "ok"}
         /\ Return(c, "ok")
         /\ buf' = IF op[c] = "xml" THEN [buf EXCEPT ![c] = more] ELSE buf
      \/ /\ r.body = "rejected"
         /\ Return(c, "rejected")
         /\ UNCHANGED buf
      \/ /\ r.body = "bad" \/ (r.body = "more" /\ Len(more) = MaxFragments)
         /\ Return(c, "protocol")
         /\ UNCHANGED buf
      \/ /\ r.body = "more" /\ Len(more) < MaxFragments
         /\ pc' = [pc EXCEPT ![c] = "transact"]
         /\ left' = [left EXCEPT ![c] = CommandTimeout]
         /\ buf' = [buf EXCEPT ![c] = more]
         /\ UNCHANGED <<command_lock, result>>

\* transact removes its entry and returns to its caller.
Conclude(c) ==
  /\ pc[c] \in Resolved
  /\ pending' = pending \ Entries(op[c], log[cur[c]])
  /\ \/ pc[c] = "lost" /\ Return(c, "lost") /\ UNCHANGED buf
     \/ pc[c] = "timed_out" /\ Return(c, "timeout") /\ UNCHANGED buf
     \/ pc[c] = "replied" /\ TakeReply(c, Head(inbox[c]))
  /\ UNCHANGED <<op, cur, inbox, next_seq, closed, since_rx, log, wrapped,
                 writerVars, reader, panelVars, calls>>

-----------------------------------------------------------------------------
(* The reader (read_loop and dispatch) and close().                        *)

Larger(a, b) == IF a >= b THEN a ELSE b

\* Mutant: a reply is matched by its major code alone.
MatchesMajor(f) == {e \in pending : e.major = f.major}
Matches(f) == Entries(f.major, f.seq)

\* The callers still holding the receiving end of one of the channels in es.
Receivers(es) ==
  {c \in Callers : pc[c] \in {"send", "await"} /\ cur[c] \in {e.rid : e \in es}}

\* The frame is a reply: hand it to the channel registered for its key.
DispatchReply ==
  LET f == Head(from_panel)
  IN  /\ reader = "running"
      /\ from_panel # <<>>
      /\ f.major \in Majors
      /\ from_panel' = Tail(from_panel)
      /\ since_rx' = 0
      /\ next_seq' = Larger(next_seq, f.seq)
      /\ pending' = pending \ Matches(f)
      /\ inbox' = [c \in Callers |->
                     IF c \in Receivers(Matches(f)) THEN <<f>> ELSE inbox[c]]
      /\ UNCHANGED <<command_lock, pc, op, cur, buf, left, result, closed, log,
                     wrapped, writerVars, reader, panel_in, stream, accepted,
                     calls>>

\* The frame is no reply.  A poll, HELLO or event is acknowledged, and a full
\* or dead write queue ends read_loop; anything else is only logged.
DispatchOther ==
  LET f == Head(from_panel)
  IN  /\ reader = "running"
      /\ from_panel # <<>>
      /\ f.major \notin Majors
      /\ from_panel' = Tail(from_panel)
      /\ since_rx' = 0
      /\ next_seq' = Larger(next_seq, f.seq)
      /\ \/ /\ f.body = "ackable" /\ CanQueue
            /\ outbox' = Append(outbox, [major |-> "ack", seq |-> f.seq,
                                         rid |-> 0, cont |-> FALSE])
            /\ UNCHANGED reader
         \/ /\ f.body = "ackable" /\ ~CanQueue
            /\ reader' = "stopped"
            /\ UNCHANGED outbox
         \/ /\ f.body = "unhandled"
            /\ UNCHANGED <<outbox, reader>>
      /\ UNCHANGED <<callerVars, pending, closed, log, wrapped, writer,
                     panel_in, stream, accepted, calls>>

\* End of file, idle timeout, undecodable stream, or superseded.
StopReading ==
  /\ reader = "running"
  /\ reader' = "stopped"
  /\ UNCHANGED <<callerVars, linkVars, writerVars, panelVars, calls>>

\* Mutant: close() leaves the registered channels alone.
PendingKept == pending
PendingAfterClose == {}

\* Shared::close, run once read_loop has left its loop.
Close ==
  /\ reader = "stopped"
  /\ ~closed
  /\ closed' = TRUE
  /\ pending' = PendingAfterClose
  /\ UNCHANGED <<callerVars, next_seq, since_rx, log, wrapped, writerVars,
                 reader, panelVars, calls>>

-----------------------------------------------------------------------------
(* The writer task, the clock and the panel.                               *)

\* write_loop writes the next frame.  The panel does not react to an ack.
WriteFrame ==
  /\ writer = "running"
  /\ outbox # <<>>
  /\ outbox' = Tail(outbox)
  /\ panel_in' = IF Head(outbox).major = "ack" THEN panel_in
                 ELSE Append(panel_in, Head(outbox))
  /\ UNCHANGED <<callerVars, linkVars, writer, reader, stream, accepted,
                 from_panel, calls>>

\* A write error, or writer_task.abort() after read_loop: the queue is dropped.
StopWriting ==
  /\ writer = "running"
  /\ writer' = "stopped"
  /\ outbox' = <<>>
  /\ UNCHANGED <<callerVars, linkVars, reader, panelVars, calls>>

Tick ==
  /\ since_rx < QuietTime \/ \E c \in Callers : left[c] > 0
  /\ since_rx' = IF since_rx < QuietTime THEN since_rx + 1 ELSE since_rx
  /\ left' = [c \in Callers |-> IF left[c] > 0 THEN left[c] - 1 ELSE 0]
  /\ UNCHANGED <<command_lock, pc, op, cur, buf, inbox, result, next_seq,
                 pending, closed, log, wrapped, writerVars, reader, panelVars,
                 calls>>

\* The panel answers the next request under the request's own sequence number.
\* A first XML fragment starts a reply over, a continuation asks for its next
\* chunk; "bad" is an empty, oversized or malformed reply.
PanelAnswers ==
  LET r == Head(panel_in)
      s == IF r.cont THEN [of |-> stream.of, chunk |-> stream.chunk + 1]
           ELSE [of |-> r.rid, chunk |-> 1]
  IN  /\ panel_in # <<>>
      /\ panel_in' = Tail(panel_in)
      /\ \E b \in IF r.major = "xml" THEN {"more", "close", "bad"}
                  ELSE {"ok", "rejected", "bad"} :
           /\ from_panel' = Append(from_panel,
                [major |-> r.major, seq |-> r.seq, rid |-> r.rid, body |-> b,
                 of |-> s.of, chunk |-> s.chunk])
           /\ accepted' = IF b \in {"ok", "close"} THEN accepted \cup {r.rid}
                          ELSE accepted
      /\ stream' = IF r.major = "xml" THEN s ELSE stream
      /\ UNCHANGED <<callerVars, linkVars, writerVars, reader, calls>>

PanelIgnores ==
  /\ panel_in # <<>>
  /\ panel_in' = Tail(panel_in)
  /\ UNCHANGED <<callerVars, linkVars, writerVars, reader, stream, accepted,
                 from_panel, calls>>

\* A frame of the panel's own, under whatever number it has reached.
PanelSends(q, kind) ==
  /\ Cardinality({i \in DOMAIN from_panel : from_panel[i].major = "other"})
       < MaxPanelFrames
  /\ from_panel' = Append(from_panel,
       [major |-> "other", seq |-> q, rid |-> 0, body |-> kind,
        of |-> 0, chunk |-> 0])
  /\ UNCHANGED <<callerVars, linkVars, writerVars, reader, panel_in, stream,
                 accepted, calls>>

-----------------------------------------------------------------------------
Transact(c) == TransactClosed(c) \/ Register(c) \/ GiveUpOnQuiet(c)

Next ==
  \/ \E c \in Callers :
       \/ \E o \in Majors : Call(c, o)
       \/ Lock(c) \/ Transact(c) \/ Send(c) \/ Await(c) \/ Conclude(c)
  \/ DispatchReply \/ DispatchOther \/ StopReading \/ Close
  \/ WriteFrame \/ StopWriting \/ Tick
  \/ PanelAnswers \/ PanelIgnores
  \/ \E q \in PanelSeqs, kind \in PanelKinds : PanelSends(q, kind)

Spec == Init /\ [][Next]_vars

\* The runtime polls every runnable task, and command_lock is granted in the
\* order it was asked for, so a queued caller is not overtaken for ever.  The
\* panel, the network and the clock owe nothing here.
CallersRun ==
  \A c \in Callers :
    /\ SF_vars(Lock(c))
    /\ WF_vars(Transact(c)) /\ WF_vars(Send(c)) /\ WF_vars(Await(c))
    /\ WF_vars(Conclude(c))

\* The callers run; whether time passes or the reader gets to close is up to the
\* property.
FairSpec == Spec /\ CallersRun

-----------------------------------------------------------------------------
TypeOK ==
  /\ command_lock \in Callers \cup {NoCaller}
  /\ pc \in [Callers -> Idle \cup Resolved \cup {"transact", "send", "await"}]
  /\ op \in [Callers -> Majors]
  /\ cur \in [Callers -> Nat]
  /\ buf \in [Callers -> Seq(Chunk)]
  /\ left \in [Callers -> 0..CommandTimeout]
  /\ inbox \in [Callers -> Seq(Reply)]
  /\ result \in [Callers -> Results]
  /\ next_seq \in Seqs
  /\ pending \in SUBSET Entry
  /\ closed \in BOOLEAN
  /\ since_rx \in 0..QuietTime
  /\ writer \in {"running", "stopped"}
  /\ outbox \in Seq(Frame) /\ Len(outbox) <= WriteQueueLen
  /\ reader \in {"running", "stopped"}
  /\ panel_in \in Seq(Frame)
  /\ stream \in Chunk
  /\ accepted \in SUBSET Nat
  /\ from_panel \in Seq(Reply)
  /\ log \in Seq(Seqs)
  /\ wrapped \in BOOLEAN
  /\ calls \in 0..MaxCalls

\* A caller is told that its command succeeded only if the panel accepted that
\* very request: a reply that comes after its command timed out is never taken
\* for the answer to a later command.  It holds as long as the sequence number
\* has not wrapped around its 32 bits (session.rs transact, dispatch).
OkMeansAccepted ==
  \A c \in Callers :
    pc[c] = "idle" /\ result[c] = "ok" /\ ~wrapped => cur[c] \in accepted

\* An XML reply is put together from consecutive chunks of one reply of the
\* panel, whatever other commands, timeouts and late replies happen meanwhile:
\* command_lock covers the continuations too (session.rs xml_query).
AssembledInOrder ==
  \A c \in Callers :
    ~wrapped => \A i \in DOMAIN buf[c] :
                  /\ buf[c][i].of = buf[c][1].of
                  /\ buf[c][i].chunk = i

\* Once the connection is closed no command is registered any more, the ones
\* that raced with close() included, so nobody is left waiting for the deadline
\* on a dead connection (session.rs transact, close).
ClosedHasNoPending == closed => pending = {}

\* What a request carries is what it was given when it was registered, wherever
\* it or its answer is, and what reads as a success was one at the panel.
RequestsAreKnown ==
  /\ \A e \in pending : e.rid \in DOMAIN log /\ e.seq = log[e.rid]
  /\ \A i \in DOMAIN outbox :
       outbox[i].major \in Majors =>
         outbox[i].rid \in DOMAIN log /\ outbox[i].seq = log[outbox[i].rid]
  /\ \A i \in DOMAIN panel_in :
       /\ panel_in[i].major \in Majors
       /\ panel_in[i].rid \in DOMAIN log
       /\ panel_in[i].seq = log[panel_in[i].rid]
  /\ \A i \in DOMAIN from_panel :
       from_panel[i].major \in Majors =>
         /\ from_panel[i].rid \in DOMAIN log
         /\ from_panel[i].seq = log[from_panel[i].rid]
         /\ from_panel[i].body \in {"ok", "close"} => from_panel[i].rid \in accepted

\* Until the number wraps, requests are numbered in increasing order, so a
\* number belongs to one request.
NumberedInOrder ==
  ~wrapped => /\ \A i \in DOMAIN log : log[i] <= next_seq
              /\ \A i, j \in DOMAIN log : i < j => log[i] < log[j]

\* A caller past its registration has a request, and what lies in its channel
\* answers that request.
InboxIsMine ==
  \A c \in Callers :
    /\ pc[c] \in {"send", "await"} \cup Resolved => cur[c] \in DOMAIN log
    /\ pc[c] = "replied" => inbox[c] # <<>>
    /\ inbox[c] # <<>> =>
         /\ inbox[c][1].body \in {"ok", "close"} => inbox[c][1].rid \in accepted
         /\ ~wrapped => inbox[c][1].rid = cur[c]

\* At most one transaction is in progress on a connection, and it holds
\* command_lock from its first fragment to its last: a second command cannot
\* slip in between two fragments (session.rs xml_query, binary_command).
OneTransaction ==
  \A c \in Callers : pc[c] \notin Idle <=> command_lock = c

\* The inductive invariant behind TypeOK, ClosedHasNoPending and
\* OkMeansAccepted: a reply reaches the caller whose request it answers, through
\* the writer, the panel, the reader and the pending map
\* (session.rs transact, dispatch).
ChannelInv ==
  /\ TypeOK
  /\ RequestsAreKnown
  /\ NumberedInOrder
  /\ InboxIsMine
  /\ OneTransaction
  /\ ClosedHasNoPending
  /\ OkMeansAccepted

\* Requests on their way to the panel, and the panel's answers on theirs back.
Requests == {panel_in[i] : i \in DOMAIN panel_in}
            \cup {outbox[i] : i \in {j \in DOMAIN outbox : outbox[j].major \in Majors}}
Answers == {from_panel[i] : i \in {j \in DOMAIN from_panel : from_panel[j].major \in Majors}}

InTurn(c) == pc[c] \in {"send", "await"} \cup Resolved

\* The newest request, which is that of the caller whose turn it is, travels
\* behind all others: once it is answered none is on its way any more.
NewestIsLast ==
  /\ \A i \in DOMAIN panel_in :
       panel_in[i].rid = Len(log) =>
         i = Len(panel_in) /\ \A j \in DOMAIN outbox : outbox[j].major \notin Majors
  /\ \A i, j \in DOMAIN outbox :
       i < j /\ outbox[i].major \in Majors /\ outbox[i].rid = Len(log) =>
         outbox[j].major \notin Majors
  /\ \A r \in Answers : r.rid = Len(log) => Requests = {}
  /\ \A c \in Callers :
       InTurn(c) =>
         /\ cur[c] = Len(log)
         /\ pc[c] = "send" => \A f \in Requests \cup Answers : f.rid # Len(log)
         /\ inbox[c] # <<>> /\ ~wrapped => pc[c] # "send" /\ Requests = {}

\* An answer brings the chunk the panel is at, the next one of the caller's reply.
Fits(c, r) ==
  /\ r.of = stream.of /\ r.chunk = stream.chunk
  /\ IF buf[c] = <<>> THEN r.chunk = 1
     ELSE r.of = buf[c][1].of /\ r.chunk = Len(buf[c]) + 1

\* The panel is where the caller is: at the last chunk the caller has, or, once it
\* has seen the request for the next one, at that one.
ChunksFollow ==
  ~wrapped => \A c \in Callers :
    /\ pc[c] = "transact" /\ buf[c] # <<>> =>
         Requests = {} /\ stream = buf[c][Len(buf[c])]
    /\ InTurn(c) =>
         /\ \A q \in Requests :
              q.rid = cur[c] => q.major = op[c] /\ (q.cont <=> buf[c] # <<>>)
         /\ buf[c] # <<>> => \A q \in Requests : q.rid = cur[c]
         /\ buf[c] # <<>> /\ (pc[c] = "send" \/ Requests # {}) =>
              stream = buf[c][Len(buf[c])]
         /\ op[c] = "xml" => \A r \in Answers : r.rid = cur[c] => Fits(c, r)
         /\ op[c] = "xml" /\ inbox[c] # <<>> => Fits(c, inbox[c][1])

\* The inductive invariant behind AssembledInOrder: one caller's turn is one
\* caller's reply at the panel (session.rs xml_query, command_lock).
AssemblyInv ==
  /\ ChannelInv
  /\ NewestIsLast
  /\ ChunksFollow
  /\ AssembledInOrder

\* Where time passes, every call returns within its deadlines, also when the
\* panel never answers or never stops talking (session.rs transact).
CallsReturn ==
  WF_vars(Tick) => \A c \in Callers : pc[c] # "idle" ~> pc[c] = "idle"

\* When the connection closes, a call that is past its wait for a quiet line
\* returns without any step of the clock: it does not sit out the deadline
\* (session.rs close).
CloseFailsCallsAtOnce ==
  WF_vars(Close) =>
    \A c \in Callers :
      closed /\ pc[c] \in {"send", "await"} \cup Resolved ~> pc[c] = "idle"

-----------------------------------------------------------------------------
(* The channel seen as the service it gives its callers.                   *)

\* Requests of the call in progress: one for every chunk received, and the one
\* that is out.
AskedOf(c) ==
  IF pc[c] \in Idle THEN 0
  ELSE Len(buf[c]) + (IF pc[c] = "transact" THEN 0 ELSE 1)

PhaseOf(c) ==
  IF pc[c] = "idle" THEN "idle" ELSE IF pc[c] = "queued" THEN "waiting" ELSE "serving"

\* Until the next request is registered, the last one is what was fulfilled.
FulfilledOf(c) == AskedOf(c) > 0 /\ cur[c] \in accepted

Service == INSTANCE CommandService WITH
  phase     <- [c \in Callers |-> PhaseOf(c)],
  kind      <- op,
  asked     <- [c \in Callers |-> AskedOf(c)],
  fulfilled <- [c \in Callers |-> FulfilledOf(c)],
  answer    <- result,
  down      <- closed,
  ambiguous <- wrapped

\* Whatever the callers, the reader, the writer, the clock and the panel do, a
\* caller sees no more than CommandService allows: turns that are not shared, a
\* binary command put to the panel once, no request after close(), and success
\* only for a request the panel fulfilled (session.rs SessionHandle).
ServiceSpec == Service!Spec
=============================================================================
