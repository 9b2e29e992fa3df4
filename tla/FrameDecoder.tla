----------------------------- MODULE FrameDecoder -----------------------------
(***************************************************************************)
(* Frames out of a TCP stream (src/src/edp/wire.rs: FrameDecoder).         *)
(*                                                                         *)
(* A connection is a stream of bytes that reads cut anywhere.  feed takes  *)
(* frames off the front of its buffer, drops a byte where no frame can     *)
(* begin, and waits, within bounds, where one seems to begin.  Each turn   *)
(* of its loop is an action here.                                          *)
(*                                                                         *)
(* A frame is reduced to <<total length, magic, flags, ...>>: the magic    *)
(* stands for the protocol byte and version, and the two bytes of the      *)
(* length for one that includes the prefix.  Every byte carries which sent *)
(* frame it belongs to, and where; the decoder looks at that only in place *)
(* of the checksum, which is taken to tell a frame from anything else.     *)
(***************************************************************************)
EXTENDS Naturals, Sequences, FiniteSets

CONSTANTS
  Shapes,        \* frames the panel sends
  Noise,         \* bytes it did not send
  Magic,         \* PROTOCOL_BYTE and PROTOCOL_VERSION
  Encrypted,     \* flags of an encrypted frame
  HeaderLen,     \* HEADER_LEN
  MaxPlausible,  \* MAX_PLAUSIBLE_FRAME
  ResyncLimit,   \* RESYNC_LIMIT
  ReadLen,       \* READ_BUF_LEN
  MaxFrames,     \* bound on frames sent (model only)
  MaxNoise       \* bound on bytes of noise (model only)

\* "Real frames are small": one arrives whole before the decoder gives up on it.
ASSUME DecoderAssumption ==
  /\ HeaderLen \in Nat /\ HeaderLen >= 3
  /\ MaxPlausible \in Nat /\ HeaderLen <= MaxPlausible
  /\ ResyncLimit \in Nat
  /\ ReadLen \in Nat \ {0}
  /\ MaxFrames \in Nat /\ MaxNoise \in Nat
  /\ Magic \in Nat /\ Encrypted \in Nat
  /\ Noise \subseteq Nat
  /\ \A s \in Shapes :
       /\ s \in Seq(Nat) /\ s[1] = Len(s) /\ s[2] = Magic
       /\ Len(s) \in HeaderLen..MaxPlausible
       /\ Len(s) <= HeaderLen + ResyncLimit

VARIABLES
  line,       \* bytes on the socket, not yet read
  sent,       \* the frames sent
  noise,      \* bytes of noise sent: after how many frames, each of them
  key,        \* FrameDecoder: whether there is a key
  buf,
  dropped,
  waiting,    \* <<>>, or <<claimed, started>> while a frame is incomplete
  held,       \* bytes read since the front of buf was looked at first
  out,        \* frames this feed has found
  delivered,  \* frames handed to dispatch
  state       \* "reading", "feeding", "corrupt" or "encrypted"

lineVars == <<line, sent, noise>>
vars == <<lineVars, key, buf, dropped, waiting, held, out, delivered, state>>

\* Byte number `at' of sent frame `of', or byte number `at' of the noise: of = 0.
Cell == [byte : Nat, of : Nat, at : Nat]

Init ==
  /\ line = <<>> /\ sent = <<>> /\ noise = <<>>
  /\ key \in BOOLEAN
  /\ buf = <<>> /\ dropped = 0 /\ waiting = <<>> /\ held = 0
  /\ out = <<>> /\ delivered = <<>>
  /\ state = "reading"

-----------------------------------------------------------------------------
(* The panel and the network.                                              *)

SendFrame(s) ==
  /\ state = "reading"
  /\ Len(sent) < MaxFrames
  /\ sent' = Append(sent, s)
  /\ line' = line \o [i \in DOMAIN s |-> [byte |-> s[i], of |-> Len(sent'), at |-> i]]
  /\ UNCHANGED <<noise, key, buf, dropped, waiting, held, out, delivered, state>>

SendNoise(b) ==
  /\ state = "reading"
  /\ Len(noise) < MaxNoise
  /\ noise' = Append(noise, Len(sent))
  /\ line' = Append(line, [byte |-> b, of |-> 0, at |-> Len(noise')])
  /\ UNCHANGED <<sent, key, buf, dropped, waiting, held, out, delivered, state>>

-----------------------------------------------------------------------------
(* feed.                                                                   *)

\* A read returns the next n bytes, and read_loop feeds them to the decoder.
Read(n) ==
  /\ state = "reading"
  /\ n \in 1..Len(line)
  /\ buf' = buf \o SubSeq(line, 1, n)
  /\ line' = SubSeq(line, n + 1, Len(line))
  /\ held' = held + n
  /\ state' = "feeding"
  /\ UNCHANGED <<sent, noise, key, dropped, waiting, out, delivered>>

Total == buf[1].byte

\* Mutant: any length is plausible.
LooksValidAnyLength == Total >= HeaderLen /\ buf[2].byte = Magic
LooksValid == Total \in HeaderLen..MaxPlausible /\ buf[2].byte = Magic

HasHeader == state = "feeding" /\ Len(buf) >= HeaderLen
AtFrame   == HasHeader /\ LooksValid
Complete  == AtFrame /\ Len(buf) >= Total
NeedsKey  == buf[3].byte = Encrypted /\ ~key

\* Frame::decode succeeds.
Decodes == \A i \in 1..Total : buf[i].of # 0 /\ buf[i].of = buf[1].of /\ buf[i].at = i

\* Mutant: the limit on dropped bytes is not enforced.
CorruptNever(n) == FALSE
Corrupt(n) == n > ResyncLimit

\* Mutant: the whole frame that did not decode is dropped.
AfterResyncWhole == SubSeq(buf, Total + 1, Len(buf))
AfterResync == Tail(buf)

\* resync(); when feed fails, the frames it had found are lost with the
\* connection.
Resync ==
  /\ buf' = AfterResync
  /\ dropped' = dropped + 1
  /\ held' = 0
  /\ state' = IF Corrupt(dropped') THEN "corrupt" ELSE state
  /\ out' = IF Corrupt(dropped') THEN <<>> ELSE out

\* feed returns, and the frames it has found are dispatched.
Return ==
  /\ state' = "reading"
  /\ delivered' = delivered \o out
  /\ out' = <<>>

NeedMore ==
  /\ state = "feeding"
  /\ ~HasHeader
  /\ held' = 0
  /\ Return
  /\ UNCHANGED <<lineVars, key, buf, dropped, waiting>>

SkipByte ==
  /\ HasHeader
  /\ ~LooksValid
  /\ waiting' = <<>>
  /\ Resync
  /\ UNCHANGED <<lineVars, key, delivered>>

\* Mutant: the wait starts anew with every read.
StartedNow == Len(buf)
\* The length of the buffer when the wait for this frame began.
Started == IF waiting # <<>> /\ waiting[1] = Total THEN waiting[2] ELSE Len(buf)

Wait ==
  /\ AtFrame
  /\ Len(buf) < Total
  /\ Len(buf) - Started <= ResyncLimit
  /\ waiting' = <<Total, Started>>
  /\ Return
  /\ UNCHANGED <<lineVars, key, buf, dropped, held>>

GiveUpWaiting ==
  /\ AtFrame
  /\ Len(buf) < Total
  /\ Len(buf) - Started > ResyncLimit
  /\ waiting' = <<>>
  /\ Resync
  /\ UNCHANGED <<lineVars, key, delivered>>

\* Mutant: a frame found does not end the wait for it.
NotWaitingKept == waiting
NotWaiting == <<>>

\* Mutant: the count of dropped bytes goes on over good frames.
DroppedKept == dropped
DroppedReset == 0

\* Mutant: the frame found stays in the buffer.
AfterFrameKept == buf
AfterFrame == SubSeq(buf, Total + 1, Len(buf))

TakeFrame ==
  /\ Complete
  /\ ~NeedsKey
  /\ Decodes
  /\ waiting' = NotWaiting
  /\ out' = Append(out, buf[1].of)
  /\ buf' = AfterFrame
  /\ dropped' = DroppedReset
  /\ held' = 0
  /\ UNCHANGED <<lineVars, key, delivered, state>>

DropFrame ==
  /\ Complete
  /\ ~NeedsKey
  /\ ~Decodes
  /\ waiting' = NotWaiting
  /\ Resync
  /\ UNCHANGED <<lineVars, key, delivered>>

RefuseFrame ==
  /\ Complete
  /\ NeedsKey
  /\ waiting' = NotWaiting
  /\ state' = "encrypted"
  /\ out' = <<>>
  /\ UNCHANGED <<lineVars, key, buf, dropped, held, delivered>>

-----------------------------------------------------------------------------
Feed ==
  \/ NeedMore \/ SkipByte \/ Wait \/ GiveUpWaiting
  \/ TakeFrame \/ DropFrame \/ RefuseFrame

Next ==
  \/ \E s \in Shapes : SendFrame(s)
  \/ \E b \in Noise : SendNoise(b)
  \/ \E n \in 1..ReadLen : Read(n)
  \/ Feed

Spec == Init /\ [][Next]_vars

-----------------------------------------------------------------------------
TypeOK ==
  /\ line \in Seq(Cell)
  /\ sent \in Seq(Shapes) /\ Len(sent) <= MaxFrames
  /\ noise \in Seq(0..MaxFrames) /\ Len(noise) <= MaxNoise
  /\ key \in BOOLEAN
  /\ buf \in Seq(Cell)
  /\ dropped \in 0..(ResyncLimit + 1)
  /\ waiting \in {<<>>} \cup ((HeaderLen..MaxPlausible) \X Nat)
  /\ held \in Nat
  /\ out \in Seq(DOMAIN sent)
  /\ delivered \in Seq(DOMAIN sent)
  /\ state \in {"reading", "feeding", "corrupt", "encrypted"}

Found == delivered \o out
Rest  == buf \o line

\* The bytes of frame f are the ones after the first k still to be decoded.
WholeAt(f, k) ==
  LET r == Rest
  IN  \A i \in DOMAIN sent[f] :
        /\ k + i \in DOMAIN r
        /\ r[k + i] = [byte |-> sent[f][i], of |-> f, at |-> i]

\* While the connection lasts every frame sent has been found or still lies
\* whole in front of the decoder, whatever noise comes before, between and after
\* frames and however reads cut the stream: resync goes byte by byte, so a frame
\* that a phantom header swallowed is found later (wire.rs feed, resync).
NoFrameLost ==
  state \in {"reading", "feeding"} =>
    \A f \in DOMAIN sent :
      \/ \E i \in DOMAIN Found : Found[i] = f
      \/ \E k \in 0..Len(Rest) : WholeAt(f, k)

\* Frames are found in the order they were sent, each once (wire.rs feed).
FoundInOrder == \A i, j \in DOMAIN Found : i < j => Found[i] < Found[j]

\* A phantom header keeps the frames behind it waiting only so long: between
\* reads the buffer is shorter than the longest plausible frame, and since the
\* read that brought the header no more than RESYNC_LIMIT bytes have come (wire.rs
\* feed, "Bound the wait").
WaitIsBounded ==
  state = "reading" => Len(buf) < MaxPlausible /\ held <= ReadLen + ResyncLimit

\* feed's subtraction self.buf.len() - started never underflows: a wait that is
\* recorded is for the frame at the front of the buffer, which has only grown
\* since (wire.rs feed).
NoUnderflow ==
  waiting # <<>> =>
    /\ waiting[2] \in HeaderLen..Len(buf)
    /\ buf[1].byte = waiting[1]

\* The connection is given up as corrupt only for more than RESYNC_LIMIT bytes of
\* noise between two frames: every frame starts the count again, and no byte of
\* a frame is ever counted (wire.rs FrameDecoder, "since the last good frame").
CorruptOnlyForNoise ==
  state = "corrupt" =>
    \E g \in 0..Len(sent) :
      Cardinality({i \in DOMAIN noise : noise[i] = g}) > ResyncLimit

\* A byte of a frame is what that frame has there.
CellsAreSent ==
  LET r == Rest
  IN  \A j \in DOMAIN r :
        r[j].of # 0 =>
          /\ r[j].of \in DOMAIN sent
          /\ r[j].at \in DOMAIN sent[r[j].of]
          /\ r[j].byte = sent[r[j].of][r[j].at]

\* The bytes of frames are still in the order in which they were sent.
CellsInOrder ==
  LET r == Rest
  IN  \A i, j \in DOMAIN r :
        i < j /\ r[i].of # 0 /\ r[j].of # 0 =>
          \/ r[i].of < r[j].of
          \/ r[i].of = r[j].of /\ r[i].at < r[j].at

\* Nothing is left of the frames found and of the ones before them.
FoundIsBehind ==
  LET r == Rest
  IN  \A i \in DOMAIN Found, j \in DOMAIN r : r[j].of # 0 => Found[i] < r[j].of

\* What has been dropped and what has been held are within their limits as long
\* as feed has not failed.
WithinLimits ==
  state \in {"reading", "feeding"} =>
    /\ dropped <= ResyncLimit
    /\ IF waiting # <<>>
         THEN /\ held <= ReadLen + (Len(buf) - waiting[2])
              /\ state = "reading" => Len(buf) - waiting[2] <= ResyncLimit
         ELSE held <= (IF state = "reading" THEN 0 ELSE ReadLen)

\* Noise still lies where it was sent: in its own order, and between the frames it
\* came between.
NoiseInPlace ==
  LET r == Rest
  IN  /\ \A i \in DOMAIN noise : noise[i] <= Len(sent)
      /\ \A j \in DOMAIN r :
           r[j].of = 0 =>
             /\ r[j].at \in DOMAIN noise
             /\ \A i \in DOMAIN Found : Found[i] <= noise[r[j].at]
             /\ \A i \in DOMAIN r :
                  /\ i < j /\ r[i].of # 0 => r[i].of <= noise[r[j].at]
                  /\ j < i /\ r[i].of # 0 => noise[r[j].at] < r[i].of
                  /\ j < i /\ r[i].of = 0 => r[j].at < r[i].at

LastFound == IF Found = <<>> THEN 0 ELSE Found[Len(Found)]

\* The bytes counted as dropped are noise that came after the last frame found.
DroppedIsNoise ==
  LET r == Rest
  IN  state \in {"reading", "feeding"} =>
        \E d \in SUBSET DOMAIN noise :
          /\ Cardinality(d) = dropped
          /\ \A i \in d :
               /\ noise[i] = LastFound
               /\ \A j \in DOMAIN r : r[j].of = 0 => i < r[j].at

\* The inductive invariant behind NoFrameLost, FoundInOrder, WaitIsBounded,
\* NoUnderflow and CorruptOnlyForNoise: the decoder's buffer and the socket
\* together hold the frames not yet found, whole and in order, with the noise where
\* it was sent; a wait never outlasts a frame that was sent, and what is dropped is
\* noise (wire.rs feed, resync).
DecoderInv ==
  /\ TypeOK
  /\ CellsAreSent
  /\ CellsInOrder
  /\ FoundIsBehind
  /\ WithinLimits
  /\ NoUnderflow
  /\ WaitIsBounded
  /\ NoFrameLost
  /\ FoundInOrder
  /\ NoiseInPlace
  /\ DroppedIsNoise
  /\ CorruptOnlyForNoise
=============================================================================
