-------------------------- MODULE FrameDecoderProofs --------------------------
(***************************************************************************)
(* DecoderInv is an invariant of FrameDecoder, for any frames, any noise   *)
(* and any limits that satisfy DecoderAssumption.                          *)
(*                                                                         *)
(* The argument is about Rest, the bytes still to be decoded.  A step      *)
(* either adds bytes at its end (the panel sends), leaves it alone (a      *)
(* read, a wait) or drops bytes from its front.  Resync drops one byte,    *)
(* and never the first of a frame: where a whole frame lies at the front   *)
(* the header is valid, the frame decodes if it is complete, and the wait  *)
(* for it ends before its limit.  TakeFrame drops a frame, and a frame     *)
(* that began further on lies wholly behind it.  So a byte that resync     *)
(* drops is noise, sent between the last frame found and the next one, and *)
(* the bytes counted in dropped are different ones.                        *)
(***************************************************************************)
EXTENDS FrameDecoder, SequenceTheorems, FiniteSetTheorems, TLAPS

Dropping == SkipByte \/ GiveUpWaiting \/ DropFrame
Keeping(n) == Read(n) \/ NeedMore \/ Wait \/ RefuseFrame

\* The kinds of steps.
LEMMA Kinds ==
  ASSUME [Next]_vars
  PROVE  \/ \E s \in Shapes : SendFrame(s)
         \/ \E b \in Noise : SendNoise(b)
         \/ \E n \in 1..ReadLen : Keeping(n)
         \/ Dropping
         \/ TakeFrame
         \/ UNCHANGED vars
<1>1. CASE \E n \in 1..ReadLen : Read(n)
  BY <1>1 DEF Keeping
<1>2. CASE NeedMore \/ Wait \/ RefuseFrame
  <2>1. 1 \in 1..ReadLen
    BY DecoderAssumption
  <2> QED
    BY <1>2, <2>1 DEF Keeping
<1> QED
  BY <1>1, <1>2 DEF Next, Feed, Dropping

-----------------------------------------------------------------------------
(* What steps do to the bytes still to be decoded and to the frames found. *)

\* Where the bytes of a concatenation are.
LEMMA Joined ==
  ASSUME NEW S, NEW s \in Seq(S), NEW t \in Seq(S)
  PROVE  /\ s \o t \in Seq(S)
         /\ Len(s \o t) = Len(s) + Len(t)
         /\ \A i \in 1..Len(s) : (s \o t)[i] = s[i]
         /\ \A i \in 1..Len(t) : (s \o t)[Len(s) + i] = t[i]
<1>1. /\ s \o t \in Seq(S)
      /\ Len(s \o t) = Len(s) + Len(t)
      /\ \A i \in 1 .. Len(s) + Len(t) :
           (s \o t)[i] = IF i <= Len(s) THEN s[i] ELSE t[i - Len(s)]
  BY ConcatProperties
<1>2. Len(s) \in Nat /\ Len(t) \in Nat
  OBVIOUS
<1>3. ASSUME NEW i \in 1..Len(t) PROVE (s \o t)[Len(s) + i] = t[i]
  <2>1. Len(s) + i \in 1..Len(s) + Len(t) /\ ~(Len(s) + i <= Len(s))
        /\ (Len(s) + i) - Len(s) = i
    BY <1>2
  <2> QED
    BY <1>1, <2>1
<1>4. ASSUME NEW i \in 1..Len(s) PROVE (s \o t)[i] = s[i]
  BY <1>1, <1>2
<1> QED
  BY <1>1, <1>3, <1>4

\* The bytes of Rest are the ones of the buffer, then the ones on the socket.
LEMMA RestIs ==
  ASSUME TypeOK
  PROVE  /\ Rest \in Seq(Cell)
         /\ Len(buf) \in Nat /\ Len(line) \in Nat
         /\ Len(Rest) = Len(buf) + Len(line)
         /\ \A i \in 1..Len(buf) : Rest[i] = buf[i]
         /\ \A i \in 1..Len(line) : Rest[Len(buf) + i] = line[i]
<1>1. buf \in Seq(Cell) /\ line \in Seq(Cell)
  BY DEF TypeOK
<1>2. Len(buf) \in Nat /\ Len(line) \in Nat
  BY <1>1
<1>3. /\ Rest \in Seq(Cell)
      /\ Len(Rest) = Len(buf) + Len(line)
      /\ \A i \in 1..Len(buf) : Rest[i] = buf[i]
      /\ \A i \in 1..Len(line) : Rest[Len(buf) + i] = line[i]
  BY <1>1, Joined DEF Rest
<1> QED
  BY <1>2, <1>3

\* c is b without its first t elements.
Without(b, c, t) ==
  /\ t \in 0..Len(b)
  /\ Len(c) = Len(b) - t
  /\ \A i \in 1..Len(c) : c[i] = b[i + t]

\* Elements dropped from the front of b are dropped from b \o l.
LEMMA FrontDropped ==
  ASSUME NEW S, NEW b \in Seq(S), NEW c \in Seq(S), NEW l \in Seq(S), NEW t
  PROVE  Without(b, c, t) => Without(b \o l, c \o l, t)
<1>1. Len(b) \in Nat /\ Len(c) \in Nat /\ Len(l) \in Nat
  OBVIOUS
<1>2. /\ c \o l \in Seq(S)
      /\ Len(c \o l) = Len(c) + Len(l)
      /\ \A i \in 1..Len(c) : (c \o l)[i] = c[i]
      /\ \A i \in 1..Len(l) : (c \o l)[Len(c) + i] = l[i]
  BY Joined
<1>3. /\ Len(b \o l) = Len(b) + Len(l)
      /\ \A i \in 1..Len(b) : (b \o l)[i] = b[i]
      /\ \A i \in 1..Len(l) : (b \o l)[Len(b) + i] = l[i]
  BY Joined
<1> DEFINE old == b \o l
           new == c \o l
<1>a. /\ Len(new) = Len(c) + Len(l)
      /\ \A i \in 1..Len(c) : new[i] = c[i]
      /\ \A i \in 1..Len(l) : new[Len(c) + i] = l[i]
  BY <1>2, Zenon
<1>b. /\ Len(old) = Len(b) + Len(l)
      /\ \A i \in 1..Len(b) : old[i] = b[i]
      /\ \A i \in 1..Len(l) : old[Len(b) + i] = l[i]
  BY <1>3, Zenon
<1> HIDE DEF old, new
<1> SUFFICES ASSUME Without(b, c, t) PROVE Without(old, new, t)
  BY DEF old, new
<1>c. t \in 0..Len(b) /\ Len(c) = Len(b) - t /\ \A i \in 1..Len(c) : c[i] = b[i + t]
  BY DEF Without
<1>4. ASSUME NEW i \in 1..Len(new) PROVE new[i] = old[i + t]
  <2>1. CASE i <= Len(c)
    <3>1. i \in 1..Len(c) /\ i + t \in 1..Len(b)
      BY <1>1, <1>a, <1>c, <2>1
    <3> QED
      BY <1>a, <1>b, <1>c, <3>1
  <2>2. CASE i > Len(c)
    <3> DEFINE j == i - Len(c)
    <3>1. j \in 1..Len(l) /\ Len(c) + j = i /\ Len(b) + j = i + t
      BY <1>1, <1>a, <1>c, <2>2
    <3> HIDE DEF j
    <3> QED
      BY <1>a, <1>b, <3>1
  <2> QED
    BY <1>1, <1>a, <2>1, <2>2
<1>5. Len(new) = Len(old) - t /\ t \in 0..Len(old)
  BY <1>1, <1>a, <1>b, <1>c
<1> QED
  BY <1>4, <1>5 DEF Without

\* Bytes dropped from the front of the buffer are dropped from Rest.
LEMMA RestDrops ==
  ASSUME TypeOK, NEW t, line' = line, buf' \in Seq(Cell), Without(buf, buf', t)
  PROVE  Rest' \in Seq(Cell) /\ Without(Rest, Rest', t)
<1>1. line \in Seq(Cell) /\ buf \in Seq(Cell)
  BY DEF TypeOK
<1>2. Without(buf \o line, buf' \o line, t)
  BY <1>1, FrontDropped
<1>3. Rest' = buf' \o line /\ Rest = buf \o line
  BY DEF Rest
<1>4. buf' \o line \in Seq(Cell)
  BY <1>1
<1> QED
  BY <1>2, <1>3, <1>4

\* The parts a sequence is cut into.
LEMMA Cut ==
  ASSUME NEW S, NEW s \in Seq(S), NEW n \in 1..Len(s)
  PROVE  /\ SubSeq(s, 1, n) \in Seq(S) /\ Len(SubSeq(s, 1, n)) = n
         /\ SubSeq(s, n + 1, Len(s)) \in Seq(S)
<1>1. Len(s) \in Nat /\ \A i \in 1..Len(s) : s[i] \in S
  OBVIOUS
<1>2. \A i \in 1..n : s[i] \in S
  BY <1>1
<1>3. \A i \in (n + 1)..Len(s) : s[i] \in S
  BY <1>1
<1>4. n \in Int /\ n + 1 \in Int /\ 1 \in Int /\ Len(s) \in Int /\ 1 <= n
  BY <1>1
<1>5. SubSeq(s, 1, n) \in Seq(S) /\ Len(SubSeq(s, 1, n)) = n - 1 + 1
  BY <1>2, <1>4, SubSeqProperties
<1>6. SubSeq(s, n + 1, Len(s)) \in Seq(S)
  BY <1>3, <1>4, SubSeqProperties
<1> QED
  BY <1>4, <1>5, <1>6

\* A read moves bytes from the socket to the buffer; the others touch neither.
LEMMA KeepRest ==
  ASSUME TypeOK, NEW n \in 1..ReadLen, Keeping(n)
  PROVE  Rest' = Rest /\ sent' = sent
<1>1. CASE Read(n)
  <2>1. /\ n \in 1..Len(line) /\ buf \in Seq(Cell) /\ line \in Seq(Cell)
        /\ buf' = buf \o SubSeq(line, 1, n)
        /\ line' = SubSeq(line, n + 1, Len(line))
    BY <1>1 DEF Read, TypeOK
  <2>2. /\ SubSeq(line, 1, n) \in Seq(Cell)
        /\ SubSeq(line, n + 1, Len(line)) \in Seq(Cell)
    BY <2>1, Cut
  <2>3. Rest' = buf \o (SubSeq(line, 1, n) \o SubSeq(line, n + 1, Len(line)))
    <3>1. Rest' = (buf \o SubSeq(line, 1, n)) \o SubSeq(line, n + 1, Len(line))
      BY <2>1 DEF Rest
    <3> DEFINE a == SubSeq(line, 1, n)
               b == SubSeq(line, n + 1, Len(line))
    <3>2. a \in Seq(Cell) /\ b \in Seq(Cell) /\ buf \in Seq(Cell)
      BY <2>1, <2>2
    <3> HIDE DEF a, b
    <3>3. (buf \o a) \o b = buf \o (a \o b)
      BY <3>2, ConcatAssociative
    <3> QED
      BY <3>1, <3>3 DEF a, b
  <2>4. SubSeq(line, 1, n) \o SubSeq(line, n + 1, Len(line)) = line
    <3>1. 1 \in 1..(Len(line) + 1) /\ n \in 0..Len(line) /\ Len(line) \in n..Len(line)
      BY <2>1
    <3>2. SubSeq(line, 1, n) \o SubSeq(line, n + 1, Len(line)) = SubSeq(line, 1, Len(line))
      BY <2>1, <3>1, ConcatAdjacentSubSeq
    <3> QED
      BY <2>1, <3>2, SubSeqFull
  <2> QED
    BY <1>1, <2>3, <2>4 DEF Rest, Read
<1>2. CASE NeedMore \/ Wait \/ RefuseFrame
  BY <1>2 DEF NeedMore, Wait, RefuseFrame, Rest, lineVars
<1> QED
  BY <1>1, <1>2 DEF Keeping

\* resync drops one byte.
LEMMA DropRest ==
  ASSUME TypeOK, Dropping
  PROVE  /\ HasHeader
         /\ buf' \in Seq(Cell) /\ Without(buf, buf', 1)
         /\ Rest' \in Seq(Cell) /\ Without(Rest, Rest', 1)
         /\ Resync /\ UNCHANGED <<lineVars, key, delivered>>
         /\ waiting' = <<>>
<1>1. /\ HasHeader /\ Resync /\ UNCHANGED <<lineVars, key, delivered>>
      /\ waiting' = <<>>
  BY DEF Dropping, SkipByte, GiveUpWaiting, DropFrame, Complete, AtFrame, NotWaiting
<1>2. buf \in Seq(Cell) /\ buf # <<>> /\ buf' = Tail(buf)
  BY <1>1, DecoderAssumption DEF HasHeader, Resync, AfterResync, TypeOK
<1>3. buf' \in Seq(Cell) /\ Without(buf, buf', 1)
  BY <1>2, HeadTailProperties DEF Without
<1>4. line' = line
  BY <1>1 DEF lineVars
<1> QED
  BY <1>1, <1>3, <1>4, RestDrops

\* A frame found is dropped whole.
LEMMA TakeRest ==
  ASSUME TypeOK, TakeFrame
  PROVE  /\ Total \in HeaderLen..MaxPlausible /\ Total \in 1..Len(buf)
         /\ buf' \in Seq(Cell) /\ Without(buf, buf', Total)
         /\ Rest' \in Seq(Cell) /\ Without(Rest, Rest', Total)
         /\ UNCHANGED <<lineVars, key, delivered, state>>
<1>1. /\ Total \in HeaderLen..MaxPlausible /\ Total \in 1..Len(buf)
      /\ UNCHANGED <<lineVars, key, delivered, state>>
      /\ buf' = SubSeq(buf, Total + 1, Len(buf)) /\ buf \in Seq(Cell)
  BY DecoderAssumption
     DEF TakeFrame, Complete, AtFrame, LooksValid, AfterFrame, TypeOK
<1> DEFINE t == Total
<1>2. t \in 1..Len(buf) /\ Len(buf) \in Nat /\ buf' = SubSeq(buf, t + 1, Len(buf))
  BY <1>1
<1> HIDE DEF t
<1>3. buf' \in Seq(Cell) /\ Without(buf, buf', t)
  <2>1. \A i \in (t + 1)..Len(buf) : buf[i] \in Cell
    BY <1>1, <1>2
  <2>2. /\ SubSeq(buf, t + 1, Len(buf)) \in Seq(Cell)
        /\ Len(SubSeq(buf, t + 1, Len(buf))) =
             IF t + 1 <= Len(buf) THEN Len(buf) - (t + 1) + 1 ELSE 0
        /\ \A i \in 1 .. Len(buf) - (t + 1) + 1 :
             SubSeq(buf, t + 1, Len(buf))[i] = buf[(t + 1) + i - 1]
    BY <1>2, <2>1, SubSeqProperties
  <2>3. Len(buf') = Len(buf) - t
    BY <1>2, <2>2
  <2>4. ASSUME NEW i \in 1..Len(buf') PROVE buf'[i] = buf[i + t]
    <3>1. i \in 1 .. Len(buf) - (t + 1) + 1 /\ (t + 1) + i - 1 = i + t
      BY <1>2, <2>3
    <3> QED
      BY <1>2, <2>2, <3>1
  <2> QED
    BY <1>2, <2>2, <2>3, <2>4 DEF Without
<1>4. line' = line
  BY <1>1 DEF lineVars
<1>5. Rest' \in Seq(Cell) /\ Without(Rest, Rest', t)
  BY <1>3, <1>4, RestDrops
<1> QED
  BY <1>1, <1>3, <1>5 DEF t

\* The bytes of a frame as they go on the socket.
LEMMA FrameCells ==
  ASSUME NEW s \in Shapes, NEW n \in Nat
  PROVE  LET f == [i \in DOMAIN s |-> [byte |-> s[i], of |-> n, at |-> i]]
         IN  /\ s \in Seq(Nat) /\ Len(s) \in Nat /\ DOMAIN s = 1..Len(s)
             /\ f \in Seq(Cell) /\ Len(f) = Len(s)
             /\ \A i \in 1..Len(s) : f[i] = [byte |-> s[i], of |-> n, at |-> i]
<1> DEFINE f == [i \in DOMAIN s |-> [byte |-> s[i], of |-> n, at |-> i]]
<1>1. s \in Seq(Nat) /\ Len(s) \in Nat /\ DOMAIN s = 1..Len(s)
  BY DecoderAssumption
<1>2. f \in [1..Len(s) -> Cell]
  BY <1>1 DEF Cell
<1>3. f \in Seq(Cell)
  BY <1>1, <1>2, SeqDef
<1>4. Len(f) = Len(s)
  BY <1>1, <1>3
<1>5. \A i \in 1..Len(s) : f[i] = [byte |-> s[i], of |-> n, at |-> i]
  BY <1>1
<1> QED
  BY <1>1, <1>3, <1>4, <1>5

\* A frame sent is added at the end of what is still to be decoded.
LEMMA SendRest ==
  ASSUME TypeOK, NEW s \in Shapes, SendFrame(s)
  PROVE  /\ line' \in Seq(Cell)
         /\ sent' = Append(sent, s)
         /\ Rest' \in Seq(Cell)
         /\ Len(Rest') = Len(Rest) + Len(s)
         /\ \A i \in 1..Len(Rest) : Rest'[i] = Rest[i]
         /\ \A i \in 1..Len(s) :
              Rest'[Len(Rest) + i] = [byte |-> s[i], of |-> Len(sent) + 1, at |-> i]
         /\ UNCHANGED <<noise, key, buf, dropped, waiting, held, out, delivered, state>>
<1> DEFINE f == [i \in DOMAIN s |-> [byte |-> s[i], of |-> Len(sent) + 1, at |-> i]]
<1>1. /\ sent \in Seq(Shapes) /\ Len(sent) + 1 \in Nat
      /\ buf \in Seq(Cell) /\ line \in Seq(Cell)
  BY DEF TypeOK
<1>2. /\ sent' = Append(sent, s) /\ Len(sent') = Len(sent) + 1
      /\ UNCHANGED <<noise, key, buf, dropped, waiting, held, out, delivered, state>>
  BY <1>1 DEF SendFrame
<1>3. line' = line \o f
  BY <1>2 DEF SendFrame
<1>4. /\ f \in Seq(Cell) /\ Len(f) = Len(s)
      /\ \A i \in 1..Len(s) : f[i] = [byte |-> s[i], of |-> Len(sent) + 1, at |-> i]
  BY <1>1, FrameCells
<1> HIDE DEF f
<1>5. Rest' = Rest \o f
  <2>1. buf \o (line \o f) = (buf \o line) \o f
    BY SMTT(20), <1>1, <1>4, ConcatAssociative
  <2> QED
    BY <1>2, <1>3, <2>1 DEF Rest
<1>6. Rest \in Seq(Cell) /\ f \in Seq(Cell)
  BY <1>4, RestIs
<1>7. /\ Rest \o f \in Seq(Cell)
      /\ Len(Rest \o f) = Len(Rest) + Len(f)
      /\ \A i \in 1..Len(Rest) : (Rest \o f)[i] = Rest[i]
      /\ \A i \in 1..Len(f) : (Rest \o f)[Len(Rest) + i] = f[i]
  BY <1>6, Joined
<1>8. line' \in Seq(Cell)
  BY <1>1, <1>3, <1>4
<1> QED
  BY <1>2, <1>4, <1>5, <1>7, <1>8

\* So is a byte of noise.
LEMMA NoiseRest ==
  ASSUME TypeOK, NEW b \in Noise, SendNoise(b)
  PROVE  /\ line' \in Seq(Cell)
         /\ noise' = Append(noise, Len(sent))
         /\ Rest' \in Seq(Cell)
         /\ Len(Rest') = Len(Rest) + 1
         /\ \A i \in 1..Len(Rest) : Rest'[i] = Rest[i]
         /\ Rest'[Len(Rest) + 1].of = 0
         /\ Rest'[Len(Rest) + 1].at = Len(noise) + 1
         /\ UNCHANGED <<sent, key, buf, dropped, waiting, held, out, delivered, state>>
<1> DEFINE x == [byte |-> b, of |-> 0, at |-> Len(noise')]
<1>0. noise' = Append(noise, Len(sent)) /\ Len(noise') = Len(noise) + 1
      /\ Len(noise) \in Nat
  BY DEF TypeOK, SendNoise
<1>1. x \in Cell /\ x.of = 0 /\ x.at = Len(noise) + 1
  BY <1>0, DecoderAssumption DEF Cell
<1>2. /\ buf \in Seq(Cell) /\ line \in Seq(Cell)
      /\ line' = Append(line, x)
      /\ UNCHANGED <<sent, key, buf, dropped, waiting, held, out, delivered, state>>
  BY DEF TypeOK, SendNoise
<1> HIDE DEF x
<1>3. Rest' = Append(Rest, x)
  <2>1. buf \o Append(line, x) = Append(buf \o line, x)
    BY <1>1, <1>2
  <2> QED
    BY <1>2, <2>1 DEF Rest
<1>4. Rest \in Seq(Cell)
  BY RestIs
<1>5. line' \in Seq(Cell)
  BY <1>1, <1>2
<1>6. /\ Rest' \in Seq(Cell) /\ Len(Rest') = Len(Rest) + 1
      /\ \A i \in 1..Len(Rest) : Rest'[i] = Rest[i]
      /\ Rest'[Len(Rest) + 1] = x
  BY <1>1, <1>3, <1>4, AppendProperties
<1> QED
  BY <1>0, <1>1, <1>2, <1>5, <1>6

\* The frames found stay found, unless feed fails: then the ones of this feed
\* are lost with the connection.
LEMMA FoundKept ==
  ASSUME TypeOK,
         \/ \E s \in Shapes : SendFrame(s)
         \/ \E b \in Noise : SendNoise(b)
         \/ \E n \in 1..ReadLen : Keeping(n)
         \/ Dropping
  PROVE  /\ state' \in {"reading", "feeding"} => Found' = Found
         /\ Len(Found') <= Len(Found)
         /\ \A i \in 1..Len(Found') : Found'[i] = Found[i]
<1>1. /\ out \in Seq(DOMAIN sent) /\ delivered \in Seq(DOMAIN sent)
      /\ Found \in Seq(DOMAIN sent) /\ Len(Found) \in Nat
  BY DEF TypeOK, Found
<1>2. CASE out' = out /\ delivered' = delivered
  BY <1>1, <1>2 DEF Found
<1>3. CASE Return
  <2>1. Found' = (delivered \o out) \o <<>>
    BY <1>3 DEF Return, Found
  <2>2. (delivered \o out) \o <<>> = delivered \o out
    BY <1>1 DEF Found
  <2>3. Found' = Found
    BY <2>1, <2>2 DEF Found
  <2> QED
    BY <1>1, <2>3
<1>4. CASE out' = <<>> /\ delivered' = delivered /\ state' \notin {"reading", "feeding"}
  <2>1. Found' = delivered
    BY <1>1, <1>4 DEF Found
  <2>2. /\ Len(Found) = Len(delivered) + Len(out)
        /\ \A i \in 1..Len(delivered) : Found[i] = delivered[i]
    BY <1>1, Joined DEF Found
  <2> QED
    BY <1>1, <1>4, <2>1, <2>2
<1>5. \/ out' = out /\ delivered' = delivered
      \/ Return
      \/ out' = <<>> /\ delivered' = delivered /\ state' \notin {"reading", "feeding"}
  <2>1. CASE \/ \E s \in Shapes : SendFrame(s)
             \/ \E b \in Noise : SendNoise(b)
             \/ \E n \in 1..ReadLen : Keeping(n)
    BY <2>1 DEF SendFrame, SendNoise, Keeping, Read, NeedMore, Wait, RefuseFrame
  <2>2. CASE Dropping
    <3>1. Resync /\ delivered' = delivered
      BY <2>2, DropRest
    <3> QED
      BY <3>1 DEF Resync
  <2> QED
    BY <2>1, <2>2
<1> QED
  BY <1>2, <1>3, <1>4, <1>5

\* The frame found is the one the first byte of the buffer belongs to, and its
\* bytes are the first of the buffer.
LEMMA FoundGrows ==
  ASSUME TypeOK, TakeFrame
  PROVE  /\ Found' = Append(Found, buf[1].of)
         /\ buf[1].of # 0 /\ buf[1].of \in Nat
         /\ \A i \in 1..Total :
              buf[i].of = buf[1].of /\ buf[i].at = i /\ Rest[i] = buf[i]
<1>1. /\ out \in Seq(DOMAIN sent) /\ delivered \in Seq(DOMAIN sent)
      /\ buf \in Seq(Cell)
      /\ out' = Append(out, buf[1].of) /\ delivered' = delivered
      /\ Decodes
  BY DEF TypeOK, TakeFrame
<1>2. Total \in 1..Len(buf)
  BY TakeRest
<1>3. Found' = Append(Found, buf[1].of)
  BY <1>1 DEF Found
<1>4. \A i \in 1..Len(buf) : Rest[i] = buf[i]
  BY RestIs
<1>5. buf[1] \in Cell
  BY <1>1, <1>2
<1>6. buf[1].of \in Nat
  BY <1>5 DEF Cell
<1>7. /\ \A i \in 1..Total : buf[i].of # 0 /\ buf[i].of = buf[1].of /\ buf[i].at = i
      /\ 1 \in 1..Total
  BY <1>1, <1>2 DEF Decodes
<1>8. \A i \in 1..Total : i \in 1..Len(buf)
  BY <1>1, <1>2
<1> QED
  BY <1>3, <1>4, <1>6, <1>7, <1>8

LEMMA Stutter == UNCHANGED vars => Rest' = Rest /\ Found' = Found
  BY DEF vars, lineVars, Rest, Found

\* Shapes are frames: the first byte is the length.
LEMMA ShapeLen ==
  ASSUME TypeOK, NEW f \in DOMAIN sent
  PROVE  /\ sent[f] \in Shapes /\ sent[f] \in Seq(Nat)
         /\ Len(sent[f]) \in HeaderLen..MaxPlausible /\ Len(sent[f]) \in Nat
         /\ Len(sent[f]) >= 3 /\ Len(sent[f]) <= HeaderLen + ResyncLimit
         /\ DOMAIN sent[f] = 1..Len(sent[f])
         /\ sent[f][1] = Len(sent[f]) /\ sent[f][2] = Magic
<1>1. sent[f] \in Shapes
  BY DEF TypeOK
<1> QED
  BY <1>1, DecoderAssumption

-----------------------------------------------------------------------------
(* The parts of the invariant.                                             *)

\* A fresh decoder on a fresh connection.
LEMMA InitDecoder == Init => DecoderInv
<1> SUFFICES ASSUME Init PROVE DecoderInv
  OBVIOUS
<1>1. Rest = <<>> /\ Found = <<>>
  BY DEF Init, Rest, Found
<1>2. TypeOK
  BY DecoderAssumption DEF Init, TypeOK
<1>3. CellsAreSent /\ CellsInOrder /\ FoundIsBehind /\ FoundInOrder
  BY <1>1 DEF CellsAreSent, CellsInOrder, FoundIsBehind, FoundInOrder
<1>4. WithinLimits /\ NoUnderflow /\ WaitIsBounded
  BY DecoderAssumption DEF Init, WithinLimits, NoUnderflow, WaitIsBounded
<1>5. NoFrameLost
  BY DEF Init, NoFrameLost
<1>6. NoiseInPlace /\ CorruptOnlyForNoise
  BY <1>1 DEF Init, NoiseInPlace, CorruptOnlyForNoise
<1>7. DroppedIsNoise
  <2>1. {} \in SUBSET DOMAIN noise /\ Cardinality({}) = 0
    BY FS_EmptySet
  <2> QED
    BY <1>1, <2>1 DEF Init, DroppedIsNoise
<1> QED
  BY <1>2, <1>3, <1>4, <1>5, <1>6, <1>7 DEF DecoderInv

\* Bytes of frames stay what they are (wire.rs feed).
LEMMA SentStep == DecoderInv /\ [Next]_vars => CellsAreSent'
<1> SUFFICES ASSUME DecoderInv, [Next]_vars PROVE CellsAreSent'
  OBVIOUS
<1>0. TypeOK /\ CellsAreSent
  BY DEF DecoderInv
<1>r. Rest \in Seq(Cell) /\ Len(Rest) \in Nat /\ sent \in Seq(Shapes)
  BY <1>0, RestIs DEF TypeOK
<1>1. ASSUME NEW s \in Shapes, SendFrame(s) PROVE CellsAreSent'
  <2>0. s \in Seq(Nat)
    BY DecoderAssumption
  <2>1. /\ sent' = Append(sent, s) /\ s \in Seq(Nat)
        /\ Rest' \in Seq(Cell)
        /\ Len(Rest') = Len(Rest) + Len(s)
        /\ \A i \in 1..Len(Rest) : Rest'[i] = Rest[i]
        /\ \A i \in 1..Len(s) :
             Rest'[Len(Rest) + i] = [byte |-> s[i], of |-> Len(sent) + 1, at |-> i]
    BY <1>0, <1>1, <2>0, SendRest
  <2>2. /\ Len(sent) \in Nat /\ Len(s) \in Nat
        /\ DOMAIN sent' = 1..(Len(sent) + 1) /\ DOMAIN sent = 1..Len(sent)
        /\ \A g \in DOMAIN sent : sent'[g] = sent[g]
        /\ sent'[Len(sent) + 1] = s /\ DOMAIN s = 1..Len(s)
    BY <1>r, <2>1
  <2>3. ASSUME NEW j \in 1..Len(Rest'), Rest'[j].of # 0
        PROVE  /\ Rest'[j].of \in DOMAIN sent'
               /\ Rest'[j].at \in DOMAIN sent'[Rest'[j].of]
               /\ Rest'[j].byte = sent'[Rest'[j].of][Rest'[j].at]
    <3>1. CASE j <= Len(Rest)
      <4>1. j \in DOMAIN Rest /\ Rest'[j] = Rest[j]
        BY <1>r, <2>1, <3>1
      <4>2. /\ Rest[j].of \in DOMAIN sent
            /\ Rest[j].at \in DOMAIN sent[Rest[j].of]
            /\ Rest[j].byte = sent[Rest[j].of][Rest[j].at]
        BY <1>0, <2>3, <4>1 DEF CellsAreSent
      <4> QED
        BY <2>2, <4>1, <4>2
    <3>2. CASE j > Len(Rest)
      <4> DEFINE i == j - Len(Rest)
      <4>1. i \in 1..Len(s) /\ Len(Rest) + i = j
        BY <1>r, <2>1, <2>2, <3>2
      <4> HIDE DEF i
      <4>2. Rest'[j] = [byte |-> s[i], of |-> Len(sent) + 1, at |-> i]
        BY <2>1, <4>1
      <4>3. Rest'[j].byte = s[i] /\ Rest'[j].of = Len(sent) + 1 /\ Rest'[j].at = i
        BY <4>2
      <4> QED
        BY <2>2, <4>1, <4>3
    <3> QED
      BY <1>r, <3>1, <3>2
  <2> QED
    BY SMTT(20), <2>1, <2>3 DEF CellsAreSent
<1>2. ASSUME NEW b \in Noise, SendNoise(b) PROVE CellsAreSent'
  <2>1. /\ sent' = sent /\ Rest' \in Seq(Cell)
        /\ Len(Rest') = Len(Rest) + 1
        /\ \A i \in 1..Len(Rest) : Rest'[i] = Rest[i]
        /\ Rest'[Len(Rest) + 1].of = 0
    BY <1>0, <1>2, NoiseRest
  <2>2. ASSUME NEW j \in DOMAIN Rest', Rest'[j].of # 0
        PROVE  j \in DOMAIN Rest /\ Rest'[j] = Rest[j]
    BY <1>r, <2>1, <2>2
  <2> QED
    BY <1>0, <2>1, <2>2 DEF CellsAreSent
<1>3. ASSUME Rest' = Rest, sent' = sent PROVE CellsAreSent'
  BY <1>0, <1>3 DEF CellsAreSent
<1>4. ASSUME NEW t, Rest' \in Seq(Cell), Without(Rest, Rest', t), sent' = sent
      PROVE  CellsAreSent'
  <2>1. ASSUME NEW j \in DOMAIN Rest'
        PROVE  j + t \in DOMAIN Rest /\ Rest'[j] = Rest[j + t]
    BY <1>r, <1>4, <2>1 DEF Without
  <2> QED
    BY <1>0, <1>4, <2>1 DEF CellsAreSent
<1>5. CASE \E n \in 1..ReadLen : Keeping(n)
  BY <1>0, <1>3, <1>5, KeepRest
<1>6. CASE Dropping
  BY <1>0, <1>4, <1>6, DropRest DEF lineVars
<1>7. CASE TakeFrame
  BY <1>0, <1>4, <1>7, TakeRest DEF lineVars
<1>8. CASE UNCHANGED vars
  BY <1>3, <1>8, Stutter DEF vars, lineVars
<1> QED
  BY <1>1, <1>2, <1>5, <1>6, <1>7, <1>8, Kinds

\* The order of sending is kept (wire.rs feed).
LEMMA OrderStep == DecoderInv /\ [Next]_vars => CellsInOrder'
<1> SUFFICES ASSUME DecoderInv, [Next]_vars PROVE CellsInOrder'
  OBVIOUS
<1>0. TypeOK /\ CellsAreSent /\ CellsInOrder
  BY DEF DecoderInv
<1>r. /\ Rest \in Seq(Cell) /\ Len(Rest) \in Nat
      /\ sent \in Seq(Shapes) /\ Len(sent) \in Nat /\ DOMAIN sent = 1..Len(sent)
  BY <1>0, RestIs DEF TypeOK
<1>1. ASSUME NEW s \in Shapes, SendFrame(s) PROVE CellsInOrder'
  <2>0. Len(s) \in Nat
    BY DecoderAssumption
  <2>1. /\ Rest' \in Seq(Cell) /\ Len(s) \in Nat
        /\ Len(Rest') = Len(Rest) + Len(s)
        /\ \A i \in 1..Len(Rest) : Rest'[i] = Rest[i]
        /\ \A i \in 1..Len(s) :
             Rest'[Len(Rest) + i] = [byte |-> s[i], of |-> Len(sent) + 1, at |-> i]
    BY <1>0, <1>1, <2>0, SendRest
  <2>2. ASSUME NEW j \in DOMAIN Rest', j > Len(Rest)
        PROVE  Rest'[j].of = Len(sent) + 1 /\ Rest'[j].at = j - Len(Rest)
    <3> DEFINE i == j - Len(Rest)
    <3>1. i \in 1..Len(s) /\ Len(Rest) + i = j
      BY <1>r, <2>1, <2>2
    <3> HIDE DEF i
    <3>2. Rest'[j] = [byte |-> s[i], of |-> Len(sent) + 1, at |-> i]
      BY <2>1, <3>1
    <3> QED
      BY <3>2 DEF i
  <2>3. ASSUME NEW i \in DOMAIN Rest', NEW j \in DOMAIN Rest', i < j,
               Rest'[i].of # 0, Rest'[j].of # 0
        PROVE  \/ Rest'[i].of < Rest'[j].of
               \/ Rest'[i].of = Rest'[j].of /\ Rest'[i].at < Rest'[j].at
    <3>1. CASE j <= Len(Rest)
      <4>1. /\ i \in DOMAIN Rest /\ j \in DOMAIN Rest
            /\ Rest'[i] = Rest[i] /\ Rest'[j] = Rest[j]
        BY <1>r, <2>1, <2>3, <3>1
      <4> QED
        BY <1>0, <2>3, <4>1 DEF CellsInOrder
    <3>2. CASE i <= Len(Rest) /\ j > Len(Rest)
      <4>1. i \in DOMAIN Rest /\ Rest'[i] = Rest[i]
        BY <1>r, <2>1, <2>3, <3>2
      <4>2. Rest[i].of \in 1..Len(sent)
        BY <1>0, <1>r, <2>3, <4>1 DEF CellsAreSent
      <4> QED
        BY <1>r, <2>2, <3>2, <4>1, <4>2
    <3>3. CASE i > Len(Rest)
      <4>1. /\ i \in Int /\ j \in Int /\ j > Len(Rest)
            /\ Rest'[i].of = Len(sent) + 1 /\ Rest'[i].at = i - Len(Rest)
            /\ Rest'[j].of = Len(sent) + 1 /\ Rest'[j].at = j - Len(Rest)
        BY <1>r, <2>1, <2>2, <2>3, <3>3
      <4> QED
        BY <1>r, <2>3, <4>1
    <3> QED
      BY <1>r, <2>1, <2>3, <3>1, <3>2, <3>3
  <2> QED
    BY <2>3 DEF CellsInOrder
<1>2. ASSUME NEW b \in Noise, SendNoise(b) PROVE CellsInOrder'
  <2>1. /\ Rest' \in Seq(Cell)
        /\ Len(Rest') = Len(Rest) + 1
        /\ \A i \in 1..Len(Rest) : Rest'[i] = Rest[i]
        /\ Rest'[Len(Rest) + 1].of = 0
    BY <1>0, <1>2, NoiseRest
  <2>2. ASSUME NEW j \in DOMAIN Rest', Rest'[j].of # 0
        PROVE  j \in DOMAIN Rest /\ Rest'[j] = Rest[j]
    BY <1>r, <2>1, <2>2
  <2> QED
    BY <1>0, <2>2 DEF CellsInOrder
<1>3. ASSUME Rest' = Rest PROVE CellsInOrder'
  BY <1>0, <1>3 DEF CellsInOrder
<1>4. ASSUME NEW t, Rest' \in Seq(Cell), Without(Rest, Rest', t) PROVE CellsInOrder'
  <2>1. ASSUME NEW j \in DOMAIN Rest'
        PROVE  j + t \in DOMAIN Rest /\ Rest'[j] = Rest[j + t]
    BY <1>r, <1>4, <2>1 DEF Without
  <2>2. ASSUME NEW i \in DOMAIN Rest', NEW j \in DOMAIN Rest', i < j
        PROVE  i + t < j + t
    BY <1>r, <1>4, <2>2 DEF Without
  <2> QED
    BY <1>0, <2>1, <2>2 DEF CellsInOrder
<1>5. CASE \E n \in 1..ReadLen : Keeping(n)
  BY <1>0, <1>3, <1>5, KeepRest
<1>6. CASE Dropping
  BY <1>0, <1>4, <1>6, DropRest
<1>7. CASE TakeFrame
  BY <1>0, <1>4, <1>7, TakeRest
<1>8. CASE UNCHANGED vars
  BY <1>3, <1>8, Stutter
<1> QED
  BY <1>1, <1>2, <1>5, <1>6, <1>7, <1>8, Kinds

\* The first byte behind a frame found belongs to a later frame, or to none.
LEMMA BehindFrame ==
  ASSUME DecoderInv, TakeFrame, NEW j \in DOMAIN Rest, j > Total, Rest[j].of # 0
  PROVE  buf[1].of < Rest[j].of
<1>0. TypeOK /\ CellsAreSent /\ CellsInOrder
  BY DEF DecoderInv
<1> DEFINE g == buf[1].of
           t == Total
<1>1. /\ t \in 1..Len(Rest) /\ 1 \in 1..t /\ t \in 1..t
      /\ Len(Rest) \in Nat /\ DOMAIN Rest = 1..Len(Rest)
  BY <1>0, TakeRest, RestIs
<1>2. /\ g # 0 /\ g \in Nat
      /\ \A i \in 1..t : Rest[i].of = g /\ Rest[i].at = i
      /\ Rest[1].byte = t
  <2>1. /\ g # 0 /\ g \in Nat
        /\ \A i \in 1..t : buf[i].of = g /\ buf[i].at = i /\ Rest[i] = buf[i]
    BY <1>0, FoundGrows
  <2>2. Rest[1] = buf[1]
    BY <1>1, <2>1
  <2>3. Rest[1].byte = t
    BY <2>2 DEF Total
  <2> HIDE DEF g, t
  <2> QED
    BY <2>1, <2>3
<1> HIDE DEF g, t
<1>3. g \in DOMAIN sent /\ t = sent[g][1]
  BY <1>0, <1>1, <1>2 DEF CellsAreSent
<1>4. t = Len(sent[g]) /\ DOMAIN sent[g] = 1..t /\ t \in Nat
  BY <1>0, <1>3, ShapeLen
<1>5. t < j
  BY DEF t
<1>6. g < Rest[j].of \/ (g = Rest[j].of /\ t < Rest[j].at)
  BY <1>0, <1>1, <1>2, <1>5 DEF CellsInOrder
<1>7. Rest[j].of = g => Rest[j].at \in 1..t
  BY <1>0, <1>4 DEF CellsAreSent
<1>8. g < Rest[j].of
  BY <1>4, <1>6, <1>7
<1> QED
  BY <1>8 DEF g

\* Frames are found in the order of sending (wire.rs feed).
LEMMA FoundStep == DecoderInv /\ [Next]_vars => FoundIsBehind' /\ FoundInOrder'
<1> SUFFICES ASSUME DecoderInv, [Next]_vars PROVE FoundIsBehind' /\ FoundInOrder'
  OBVIOUS
<1>0. TypeOK /\ CellsAreSent /\ FoundIsBehind /\ FoundInOrder
  BY DEF DecoderInv
<1>r. /\ Rest \in Seq(Cell) /\ Len(Rest) \in Nat
      /\ sent \in Seq(Shapes) /\ Len(sent) \in Nat /\ DOMAIN sent = 1..Len(sent)
  BY <1>0, RestIs DEF TypeOK
<1>f. /\ Found \in Seq(DOMAIN sent) /\ Len(Found) \in Nat /\ DOMAIN Found = 1..Len(Found)
      /\ Found \in Seq(Nat)
  <2>1. Found \in Seq(DOMAIN sent)
    BY <1>0 DEF TypeOK, Found
  <2>2. DOMAIN sent \subseteq Nat
    BY <1>r
  <2> QED
    BY <2>1, <2>2
<1>1. ASSUME NEW n \in Nat, n <= Len(Found), DOMAIN Found' = 1..n,
             \A i \in 1..n : Found'[i] = Found[i],
             \A j \in DOMAIN Rest' : Rest'[j].of # 0 =>
                \/ Rest'[j].of = Len(sent) + 1
                \/ \E k \in DOMAIN Rest : Rest'[j].of = Rest[k].of
      PROVE  FoundIsBehind' /\ FoundInOrder'
  <2>1. FoundInOrder'
    BY <1>0, <1>1, <1>f DEF FoundInOrder
  <2>2. ASSUME NEW i \in DOMAIN Found', NEW j \in DOMAIN Rest', Rest'[j].of # 0
        PROVE  Found'[i] < Rest'[j].of
    <3>1. i \in DOMAIN Found /\ Found'[i] = Found[i] /\ Found[i] \in 1..Len(sent)
      BY <1>1, <1>f, <1>r, <2>2
    <3>2. CASE Rest'[j].of = Len(sent) + 1
      BY <1>r, <3>1, <3>2
    <3>3. CASE \E k \in DOMAIN Rest : Rest'[j].of = Rest[k].of
      BY <1>0, <2>2, <3>1, <3>3 DEF FoundIsBehind
    <3> QED
      BY <1>1, <2>2, <3>2, <3>3
  <2> QED
    BY <2>1, <2>2 DEF FoundIsBehind
<1>2. ASSUME \/ \E s \in Shapes : SendFrame(s)
             \/ \E b \in Noise : SendNoise(b)
             \/ \E n \in 1..ReadLen : Keeping(n)
             \/ Dropping
             \/ UNCHANGED vars
      PROVE  \E n \in Nat : /\ n <= Len(Found) /\ DOMAIN Found' = 1..n
                            /\ \A i \in 1..n : Found'[i] = Found[i]
  <2>1. \E T : Found' \in Seq(T)
    <3>1. CASE UNCHANGED vars
      BY <1>f, <3>1, Stutter
    <3>2. CASE \E n \in 1..ReadLen : Keeping(n)
      <4>1. Found' = Found \/ (out' = <<>> /\ delivered' = delivered)
        BY <1>0, <3>2, FoundKept DEF Keeping, RefuseFrame, Read, NeedMore, Wait, Return
      <4>2. CASE Found' = Found
        BY <1>f, <4>2
      <4>3. CASE out' = <<>> /\ delivered' = delivered
        <5>1. out' \in Seq(DOMAIN sent) /\ delivered' \in Seq(DOMAIN sent)
          BY <1>0, <4>3 DEF TypeOK
        <5> QED
          BY <5>1 DEF Found
      <4> QED
        BY <4>1, <4>2, <4>3
    <3>3. CASE Dropping
      <4>1. (out' = out \/ out' = <<>>) /\ delivered' = delivered
        BY <1>0, <3>3, DropRest DEF Resync
      <4>2. out' \in Seq(DOMAIN sent) /\ delivered' \in Seq(DOMAIN sent)
        <5>1. out \in Seq(DOMAIN sent) /\ delivered \in Seq(DOMAIN sent)
          BY <1>0 DEF TypeOK
        <5>2. <<>> \in Seq(DOMAIN sent)
          OBVIOUS
        <5> QED
          BY <4>1, <5>1, <5>2
      <4> QED
        BY <4>2 DEF Found
    <3>4. CASE (\E s \in Shapes : SendFrame(s)) \/ (\E b \in Noise : SendNoise(b))
      BY <1>f, <3>4 DEF SendFrame, SendNoise, Found
    <3> QED
      BY <1>2, <3>1, <3>2, <3>3, <3>4
  <2>2. Len(Found') <= Len(Found) /\ \A i \in 1..Len(Found') : Found'[i] = Found[i]
    <3>1. CASE UNCHANGED vars
      BY <1>f, <3>1, Stutter
    <3> QED
      BY <1>0, <1>2, <3>1, FoundKept
  <2> QED
    BY <2>1, <2>2
<1>3. ASSUME NEW s \in Shapes, SendFrame(s), NEW j \in DOMAIN Rest'
      PROVE  \/ Rest'[j].of = Len(sent) + 1
             \/ \E k \in DOMAIN Rest : Rest'[j].of = Rest[k].of
  <2>0. Len(s) \in Nat
    BY DecoderAssumption
  <2>1. /\ Rest' \in Seq(Cell) /\ Len(s) \in Nat
        /\ Len(Rest') = Len(Rest) + Len(s)
        /\ \A i \in 1..Len(Rest) : Rest'[i] = Rest[i]
        /\ \A i \in 1..Len(s) :
             Rest'[Len(Rest) + i] = [byte |-> s[i], of |-> Len(sent) + 1, at |-> i]
    BY <1>0, <1>3, <2>0, SendRest
  <2>2. CASE j <= Len(Rest)
    <3>1. j \in DOMAIN Rest /\ Rest'[j] = Rest[j]
      BY <1>r, <1>3, <2>1, <2>2
    <3> QED
      BY <3>1
  <2>3. CASE j > Len(Rest)
    <3> DEFINE i == j - Len(Rest)
    <3>1. i \in 1..Len(s) /\ Len(Rest) + i = j
      BY <1>r, <1>3, <2>1, <2>3
    <3> HIDE DEF i
    <3>2. Rest'[j] = [byte |-> s[i], of |-> Len(sent) + 1, at |-> i]
      BY <2>1, <3>1
    <3> QED
      BY <3>2
  <2> QED
    BY <1>r, <1>3, <2>1, <2>2, <2>3
<1>4. ASSUME NEW b \in Noise, SendNoise(b), NEW j \in DOMAIN Rest', Rest'[j].of # 0
      PROVE  \E k \in DOMAIN Rest : Rest'[j].of = Rest[k].of
  <2>1. /\ Rest' \in Seq(Cell)
        /\ Len(Rest') = Len(Rest) + 1
        /\ \A i \in 1..Len(Rest) : Rest'[i] = Rest[i]
        /\ Rest'[Len(Rest) + 1].of = 0
    BY <1>0, <1>4, NoiseRest
  <2>2. j \in DOMAIN Rest /\ Rest'[j] = Rest[j]
    BY <1>r, <1>4, <2>1
  <2> QED
    BY <2>2
<1>5. ASSUME NEW t, Rest' \in Seq(Cell), Without(Rest, Rest', t), NEW j \in DOMAIN Rest'
      PROVE  j + t \in DOMAIN Rest /\ Rest'[j] = Rest[j + t]
  BY <1>r, <1>5 DEF Without
<1>6. CASE \E s \in Shapes : SendFrame(s)
  BY <1>1, <1>2, <1>3, <1>6
<1>7. CASE \E b \in Noise : SendNoise(b)
  BY <1>1, <1>2, <1>4, <1>7
<1>8. CASE (\E n \in 1..ReadLen : Keeping(n)) \/ UNCHANGED vars
  <2>1. Rest' = Rest
    BY <1>0, <1>8, KeepRest, Stutter
  <2> QED
    BY <1>1, <1>2, <1>8, <2>1
<1>9. CASE Dropping
  <2>1. Rest' \in Seq(Cell) /\ Without(Rest, Rest', 1)
    BY <1>0, <1>9, DropRest
  <2>2. \A j \in DOMAIN Rest' : j + 1 \in DOMAIN Rest /\ Rest'[j] = Rest[j + 1]
    BY <1>5, <2>1
  <2> QED
    BY <1>1, <1>2, <1>9, <2>2
<1>10. CASE TakeFrame
  <2> DEFINE g == buf[1].of
             t == Total
  <2>1. Rest' \in Seq(Cell) /\ Without(Rest, Rest', t) /\ t \in Nat
    BY <1>0, <1>10, TakeRest, DecoderAssumption
  <2>2. Found' = Append(Found, g) /\ g \in Nat /\ g # 0
    BY <1>0, <1>10, FoundGrows
  <2>3. \A j \in DOMAIN Rest' : Rest'[j].of # 0 => g < Rest'[j].of
    <3>1. ASSUME NEW j \in DOMAIN Rest', Rest'[j].of # 0 PROVE g < Rest'[j].of
      <4>1. j + t \in DOMAIN Rest /\ Rest'[j] = Rest[j + t]
        BY <1>5, <2>1, <3>1
      <4>2. j + t > Total
        BY <2>1, <3>1 DEF t
      <4> QED
        BY <1>10, <3>1, <4>1, <4>2, BehindFrame
    <3> QED
      BY <3>1
  <2>4. \A i \in DOMAIN Found : Found[i] < g
    <3>1. 1 \in DOMAIN Rest /\ Rest[1].of = g
      <4>1. Total \in 1..Len(buf) /\ Len(Rest) = Len(buf) + Len(line)
            /\ Len(buf) \in Nat /\ Len(line) \in Nat
        BY <1>0, <1>10, TakeRest, RestIs
      <4>2. 1 \in 1..Len(buf) /\ 1 \in DOMAIN Rest
        BY <1>r, <4>1
      <4> QED
        BY <1>0, <4>2, RestIs
    <3> QED
      BY <1>0, <2>2, <3>1 DEF FoundIsBehind
  <2> HIDE DEF g, t
  <2>5. /\ DOMAIN Found' = 1..(Len(Found) + 1)
        /\ \A i \in DOMAIN Found : Found'[i] = Found[i]
        /\ Found'[Len(Found) + 1] = g
    BY <1>f, <2>2
  <2>6. FoundInOrder'
    <3>1. ASSUME NEW i \in DOMAIN Found', NEW j \in DOMAIN Found', i < j
          PROVE  Found'[i] < Found'[j]
      <4>1. i \in DOMAIN Found /\ Found'[i] = Found[i]
        BY <1>f, <2>5, <3>1
      <4>2. CASE j \in DOMAIN Found
        BY <1>0, <2>5, <3>1, <4>1, <4>2 DEF FoundInOrder
      <4>3. CASE j = Len(Found) + 1
        BY <2>4, <2>5, <4>1, <4>3
      <4> QED
        BY <1>f, <2>5, <3>1, <4>2, <4>3
    <3> QED
      BY <3>1 DEF FoundInOrder
  <2>7. FoundIsBehind'
    <3>1. ASSUME NEW i \in DOMAIN Found', NEW j \in DOMAIN Rest', Rest'[j].of # 0
          PROVE  Found'[i] < Rest'[j].of
      <4>1. CASE i \in DOMAIN Found
        <5>1. j + t \in DOMAIN Rest /\ Rest'[j] = Rest[j + t]
          BY <1>5, <2>1, <3>1
        <5> QED
          BY <1>0, <2>5, <3>1, <4>1, <5>1 DEF FoundIsBehind
      <4>2. CASE i = Len(Found) + 1
        BY <2>3, <2>5, <3>1, <4>2
      <4> QED
        BY <1>f, <2>5, <3>1, <4>1, <4>2
    <3> QED
      BY <3>1 DEF FoundIsBehind
  <2> QED
    BY <2>6, <2>7
<1> QED
  BY <1>6, <1>7, <1>8, <1>9, <1>10, Kinds

\* A wait is for the frame at the front of the buffer (wire.rs feed).
LEMMA WaitStep == DecoderInv /\ [Next]_vars => NoUnderflow'
<1> SUFFICES ASSUME DecoderInv, [Next]_vars, waiting' # <<>>
             PROVE  waiting'[2] \in HeaderLen..Len(buf') /\ buf'[1].byte = waiting'[1]
  BY DEF NoUnderflow
<1>0. TypeOK /\ NoUnderflow /\ buf \in Seq(Cell) /\ Len(buf) \in Nat
  BY DEF DecoderInv, TypeOK
<1>1. CASE waiting' = waiting /\ buf' = buf
  BY <1>0, <1>1 DEF NoUnderflow
<1>2. ASSUME NEW n \in 1..ReadLen, Read(n)
      PROVE  waiting'[2] \in HeaderLen..Len(buf') /\ buf'[1].byte = waiting'[1]
  <2>1. /\ waiting' = waiting /\ buf' = buf \o SubSeq(line, 1, n)
        /\ SubSeq(line, 1, n) \in Seq(Cell)
    BY <1>0, <1>2, Cut DEF Read, TypeOK
  <2>2. Len(buf') = Len(buf) + Len(SubSeq(line, 1, n)) /\ Len(SubSeq(line, 1, n)) \in Nat
    BY <1>0, <2>1
  <2>3. waiting[2] \in HeaderLen..Len(buf) /\ buf[1].byte = waiting[1]
    BY <1>0, <2>1 DEF NoUnderflow
  <2>4. 1 \in 1..Len(buf)
    BY <1>0, <2>3, DecoderAssumption
  <2>5. buf'[1] = buf[1]
    BY <1>0, <2>1, <2>4
  <2> QED
    BY <1>0, <2>1, <2>2, <2>3, <2>5, DecoderAssumption
<1>3. CASE Wait
  <2>1. /\ waiting' = <<Total, Started>> /\ buf' = buf
        /\ Len(buf) >= HeaderLen
    BY <1>3 DEF Wait, AtFrame, HasHeader
  <2>2. Started \in HeaderLen..Len(buf)
    BY <1>0, <2>1, DecoderAssumption DEF Started, NoUnderflow
  <2> QED
    BY <2>1, <2>2 DEF Total
<1>4. waiting' = <<>> \/ (waiting' = waiting /\ buf' = buf) \/ Wait
      \/ \E n \in 1..ReadLen : Read(n)
  <2>1. CASE Dropping
    BY <1>0, <2>1, DropRest
  <2>2. CASE TakeFrame
    BY <2>2 DEF TakeFrame, NotWaiting
  <2>3. CASE (\E s \in Shapes : SendFrame(s)) \/ (\E b \in Noise : SendNoise(b))
    BY <2>3 DEF SendFrame, SendNoise
  <2>4. CASE \E n \in 1..ReadLen : Keeping(n)
    BY <2>4 DEF Keeping, NeedMore, RefuseFrame, NotWaiting
  <2>5. CASE UNCHANGED vars
    BY <2>5 DEF vars
  <2> QED
    BY <2>1, <2>2, <2>3, <2>4, <2>5, Kinds
<1> QED
  BY <1>1, <1>2, <1>3, <1>4

\* Dropped bytes, and bytes that wait, stay within their limits (wire.rs feed,
\* resync).
LEMMA LimitsStep == DecoderInv /\ [Next]_vars => WithinLimits' /\ WaitIsBounded'
<1> SUFFICES ASSUME DecoderInv, [Next]_vars PROVE WithinLimits' /\ WaitIsBounded'
  OBVIOUS
<1>0. TypeOK /\ WithinLimits /\ WaitIsBounded /\ NoUnderflow
  BY DEF DecoderInv
<1>t. /\ buf \in Seq(Cell) /\ Len(buf) \in Nat /\ held \in Nat /\ dropped \in Nat
      /\ HeaderLen \in Nat /\ HeaderLen >= 3 /\ HeaderLen <= MaxPlausible
      /\ MaxPlausible \in Nat /\ ResyncLimit \in Nat /\ ReadLen \in Nat
  BY <1>0, DecoderAssumption DEF TypeOK
<1>1. ASSUME UNCHANGED <<state, dropped, waiting, held, buf>>
      PROVE  WithinLimits' /\ WaitIsBounded'
  BY <1>0, <1>1 DEF WithinLimits, WaitIsBounded
<1>2. ASSUME NEW n \in 1..ReadLen, Read(n) PROVE WithinLimits' /\ WaitIsBounded'
  <2>1. /\ state = "reading" /\ state' = "feeding"
        /\ waiting' = waiting /\ dropped' = dropped /\ held' = held + n
        /\ buf' = buf \o SubSeq(line, 1, n) /\ n \in 1..Len(line)
        /\ line \in Seq(Cell)
    BY <1>0, <1>2 DEF Read, TypeOK
  <2>2. Len(buf') = Len(buf) + n
    BY <1>t, <2>1
  <2>3. CASE waiting = <<>>
    <3>1. dropped <= ResyncLimit /\ held <= 0
      BY <1>0, <2>1, <2>3 DEF WithinLimits
    <3>2. dropped' <= ResyncLimit /\ held' <= ReadLen
      BY <1>t, <2>1, <3>1
    <3> QED
      BY <2>1, <2>3, <3>2 DEF WithinLimits, WaitIsBounded
  <2>4. CASE waiting # <<>>
    <3>1. /\ dropped <= ResyncLimit /\ held <= ReadLen + (Len(buf) - waiting[2])
          /\ waiting[2] \in Nat
      BY <1>0, <1>t, <2>1, <2>4 DEF WithinLimits, NoUnderflow
    <3>2. dropped' <= ResyncLimit /\ held' <= ReadLen + (Len(buf') - waiting'[2])
      BY <1>t, <2>1, <2>2, <3>1
    <3> QED
      BY <2>1, <2>4, <3>2 DEF WithinLimits, WaitIsBounded
  <2> QED
    BY <2>3, <2>4
<1>3. CASE NeedMore
  <2>1. /\ state = "feeding" /\ state' = "reading" /\ Len(buf) < HeaderLen
        /\ held' = 0 /\ dropped' = dropped /\ waiting' = waiting /\ buf' = buf
    BY <1>3, <1>t DEF NeedMore, HasHeader, Return
  <2>2. waiting = <<>>
    BY <1>0, <1>t, <2>1 DEF NoUnderflow
  <2>3. dropped <= ResyncLimit
    BY <1>0, <2>1 DEF WithinLimits
  <2>4. Len(buf') < MaxPlausible /\ held' <= ReadLen + ResyncLimit
    BY <1>t, <2>1
  <2> QED
    BY <1>t, <2>1, <2>2, <2>3, <2>4 DEF WithinLimits, WaitIsBounded
<1>4. CASE Wait
  <2>1. /\ state = "feeding" /\ state' = "reading" /\ Len(buf) < Total
        /\ Total \in HeaderLen..MaxPlausible
        /\ Len(buf) - Started <= ResyncLimit
        /\ held' = held /\ dropped' = dropped /\ waiting' = <<Total, Started>>
        /\ buf' = buf
    BY <1>4 DEF Wait, AtFrame, HasHeader, LooksValid, Return
  <2>2. Started \in Nat /\ held <= ReadLen + (Len(buf) - Started)
    <3>1. CASE waiting = <<>>
      <4>1. Started = Len(buf)
        BY <3>1 DEF Started
      <4>2. held <= ReadLen
        BY <1>0, <2>1, <3>1 DEF WithinLimits
      <4> QED
        BY <1>t, <4>1, <4>2
    <3>2. CASE waiting # <<>>
      <4>1. waiting[1] = Total /\ waiting[2] \in Nat
        BY <1>0, <1>t, <3>2 DEF NoUnderflow, Total
      <4>2. Started = waiting[2]
        BY <3>2, <4>1 DEF Started
      <4>3. held <= ReadLen + (Len(buf) - waiting[2])
        BY <1>0, <2>1, <3>2 DEF WithinLimits
      <4> QED
        BY <4>1, <4>2, <4>3
    <3> QED
      BY <3>1, <3>2
  <2>3. dropped <= ResyncLimit
    BY <1>0, <2>1 DEF WithinLimits
  <2>4. Len(buf') < MaxPlausible /\ held' <= ReadLen + ResyncLimit
    BY <1>t, <2>1, <2>2
  <2>5. waiting' # <<>> /\ waiting'[2] = Started
    BY <2>1
  <2> QED
    BY <2>1, <2>2, <2>3, <2>4, <2>5 DEF WithinLimits, WaitIsBounded
<1>5. CASE Dropping
  <2>1. Resync /\ waiting' = <<>> /\ HasHeader
    BY <1>0, <1>5, DropRest
  <2>2. /\ dropped' = dropped + 1 /\ held' = 0 /\ state = "feeding"
        /\ state' = IF dropped' > ResyncLimit THEN "corrupt" ELSE state
    BY <2>1 DEF Resync, Corrupt, HasHeader
  <2> QED
    BY <1>t, <2>1, <2>2 DEF WithinLimits, WaitIsBounded
<1>6. CASE TakeFrame
  <2>1. /\ dropped' = 0 /\ held' = 0 /\ waiting' = <<>>
        /\ state' = "feeding"
    BY <1>6 DEF TakeFrame, DroppedReset, NotWaiting, Complete, AtFrame, HasHeader
  <2> QED
    BY <1>t, <2>1 DEF WithinLimits, WaitIsBounded
<1>7. CASE RefuseFrame
  BY <1>7 DEF RefuseFrame, WithinLimits, WaitIsBounded
<1>8. CASE (\E s \in Shapes : SendFrame(s)) \/ (\E b \in Noise : SendNoise(b))
           \/ UNCHANGED vars
  BY <1>1, <1>8 DEF SendFrame, SendNoise, vars
<1>9. CASE \E n \in 1..ReadLen : Keeping(n)
  BY <1>2, <1>3, <1>4, <1>7, <1>9 DEF Keeping
<1> QED
  BY <1>5, <1>6, <1>8, <1>9, Kinds

\* resync never drops the first byte of a frame that lies whole at the front.
LEMMA WholeIsNotDropped ==
  ASSUME DecoderInv, Dropping, NEW f \in DOMAIN sent, WholeAt(f, 0)
  PROVE  FALSE
<1>0. TypeOK /\ NoUnderflow
  BY DEF DecoderInv
<1> DEFINE n == Len(sent[f])
<1>1. /\ n \in HeaderLen..MaxPlausible /\ n \in Nat /\ n >= 3
      /\ n <= HeaderLen + ResyncLimit /\ DOMAIN sent[f] = 1..n
      /\ sent[f][1] = n /\ sent[f][2] = Magic
  BY <1>0, ShapeLen
<1>2. /\ Rest \in Seq(Cell) /\ Len(buf) \in Nat /\ Len(line) \in Nat
      /\ Len(Rest) = Len(buf) + Len(line)
      /\ \A i \in 1..Len(buf) : Rest[i] = buf[i]
  BY <1>0, RestIs
<1> HIDE DEF n
<1>3. ASSUME NEW i \in 1..n
      PROVE  i \in DOMAIN Rest /\ Rest[i] = [byte |-> sent[f][i], of |-> f, at |-> i]
  <2>1. 0 + i = i
    BY <1>1
  <2> QED
    BY <1>1, <2>1 DEF WholeAt
<1>4. HasHeader /\ Len(buf) >= HeaderLen /\ HeaderLen \in Nat /\ HeaderLen >= 3
  BY <1>0, DropRest, DecoderAssumption DEF HasHeader
<1>5. ASSUME NEW i \in 1..n, i <= Len(buf)
      PROVE  buf[i].byte = sent[f][i] /\ buf[i].of = f /\ buf[i].at = i
  <2>1. i \in 1..Len(buf)
    BY <1>1, <1>2, <1>5
  <2>2. buf[i] = [byte |-> sent[f][i], of |-> f, at |-> i]
    BY <1>2, <1>3, <2>1
  <2> QED
    BY <2>2
<1>6. Total = n /\ buf[2].byte = Magic /\ buf[1].of = f
  <2>1. 1 \in 1..n /\ 2 \in 1..n /\ 1 <= Len(buf) /\ 2 <= Len(buf)
    BY <1>1, <1>2, <1>4
  <2> QED
    BY <1>1, <1>5, <2>1 DEF Total
<1>7. LooksValid
  BY <1>1, <1>6 DEF LooksValid
<1>8. f # 0
  BY <1>0 DEF TypeOK
<1>9. Complete => Decodes
  <2>1. ASSUME Len(buf) >= Total, NEW i \in 1..Total
        PROVE  buf[i].of # 0 /\ buf[i].of = buf[1].of /\ buf[i].at = i
    BY <1>1, <1>2, <1>5, <1>6, <1>8, <2>1
  <2> QED
    BY <2>1 DEF Complete, Decodes
<1>10. Len(buf) < Total => Len(buf) - Started <= ResyncLimit
  <2>1. Started \in Nat /\ Started >= HeaderLen
    BY <1>0, <1>2, <1>4 DEF Started, NoUnderflow
  <2> QED
    BY <1>1, <1>2, <1>4, <1>6, <2>1, DecoderAssumption
<1>11. Len(buf) - Started \in Int
  BY <1>0, <1>2, <1>4 DEF Started, NoUnderflow
<1> QED
  BY <1>7, <1>9, <1>10, <1>11, DecoderAssumption
     DEF Dropping, SkipByte, GiveUpWaiting, DropFrame

\* A whole frame stays whole when bytes are added behind it.
LEMMA WholeGrows ==
  ASSUME TypeOK, NEW f \in DOMAIN sent, NEW k \in 0..Len(Rest), WholeAt(f, k),
         Rest' \in Seq(Cell), Len(Rest') >= Len(Rest), sent'[f] = sent[f],
         \A i \in 1..Len(Rest) : Rest'[i] = Rest[i]
  PROVE  k \in 0..Len(Rest') /\ WholeAt(f, k)'
<1>1. Rest \in Seq(Cell) /\ Len(Rest) \in Nat
  BY RestIs
<1>2. ASSUME NEW i \in DOMAIN sent[f]
      PROVE  /\ k + i \in DOMAIN Rest'
             /\ Rest'[k + i] = [byte |-> sent[f][i], of |-> f, at |-> i]
  <2>1. /\ k + i \in DOMAIN Rest
        /\ Rest[k + i] = [byte |-> sent[f][i], of |-> f, at |-> i]
    BY <1>2 DEF WholeAt
  <2> QED
    BY <1>1, <2>1
<1>3. k \in 0..Len(Rest')
  BY <1>1
<1> QED
  BY <1>2, <1>3 DEF WholeAt

\* And when bytes in front of it are dropped.
LEMMA WholeMoves ==
  ASSUME TypeOK, NEW f \in DOMAIN sent, NEW k \in 0..Len(Rest), WholeAt(f, k),
         NEW t \in Nat, t <= k, Rest' \in Seq(Cell), Without(Rest, Rest', t),
         sent' = sent
  PROVE  k - t \in 0..Len(Rest') /\ WholeAt(f, k - t)'
<1>1. Rest \in Seq(Cell) /\ Len(Rest) \in Nat
  BY RestIs
<1>2. /\ Len(Rest') = Len(Rest) - t
      /\ \A i \in 1..Len(Rest') : Rest'[i] = Rest[i + t]
  BY DEF Without
<1>3. DOMAIN sent[f] \subseteq Nat \ {0}
  BY ShapeLen
<1>4. ASSUME NEW i \in DOMAIN sent[f]
      PROVE  /\ (k - t) + i \in DOMAIN Rest'
             /\ Rest'[(k - t) + i] = [byte |-> sent[f][i], of |-> f, at |-> i]
  <2>1. /\ k + i \in DOMAIN Rest /\ i \in Nat \ {0}
        /\ Rest[k + i] = [byte |-> sent[f][i], of |-> f, at |-> i]
    BY <1>3, <1>4 DEF WholeAt
  <2>2. (k - t) + i \in 1..Len(Rest') /\ ((k - t) + i) + t = k + i
    BY <1>1, <1>2, <2>1
  <2>3. Rest'[(k - t) + i] = Rest[((k - t) + i) + t]
    BY <1>2, <2>2
  <2> QED
    BY <2>1, <2>2, <2>3
<1>5. k - t \in 0..Len(Rest')
  BY <1>1, <1>2
<1> QED
  BY <1>4, <1>5 DEF WholeAt

\* Every frame sent is found or still whole (wire.rs feed, resync).
LEMMA LostStep == DecoderInv /\ [Next]_vars => NoFrameLost'
<1> SUFFICES ASSUME DecoderInv, [Next]_vars, state' \in {"reading", "feeding"},
                    NEW f \in DOMAIN sent'
             PROVE  \/ \E i \in DOMAIN Found' : Found'[i] = f
                    \/ \E k \in 0..Len(Rest') : WholeAt(f, k)'
  BY DEF NoFrameLost
<1>0. TypeOK /\ NoFrameLost
  BY DEF DecoderInv
<1>r. /\ Rest \in Seq(Cell) /\ Len(Rest) \in Nat
      /\ sent \in Seq(Shapes) /\ Len(sent) \in Nat /\ DOMAIN sent = 1..Len(sent)
  BY <1>0, RestIs DEF TypeOK
<1>s. state \in {"reading", "feeding"}
  BY Kinds DEF SendFrame, SendNoise, Keeping, Read, NeedMore, Wait, RefuseFrame,
     Dropping, SkipByte, GiveUpWaiting, DropFrame, TakeFrame, Complete, AtFrame,
     HasHeader, vars
<1>1. ASSUME f \in DOMAIN sent
      PROVE  \/ \E i \in DOMAIN Found : Found[i] = f
             \/ \E k \in 0..Len(Rest) : WholeAt(f, k)
  BY <1>0, <1>1, <1>s DEF NoFrameLost
<1>2. ASSUME f \in DOMAIN sent, Found' = Found, sent'[f] = sent[f],
             Rest' \in Seq(Cell), Len(Rest') >= Len(Rest),
             \A i \in 1..Len(Rest) : Rest'[i] = Rest[i]
      PROVE  \/ \E i \in DOMAIN Found' : Found'[i] = f
             \/ \E k \in 0..Len(Rest') : WholeAt(f, k)'
  BY <1>0, <1>1, <1>2, WholeGrows
<1>3. ASSUME NEW s \in Shapes, SendFrame(s)
      PROVE  \/ \E i \in DOMAIN Found' : Found'[i] = f
             \/ \E k \in 0..Len(Rest') : WholeAt(f, k)'
  <2>0. s \in Seq(Nat) /\ Len(s) \in Nat /\ DOMAIN s = 1..Len(s)
    BY DecoderAssumption
  <2>1. /\ sent' = Append(sent, s) /\ Rest' \in Seq(Cell)
        /\ Len(Rest') = Len(Rest) + Len(s)
        /\ \A i \in 1..Len(Rest) : Rest'[i] = Rest[i]
        /\ \A i \in 1..Len(s) :
             Rest'[Len(Rest) + i] = [byte |-> s[i], of |-> Len(sent) + 1, at |-> i]
    BY <1>0, <1>3, <2>0, SendRest
  <2>2. Found' = Found
    BY <1>3 DEF SendFrame, Found
  <2>3. CASE f \in DOMAIN sent
    <3>1. sent'[f] = sent[f] /\ Len(Rest') >= Len(Rest)
      BY <1>r, <2>0, <2>1, <2>3
    <3> QED
      BY <1>2, <2>1, <2>2, <2>3, <3>1
  <2>4. CASE f = Len(sent) + 1
    <3>1. sent'[f] = s
      BY <1>r, <2>1, <2>4
    <3>2. ASSUME NEW i \in DOMAIN s
          PROVE  /\ Len(Rest) + i \in DOMAIN Rest'
                 /\ Rest'[Len(Rest) + i] = [byte |-> s[i], of |-> f, at |-> i]
      BY <1>r, <2>0, <2>1, <2>4, <3>2
    <3>3. PICK k \in 0..Len(Rest') : k = Len(Rest)
      BY <1>r, <2>0, <2>1
    <3>4. WholeAt(f, k)'
      BY <3>1, <3>2, <3>3 DEF WholeAt
    <3> QED
      BY <3>4
  <2> QED
    BY <1>r, <2>1, <2>3, <2>4
<1>4. ASSUME NEW b \in Noise, SendNoise(b)
      PROVE  \/ \E i \in DOMAIN Found' : Found'[i] = f
             \/ \E k \in 0..Len(Rest') : WholeAt(f, k)'
  <2>1. /\ sent' = sent /\ Rest' \in Seq(Cell)
        /\ Len(Rest') = Len(Rest) + 1
        /\ \A i \in 1..Len(Rest) : Rest'[i] = Rest[i]
    BY <1>0, <1>4, NoiseRest
  <2>2. Found' = Found
    BY <1>4 DEF SendNoise, Found
  <2> QED
    BY <1>2, <1>r, <2>1, <2>2
<1>5. ASSUME (\E n \in 1..ReadLen : Keeping(n)) \/ UNCHANGED vars
      PROVE  \/ \E i \in DOMAIN Found' : Found'[i] = f
             \/ \E k \in 0..Len(Rest') : WholeAt(f, k)'
  <2>1. Rest' = Rest /\ sent' = sent
    BY <1>0, <1>5, KeepRest, Stutter DEF vars, lineVars
  <2>2. Found' = Found
    BY <1>0, <1>5, FoundKept, Stutter
  <2> QED
    BY <1>2, <1>r, <2>1, <2>2
<1>6. ASSUME Dropping
      PROVE  \/ \E i \in DOMAIN Found' : Found'[i] = f
             \/ \E k \in 0..Len(Rest') : WholeAt(f, k)'
  <2>1. Rest' \in Seq(Cell) /\ Without(Rest, Rest', 1) /\ sent' = sent
    BY <1>0, <1>6, DropRest DEF lineVars
  <2>2. Found' = Found
    BY <1>0, <1>6, FoundKept
  <2>3. ASSUME NEW k \in 0..Len(Rest), WholeAt(f, k)
        PROVE  \E m \in 0..Len(Rest') : WholeAt(f, m)'
    <3>1. k # 0
      BY <1>6, <2>1, <2>3, WholeIsNotDropped
    <3>2. 1 \in Nat /\ 1 <= k
      BY <3>1
    <3>3. k - 1 \in 0..Len(Rest') /\ WholeAt(f, k - 1)'
      BY <1>0, <2>1, <2>3, <3>2, WholeMoves
    <3> QED
      BY <3>3
  <2> QED
    BY <1>1, <2>1, <2>2, <2>3
<1>7. ASSUME TakeFrame
      PROVE  \/ \E i \in DOMAIN Found' : Found'[i] = f
             \/ \E k \in 0..Len(Rest') : WholeAt(f, k)'
  <2> DEFINE g == buf[1].of
  <2>t. PICK t \in Nat : t = Total
    BY <1>0, <1>7, TakeRest, DecoderAssumption
  <2>1. /\ Rest' \in Seq(Cell) /\ Without(Rest, Rest', t) /\ sent' = sent
        /\ t \in Nat
    BY <1>0, <1>7, <2>t, TakeRest DEF lineVars
  <2>2. /\ Found' = Append(Found, g)
        /\ \A i \in 1..t : buf[i].of = g /\ buf[i].at = i /\ Rest[i] = buf[i]
    BY <1>0, <1>7, <2>t, FoundGrows
  <2> HIDE DEF g
  <2>3. /\ DOMAIN Found' = 1..(Len(Found) + 1) /\ Len(Found) \in Nat
        /\ DOMAIN Found = 1..Len(Found)
        /\ \A i \in DOMAIN Found : Found'[i] = Found[i]
        /\ Found'[Len(Found) + 1] = g
    <3>1. Found \in Seq(DOMAIN sent)
      BY <1>0 DEF TypeOK, Found
    <3> QED
      BY <2>2, <3>1
  <2>4. ASSUME NEW k \in 0..Len(Rest), WholeAt(f, k)
        PROVE  f = g \/ \E m \in 0..Len(Rest') : WholeAt(f, m)'
    <3>1. CASE t <= k
      <4>1. k - t \in 0..Len(Rest') /\ WholeAt(f, k - t)'
        BY <1>0, <2>1, <2>4, <3>1, WholeMoves
      <4> QED
        BY <4>1
    <3>2. CASE k < t
      <4>1. 1 \in DOMAIN sent[f]
        BY <1>0, <2>1, ShapeLen
      <4>2. Rest[k + 1] = [byte |-> sent[f][1], of |-> f, at |-> 1]
        BY <2>4, <4>1 DEF WholeAt
      <4>3. k + 1 \in 1..t
        BY <2>1, <3>2
      <4>4. Rest[k + 1].of = g
        BY <2>2, <4>3
      <4> QED
        BY <4>2, <4>4
    <3> QED
      BY <1>r, <2>1, <3>1, <3>2
  <2> QED
    BY <1>1, <2>1, <2>3, <2>4
<1> QED
  BY <1>3, <1>4, <1>5, <1>6, <1>7, Kinds

\* Type correctness of the decoder and the line.
LEMMA DecoderTypeStep == DecoderInv /\ [Next]_vars => TypeOK'
<1> SUFFICES ASSUME DecoderInv, [Next]_vars PROVE TypeOK'
  OBVIOUS
<1>0. TypeOK /\ CellsAreSent /\ WithinLimits /\ NoUnderflow
  BY DEF DecoderInv
<1>t. /\ line \in Seq(Cell) /\ buf \in Seq(Cell) /\ Len(buf) \in Nat
      /\ sent \in Seq(Shapes) /\ Len(sent) <= MaxFrames
      /\ noise \in Seq(0..MaxFrames) /\ Len(noise) <= MaxNoise
      /\ key \in BOOLEAN /\ dropped \in 0..(ResyncLimit + 1) /\ held \in Nat
      /\ waiting \in {<<>>} \cup ((HeaderLen..MaxPlausible) \X Nat)
      /\ out \in Seq(DOMAIN sent) /\ delivered \in Seq(DOMAIN sent)
      /\ state \in {"reading", "feeding", "corrupt", "encrypted"}
  BY <1>0 DEF TypeOK
<1>1. ASSUME NEW s \in Shapes, SendFrame(s) PROVE TypeOK'
  <2>1. /\ line' \in Seq(Cell) /\ sent' = Append(sent, s)
        /\ UNCHANGED <<noise, key, buf, dropped, waiting, held, out, delivered, state>>
    BY <1>0, <1>1, SendRest
  <2>2. sent' \in Seq(Shapes) /\ Len(sent') <= MaxFrames
    BY <1>1, <1>t, <2>1, DecoderAssumption DEF SendFrame
  <2>3. DOMAIN sent \subseteq DOMAIN sent'
    BY <1>t, <2>1
  <2>4. out' \in Seq(DOMAIN sent') /\ delivered' \in Seq(DOMAIN sent')
    BY <1>t, <2>1, <2>3, SeqMonotonic
  <2> QED
    BY <1>t, <2>1, <2>2, <2>4 DEF TypeOK
<1>2. ASSUME NEW b \in Noise, SendNoise(b) PROVE TypeOK'
  <2>1. /\ line' \in Seq(Cell)
        /\ UNCHANGED <<sent, key, buf, dropped, waiting, held, out, delivered, state>>
    BY <1>0, <1>2, NoiseRest
  <2>2. noise' = Append(noise, Len(sent)) /\ Len(noise) < MaxNoise
    BY <1>2 DEF SendNoise
  <2>3. Len(sent) \in 0..MaxFrames
    BY <1>t, DecoderAssumption
  <2>4. noise' \in Seq(0..MaxFrames) /\ Len(noise') <= MaxNoise
    BY <1>t, <2>2, <2>3, DecoderAssumption
  <2> QED
    BY <1>t, <2>1, <2>4 DEF TypeOK
<1>3. ASSUME NEW n \in 1..ReadLen, Read(n) PROVE TypeOK'
  <2>1. /\ n \in 1..Len(line) /\ state' = "feeding" /\ held' = held + n
        /\ buf' = buf \o SubSeq(line, 1, n)
        /\ line' = SubSeq(line, n + 1, Len(line))
        /\ UNCHANGED <<sent, noise, key, dropped, waiting, out, delivered>>
    BY <1>3 DEF Read
  <2>2. /\ SubSeq(line, 1, n) \in Seq(Cell)
        /\ SubSeq(line, n + 1, Len(line)) \in Seq(Cell)
    BY <1>t, <2>1, Cut
  <2>3. buf' \in Seq(Cell) /\ line' \in Seq(Cell) /\ held' \in Nat
    BY <1>t, <2>1, <2>2
  <2> QED
    BY <1>t, <2>1, <2>3 DEF TypeOK
<1>4. ASSUME Return, UNCHANGED <<lineVars, key, buf, dropped>>, held' \in Nat,
             waiting' \in {<<>>} \cup ((HeaderLen..MaxPlausible) \X Nat)
      PROVE  TypeOK'
  <2>1. /\ delivered' = delivered \o out /\ out' = <<>> /\ state' = "reading"
        /\ sent' = sent /\ line' = line /\ noise' = noise
    BY <1>4 DEF Return, lineVars
  <2>2. delivered' \in Seq(DOMAIN sent) /\ out' \in Seq(DOMAIN sent)
    BY <1>t, <2>1
  <2> QED
    BY <1>t, <1>4, <2>1, <2>2 DEF TypeOK
<1>5. CASE NeedMore
  BY <1>4, <1>5, <1>t DEF NeedMore
<1>6. CASE Wait
  <2>1. Total \in HeaderLen..MaxPlausible
    BY <1>6 DEF Wait, AtFrame, LooksValid
  <2>2. Started \in Nat
    BY <1>0, <1>t, DecoderAssumption DEF Started, NoUnderflow
  <2> QED
    BY <1>4, <1>6, <1>t, <2>1, <2>2 DEF Wait
<1>7. CASE Dropping
  <2>1. /\ buf' \in Seq(Cell) /\ HasHeader /\ Resync /\ waiting' = <<>>
        /\ UNCHANGED <<lineVars, key, delivered>>
    BY <1>0, <1>7, DropRest
  <2>2. /\ dropped' = dropped + 1 /\ held' = 0
        /\ out' = out \/ out' = <<>>
        /\ state' = state \/ state' = "corrupt"
        /\ state = "feeding"
    BY <2>1 DEF Resync, HasHeader
  <2>3. dropped' \in 0..(ResyncLimit + 1)
    BY <1>0, <1>t, <2>2, DecoderAssumption DEF WithinLimits
  <2>4. out' \in Seq(DOMAIN sent)
    <3>1. out \in Seq(DOMAIN sent) /\ <<>> \in Seq(DOMAIN sent)
      BY <1>t
    <3> QED
      BY <2>2, <3>1
  <2> QED
    BY <1>t, <2>1, <2>2, <2>3, <2>4 DEF TypeOK, lineVars
<1>8. CASE TakeFrame
  <2>1. /\ buf' \in Seq(Cell) /\ Total \in 1..Len(buf)
        /\ UNCHANGED <<lineVars, key, delivered, state>>
    BY <1>0, <1>8, TakeRest
  <2>2. /\ dropped' = 0 /\ held' = 0 /\ waiting' = <<>>
        /\ out' = Append(out, buf[1].of)
    BY <1>8 DEF TakeFrame, DroppedReset, NotWaiting
  <2>3. buf[1].of \in DOMAIN sent
    <3>1. 1 \in 1..Len(buf) /\ Rest[1] = buf[1] /\ 1 \in DOMAIN Rest
      <4>1. /\ Rest \in Seq(Cell) /\ Len(line) \in Nat
            /\ Len(Rest) = Len(buf) + Len(line)
            /\ \A i \in 1..Len(buf) : Rest[i] = buf[i]
        BY <1>0, RestIs
      <4>2. 1 \in 1..Len(buf) /\ 1 \in 1..Len(Rest)
        BY <1>t, <2>1, <4>1
      <4> QED
        BY <4>1, <4>2
    <3>2. buf[1].of # 0
      BY <1>0, <1>8, FoundGrows
    <3> QED
      BY <1>0, <3>1, <3>2 DEF CellsAreSent
  <2>4. out' \in Seq(DOMAIN sent)
    BY <1>t, <2>2, <2>3
  <2> QED
    BY <1>t, <2>1, <2>2, <2>4, DecoderAssumption DEF TypeOK, lineVars
<1>9. CASE RefuseFrame
  <2>1. /\ waiting' = <<>> /\ state' = "encrypted" /\ out' = <<>>
        /\ UNCHANGED <<lineVars, key, buf, dropped, held, delivered>>
    BY <1>9 DEF RefuseFrame, NotWaiting
  <2> QED
    BY <1>t, <2>1 DEF TypeOK, lineVars
<1>10. CASE UNCHANGED vars
  BY <1>0, <1>10 DEF TypeOK, vars, lineVars
<1>11. CASE \E n \in 1..ReadLen : Keeping(n)
  BY <1>3, <1>5, <1>6, <1>9, <1>11 DEF Keeping
<1> QED
  BY <1>1, <1>2, <1>7, <1>8, <1>10, <1>11, Kinds

\* Noise stays between the frames it came between (wire.rs feed, resync).
LEMMA NoiseStep == DecoderInv /\ [Next]_vars => NoiseInPlace'
<1> SUFFICES ASSUME DecoderInv, [Next]_vars PROVE NoiseInPlace'
  OBVIOUS
<1>0. TypeOK /\ CellsAreSent /\ NoiseInPlace
  BY DEF DecoderInv
<1>r. /\ Rest \in Seq(Cell) /\ Len(Rest) \in Nat /\ DOMAIN Rest = 1..Len(Rest)
      /\ sent \in Seq(Shapes) /\ Len(sent) \in Nat /\ DOMAIN sent = 1..Len(sent)
      /\ noise \in Seq(0..MaxFrames) /\ Len(noise) \in Nat
      /\ DOMAIN noise = 1..Len(noise)
      /\ Found \in Seq(DOMAIN sent)
  BY <1>0, RestIs DEF TypeOK, Found
<1>m. \A i \in DOMAIN noise : noise[i] \in Nat
  BY <1>r, DecoderAssumption
<1>n. /\ \A i \in DOMAIN noise : noise[i] <= Len(sent)
      /\ \A j \in DOMAIN Rest :
           Rest[j].of = 0 =>
             /\ Rest[j].at \in DOMAIN noise
             /\ \A i \in DOMAIN Found : Found[i] <= noise[Rest[j].at]
             /\ \A i \in DOMAIN Rest :
                  /\ i < j /\ Rest[i].of # 0 => Rest[i].of <= noise[Rest[j].at]
                  /\ j < i /\ Rest[i].of # 0 => noise[Rest[j].at] < Rest[i].of
                  /\ j < i /\ Rest[i].of = 0 => Rest[j].at < Rest[i].at
  BY <1>0, Zenon DEF NoiseInPlace
<1>1. ASSUME NEW s \in Shapes, SendFrame(s) PROVE NoiseInPlace'
  <2>0. s \in Seq(Nat) /\ Len(s) \in Nat
    BY DecoderAssumption
  <2>1. /\ sent' = Append(sent, s) /\ noise' = noise
        /\ Rest' \in Seq(Cell) /\ Len(Rest') = Len(Rest) + Len(s)
        /\ \A i \in 1..Len(Rest) : Rest'[i] = Rest[i]
        /\ \A i \in 1..Len(s) :
             Rest'[Len(Rest) + i] = [byte |-> s[i], of |-> Len(sent) + 1, at |-> i]
    BY <1>0, <1>1, <2>0, SendRest
  <2>2. Found' = Found /\ Len(sent') = Len(sent) + 1
    BY <1>1, <1>r, <2>1 DEF SendFrame, Found
  <2>3. ASSUME NEW j \in DOMAIN Rest', j > Len(Rest) PROVE Rest'[j].of = Len(sent) + 1
    <3> DEFINE i == j - Len(Rest)
    <3>1. i \in 1..Len(s) /\ Len(Rest) + i = j
      BY <1>r, <2>0, <2>1, <2>3
    <3> HIDE DEF i
    <3>2. Rest'[j] = [byte |-> s[i], of |-> Len(sent) + 1, at |-> i]
      BY <2>1, <3>1
    <3> QED
      BY <3>2
  <2>4. ASSUME NEW j \in DOMAIN Rest', ~(j > Len(Rest))
        PROVE  j \in DOMAIN Rest /\ Rest'[j] = Rest[j]
    BY <1>r, <2>0, <2>1, <2>4
  <2>5. \A i \in DOMAIN noise : noise[i] <= Len(sent) + 1
    BY <1>n, <1>m, <1>r
  <2>6. ASSUME NEW j \in DOMAIN Rest', Rest'[j].of = 0, NEW i \in DOMAIN Rest'
        PROVE  /\ i < j /\ Rest'[i].of # 0 => Rest'[i].of <= noise[Rest'[j].at]
               /\ j < i /\ Rest'[i].of # 0 => noise[Rest'[j].at] < Rest'[i].of
               /\ j < i /\ Rest'[i].of = 0 => Rest'[j].at < Rest'[i].at
    <3>1. j \in DOMAIN Rest /\ Rest'[j] = Rest[j] /\ Rest[j].at \in DOMAIN noise
      BY <1>n, <1>r, <2>3, <2>4, <2>6
    <3>2. CASE ~(i > Len(Rest))
      BY <1>n, <2>4, <2>6, <3>1, <3>2
    <3>3. CASE i > Len(Rest)
      <4>1. Rest'[i].of = Len(sent) + 1 /\ ~(i < j)
        BY <1>r, <2>1, <2>3, <3>1, <3>3
      <4>2. noise[Rest[j].at] \in Nat /\ noise[Rest[j].at] <= Len(sent)
        BY <1>n, <1>m, <3>1
      <4> QED
        BY <1>r, <3>1, <4>1, <4>2
    <3> QED
      BY <3>2, <3>3
  <2>7. ASSUME NEW j \in DOMAIN Rest', Rest'[j].of = 0
        PROVE  /\ Rest'[j].at \in DOMAIN noise
               /\ \A i \in DOMAIN Found : Found[i] <= noise[Rest'[j].at]
    BY <1>n, <1>r, <2>3, <2>4, <2>7
  <2> QED
    BY <2>1, <2>2, <2>5, <2>6, <2>7 DEF NoiseInPlace
<1>2. ASSUME NEW b \in Noise, SendNoise(b) PROVE NoiseInPlace'
  <2>1. /\ sent' = sent /\ noise' = Append(noise, Len(sent))
        /\ Rest' \in Seq(Cell) /\ Len(Rest') = Len(Rest) + 1
        /\ \A i \in 1..Len(Rest) : Rest'[i] = Rest[i]
        /\ Rest'[Len(Rest) + 1].of = 0
        /\ Rest'[Len(Rest) + 1].at = Len(noise) + 1
    BY <1>0, <1>2, NoiseRest
  <2>2. Found' = Found
    BY <1>2 DEF SendNoise, Found
  <2>3. /\ DOMAIN noise' = 1..(Len(noise) + 1) /\ noise'[Len(noise) + 1] = Len(sent)
        /\ \A i \in DOMAIN noise : noise'[i] = noise[i]
    BY <1>r, <2>1
  <2>4. DOMAIN Rest' = 1..(Len(Rest) + 1)
    BY <2>1
  <2>5. ASSUME NEW i \in DOMAIN noise' PROVE noise'[i] <= Len(sent)
    BY SMTT(20), <1>n, <1>r, <2>3, <2>5
  <2>6. ASSUME NEW j \in DOMAIN Rest', Rest'[j].of = 0
        PROVE  /\ Rest'[j].at \in DOMAIN noise'
               /\ \A i \in DOMAIN Found : Found[i] <= noise'[Rest'[j].at]
    <3>1. CASE j \in DOMAIN Rest
      BY SMTT(20), <1>n, <1>r, <2>1, <2>3, <2>6, <3>1
    <3>2. CASE j = Len(Rest) + 1
      <4>1. \A i \in DOMAIN Found : Found[i] <= Len(sent)
        BY <1>r
      <4> QED
        BY <1>r, <2>1, <2>3, <3>2, <4>1
    <3> QED
      BY <1>r, <2>4, <3>1, <3>2
  <2>7. ASSUME NEW j \in DOMAIN Rest', Rest'[j].of = 0, NEW i \in DOMAIN Rest'
        PROVE  /\ i < j /\ Rest'[i].of # 0 => Rest'[i].of <= noise'[Rest'[j].at]
               /\ j < i /\ Rest'[i].of # 0 => noise'[Rest'[j].at] < Rest'[i].of
               /\ j < i /\ Rest'[i].of = 0 => Rest'[j].at < Rest'[i].at
    <3>1. CASE j \in DOMAIN Rest
      <4>1. Rest'[j] = Rest[j] /\ Rest[j].at \in DOMAIN noise
            /\ noise'[Rest[j].at] = noise[Rest[j].at]
        BY <1>n, <1>r, <2>1, <2>3, <2>7, <3>1
      <4>2. CASE i \in DOMAIN Rest
        <5>1. Rest'[i] = Rest[i]
          BY <1>r, <2>1, <4>2
        <5> QED
          BY <1>n, <2>7, <3>1, <4>1, <4>2, <5>1
      <4>3. CASE i = Len(Rest) + 1
        <5>1. Rest[j].at < Len(noise) + 1 /\ ~(i < j)
          BY <1>r, <3>1, <4>1, <4>3
        <5> QED
          BY <2>1, <4>1, <4>3, <5>1
      <4> QED
        BY <1>r, <2>4, <4>2, <4>3
    <3>2. CASE j = Len(Rest) + 1
      <4>1. ~(j < i) /\ noise'[Rest'[j].at] = Len(sent)
        BY <1>r, <2>1, <2>3, <2>4, <3>2
      <4>2. ASSUME i < j, Rest'[i].of # 0 PROVE Rest'[i].of <= Len(sent)
        <5>1. i \in DOMAIN Rest /\ Rest'[i] = Rest[i]
          BY <1>r, <2>1, <2>4, <3>2, <4>2
        <5>2. Rest[i].of \in DOMAIN sent
          BY <1>0, <4>2, <5>1 DEF CellsAreSent
        <5> QED
          BY <1>r, <5>1, <5>2
      <4> QED
        BY <4>1, <4>2
    <3> QED
      BY <1>r, <2>4, <3>1, <3>2
  <2> QED
    BY <2>1, <2>2, <2>5, <2>6, <2>7 DEF NoiseInPlace
<1>3. ASSUME NEW t, Rest' \in Seq(Cell), Without(Rest, Rest', t),
             sent' = sent, noise' = noise,
             \A i \in DOMAIN Found', j \in DOMAIN Rest :
               t < j /\ Rest[j].of = 0 => Found'[i] <= noise[Rest[j].at]
      PROVE  NoiseInPlace'
  <2>1. /\ t \in Nat
        /\ \A j \in DOMAIN Rest' :
             j \in Nat /\ t < j + t /\ j + t \in DOMAIN Rest /\ Rest'[j] = Rest[j + t]
    BY <1>r, <1>3 DEF Without
  <2>2. ASSUME NEW j \in DOMAIN Rest', Rest'[j].of = 0
        PROVE  /\ Rest'[j].at \in DOMAIN noise
               /\ \A i \in DOMAIN Found' : Found'[i] <= noise[Rest'[j].at]
    BY <1>n, <1>3, <2>1, <2>2
  <2>3. ASSUME NEW j \in DOMAIN Rest', Rest'[j].of = 0, NEW i \in DOMAIN Rest'
        PROVE  /\ i < j /\ Rest'[i].of # 0 => Rest'[i].of <= noise[Rest'[j].at]
               /\ j < i /\ Rest'[i].of # 0 => noise[Rest'[j].at] < Rest'[i].of
               /\ j < i /\ Rest'[i].of = 0 => Rest'[j].at < Rest'[i].at
    <3> DEFINE k == i + t
               l == j + t
    <3>1. /\ k \in DOMAIN Rest /\ Rest'[i] = Rest[k]
          /\ l \in DOMAIN Rest /\ Rest'[j] = Rest[l]
          /\ (i < j => k < l) /\ (j < i => l < k)
      BY <2>1
    <3> HIDE DEF k, l
    <3> QED
      BY <1>n, <2>3, <3>1
  <2> QED
    BY <1>n, <1>3, <2>2, <2>3 DEF NoiseInPlace
<1>4. ASSUME Rest' = Rest, sent' = sent, noise' = noise, Len(Found') <= Len(Found),
             \A i \in 1..Len(Found') : Found'[i] = Found[i],
             Len(Found') \in Nat, DOMAIN Found' = 1..Len(Found')
      PROVE  NoiseInPlace'
  <2>1. 0 \in 0..Len(Rest) /\ Without(Rest, Rest', 0)
    BY <1>r, <1>4 DEF Without
  <2>2. \A i \in DOMAIN Found' : i \in DOMAIN Found /\ Found'[i] = Found[i]
    BY <1>r, <1>4
  <2> QED
    BY <1>n, <1>r, <1>3, <1>4, <2>1, <2>2
<1>5. ASSUME TypeOK' PROVE Len(Found') \in Nat /\ DOMAIN Found' = 1..Len(Found')
  <2>1. Found' \in Seq(DOMAIN sent')
    BY <1>5 DEF TypeOK, Found
  <2> QED
    BY <2>1
<1>6. TypeOK'
  BY DecoderTypeStep
<1>7. CASE \E n \in 1..ReadLen : Keeping(n)
  <2>1. Rest' = Rest /\ sent' = sent
    BY <1>0, <1>7, KeepRest
  <2>2. noise' = noise
    BY <1>7 DEF Keeping, Read, NeedMore, Wait, RefuseFrame, lineVars
  <2> QED
    BY <1>0, <1>4, <1>5, <1>6, <1>7, <2>1, <2>2, FoundKept
<1>8. CASE Dropping
  <2>1. /\ Rest' \in Seq(Cell) /\ Without(Rest, Rest', 1)
        /\ sent' = sent /\ noise' = noise
    BY <1>0, <1>8, DropRest DEF lineVars
  <2>2. Len(Found') <= Len(Found) /\ \A i \in 1..Len(Found') : Found'[i] = Found[i]
    BY <1>0, <1>8, FoundKept
  <2>3. \A i \in DOMAIN Found' : i \in DOMAIN Found /\ Found'[i] = Found[i]
    BY <1>5, <1>6, <1>r, <2>2
  <2> QED
    BY <1>n, <1>3, <2>1, <2>3
<1>9. CASE TakeFrame
  <2> DEFINE g == buf[1].of
  <2>t. PICK t \in Nat : t = Total /\ t >= 1
    BY <1>0, <1>9, TakeRest, DecoderAssumption
  <2>1. /\ Rest' \in Seq(Cell) /\ Without(Rest, Rest', t)
        /\ sent' = sent /\ noise' = noise
    BY <1>0, <1>9, <2>t, TakeRest DEF lineVars
  <2>2. /\ Found' = Append(Found, g) /\ g # 0
        /\ \A i \in 1..t : buf[i].of = g /\ Rest[i] = buf[i]
    BY <1>0, <1>9, <2>t, FoundGrows
  <2> HIDE DEF g
  <2>3. ASSUME NEW i \in DOMAIN Found', NEW j \in DOMAIN Rest, t < j, Rest[j].of = 0
        PROVE  Found'[i] <= noise[Rest[j].at]
    <3>1. 1 \in DOMAIN Rest /\ Rest[1].of = g /\ 1 < j
      <4>1. 1 \in 1..t /\ 1 < j
        BY <2>t, <2>3, <1>r
      <4>2. 1 \in DOMAIN Rest
        BY <1>r, <4>1
      <4> QED
        BY <2>2, <4>1, <4>2
    <3>2. g <= noise[Rest[j].at]
      BY <1>n, <2>2, <2>3, <3>1
    <3>3. (i \in DOMAIN Found /\ Found'[i] = Found[i]) \/ Found'[i] = g
      BY <1>r, <2>2, <2>3
    <3> QED
      BY <1>n, <2>3, <3>2, <3>3
  <2> QED
    BY <1>3, <2>1, <2>3
<1>10. CASE UNCHANGED vars
  <2>1. Rest' = Rest /\ Found' = Found /\ sent' = sent /\ noise' = noise
    BY <1>10, Stutter DEF vars, lineVars
  <2> QED
    BY <1>4, <1>r, <2>1
<1> QED
  BY <1>1, <1>2, <1>7, <1>8, <1>9, <1>10, Kinds

\* The byte that resync drops is noise sent after the last frame found and before
\* the next one (wire.rs feed, resync).
LEMMA DroppedByte ==
  ASSUME DecoderInv, Dropping
  PROVE  /\ 1 \in DOMAIN Rest /\ Rest[1].of = 0 /\ Rest[1].at \in DOMAIN noise
         /\ noise[Rest[1].at] = LastFound
<1>0. TypeOK /\ CellsAreSent /\ CellsInOrder /\ FoundIsBehind /\ FoundInOrder
      /\ NoFrameLost /\ NoiseInPlace
  BY DEF DecoderInv
<1>r. /\ Rest \in Seq(Cell) /\ Len(Rest) \in Nat /\ DOMAIN Rest = 1..Len(Rest)
      /\ sent \in Seq(Shapes) /\ Len(sent) \in Nat /\ DOMAIN sent = 1..Len(sent)
      /\ noise \in Seq(0..MaxFrames) /\ Found \in Seq(DOMAIN sent)
      /\ Len(Found) \in Nat /\ DOMAIN Found = 1..Len(Found)
  BY <1>0, RestIs DEF TypeOK, Found
<1>1. 1 \in DOMAIN Rest
  BY <1>0, <1>r, DropRest DEF Without
<1>2. ASSUME NEW f \in DOMAIN sent
      PROVE  \/ \E i \in DOMAIN Found : Found[i] = f
             \/ \E k \in 1..Len(Rest) : WholeAt(f, k)
  <2>1. state \in {"reading", "feeding"}
    BY <1>0, DropRest DEF HasHeader
  <2>2. \/ \E i \in DOMAIN Found : Found[i] = f
        \/ \E k \in 0..Len(Rest) : WholeAt(f, k)
    BY <1>0, <2>1 DEF NoFrameLost
  <2>3. ~WholeAt(f, 0)
    BY WholeIsNotDropped
  <2>4. \A k \in 0..Len(Rest) : k = 0 \/ k \in 1..Len(Rest)
    BY <1>r
  <2> QED
    BY <2>2, <2>3, <2>4
<1>3. ASSUME NEW f \in DOMAIN sent, NEW k \in 1..Len(Rest), WholeAt(f, k)
      PROVE  /\ k + 1 \in DOMAIN Rest /\ 1 < k + 1
             /\ Rest[k + 1].of = f /\ Rest[k + 1].at = 1
  <2>1. 1 \in DOMAIN sent[f]
    BY <1>0, ShapeLen
  <2>2. /\ k + 1 \in DOMAIN Rest
        /\ Rest[k + 1] = [byte |-> sent[f][1], of |-> f, at |-> 1]
    BY <1>3, <2>1, Zenon DEF WholeAt
  <2> QED
    BY <1>r, <2>2
<1>4. Rest[1].of = 0
  <2> SUFFICES ASSUME Rest[1].of # 0 PROVE FALSE
    OBVIOUS
  <2> DEFINE f == Rest[1].of
  <2>1. f \in DOMAIN sent /\ Rest[1].at \in DOMAIN sent[f]
    BY <1>0, <1>1 DEF CellsAreSent
  <2>2. Rest[1].at \in Nat /\ Rest[1].at >= 1
    BY <1>0, <2>1, ShapeLen
  <2>3. \A i \in DOMAIN Found : Found[i] < f
    BY <1>0, <1>1 DEF FoundIsBehind
  <2>4. f \in Nat
    BY <1>r, <2>1
  <2> HIDE DEF f
  <2>5. ~ \E i \in DOMAIN Found : Found[i] = f
    BY <2>3, <2>4
  <2>6. PICK k \in 1..Len(Rest) : WholeAt(f, k)
    BY <1>2, <2>1, <2>5
  <2>7. /\ k + 1 \in DOMAIN Rest /\ 1 < k + 1
        /\ Rest[k + 1].of = f /\ Rest[k + 1].at = 1
    BY <1>3, <2>1, <2>6
  <2>8. \/ Rest[1].of < Rest[k + 1].of
        \/ Rest[1].of = Rest[k + 1].of /\ Rest[1].at < Rest[k + 1].at
    <3>1. Rest[k + 1].of # 0
      BY <2>7, <2>4 DEF f
    <3> DEFINE m == k + 1
    <3>2. m \in DOMAIN Rest /\ 1 < m /\ Rest[m].of # 0
      BY <2>7, <3>1
    <3> HIDE DEF m
    <3>3. \/ Rest[1].of < Rest[m].of
          \/ Rest[1].of = Rest[m].of /\ Rest[1].at < Rest[m].at
      BY <1>0, <1>1, <3>2 DEF CellsInOrder
    <3> QED
      BY <3>3 DEF m
  <2> QED
    BY <2>2, <2>4, <2>7, <2>8 DEF f
<1> DEFINE n == Rest[1].at
           v == noise[n]
<1>5. /\ n \in DOMAIN noise /\ v <= Len(sent)
      /\ \A i \in DOMAIN Found : Found[i] <= v
      /\ \A i \in DOMAIN Rest : 1 < i /\ Rest[i].of # 0 => v < Rest[i].of
  BY <1>0, <1>1, <1>4 DEF NoiseInPlace
<1>m. \A i \in DOMAIN noise : noise[i] \in Nat
  BY <1>r, DecoderAssumption
<1>6. v \in Nat
  BY <1>5, <1>m
<1>7. v = LastFound
  <2> HIDE DEF v, n
  <2>1. CASE v = 0
    <3>1. Len(Found) = 0
      <4> SUFFICES ASSUME Len(Found) # 0 PROVE FALSE
        OBVIOUS
      <4>1. 1 \in DOMAIN Found /\ Found[1] \in DOMAIN sent
        BY <1>r
      <4> QED
        <5>1. Found[1] \in Nat /\ Found[1] >= 1
          BY <1>r, <4>1
        <5> QED
          BY <1>5, <2>1, <4>1, <5>1
    <3> QED
      BY <1>r, <2>1, <3>1 DEF LastFound
  <2>2. CASE v # 0
    <3>1. v \in DOMAIN sent
      BY <1>r, <1>5, <1>6, <2>2
    <3>2. ASSUME NEW k \in 1..Len(Rest), WholeAt(v, k) PROVE FALSE
      BY <1>3, <1>5, <1>6, <2>2, <3>1, <3>2
    <3>3. PICK i \in DOMAIN Found : Found[i] = v
      BY <1>2, <3>1, <3>2
    <3> DEFINE l == Len(Found)
    <3>4. l \in DOMAIN Found /\ i \in Nat /\ i <= l /\ l \in Nat
      BY <1>r, <3>3
    <3>5. Found[l] \in Nat /\ Found[l] <= v
      BY <1>r, <1>5, <3>4
    <3> HIDE DEF l
    <3>6. i < l => Found[i] < Found[l]
      BY <1>0, <3>4 DEF FoundInOrder
    <3>7. i = l
      BY <1>6, <3>3, <3>4, <3>5, <3>6
    <3> QED
      BY <1>r, <3>3, <3>4, <3>7 DEF LastFound, l
  <2> QED
    BY <2>1, <2>2
<1> QED
  BY <1>1, <1>4, <1>5, <1>7

\* What is dropped between two frames is as many bytes of noise, all sent between
\* these frames (wire.rs FrameDecoder, "since the last good frame").
LEMMA DroppedStep ==
  DecoderInv /\ [Next]_vars => DroppedIsNoise' /\ CorruptOnlyForNoise'
<1> SUFFICES ASSUME DecoderInv, [Next]_vars
             PROVE  DroppedIsNoise' /\ CorruptOnlyForNoise'
  OBVIOUS
<1>0. TypeOK /\ NoiseInPlace /\ DroppedIsNoise /\ CorruptOnlyForNoise /\ WithinLimits
  BY DEF DecoderInv
<1>r. /\ Rest \in Seq(Cell) /\ Len(Rest) \in Nat /\ DOMAIN Rest = 1..Len(Rest)
      /\ noise \in Seq(0..MaxFrames) /\ Len(noise) \in Nat
      /\ DOMAIN noise = 1..Len(noise) /\ dropped \in Nat
      /\ Len(sent) \in Nat /\ Found \in Seq(DOMAIN sent)
  BY <1>0, RestIs DEF TypeOK, Found
<1>s. state \in {"reading", "feeding"} \/ UNCHANGED vars
  BY Kinds DEF SendFrame, SendNoise, Keeping, Read, NeedMore, Wait, RefuseFrame,
     Dropping, SkipByte, GiveUpWaiting, DropFrame, TakeFrame, Complete, AtFrame,
     HasHeader
<1>d. ASSUME state \in {"reading", "feeding"}
      PROVE  \E d \in SUBSET DOMAIN noise :
               /\ Cardinality(d) = dropped
               /\ \A i \in d :
                    /\ noise[i] = LastFound
                    /\ \A j \in DOMAIN Rest : Rest[j].of = 0 => i < Rest[j].at
  BY <1>0, <1>d, Zenon DEF DroppedIsNoise
<1>f. IsFiniteSet(DOMAIN noise) /\ \A d \in SUBSET DOMAIN noise : IsFiniteSet(d)
  <2>1. IsFiniteSet(1..Len(noise))
    BY <1>r, FS_Interval
  <2> QED
    BY <1>r, <2>1, FS_Subset
\* Noise that comes in, and frames that do, come after what has been dropped.
<1>1. ASSUME state \in {"reading", "feeding"}, dropped' = dropped, Found' = Found,
             \A i \in DOMAIN noise : i \in DOMAIN noise' /\ noise'[i] = noise[i],
             \A j \in DOMAIN Rest', i \in DOMAIN noise :
               Rest'[j].of = 0 =>
                 (j \in DOMAIN Rest /\ Rest'[j] = Rest[j]) \/ i < Rest'[j].at
      PROVE  DroppedIsNoise'
  <2>1. PICK d \in SUBSET DOMAIN noise :
               /\ Cardinality(d) = dropped
               /\ \A i \in d :
                    /\ noise[i] = LastFound
                    /\ \A j \in DOMAIN Rest : Rest[j].of = 0 => i < Rest[j].at
    BY <1>1, <1>d
  <2>2. d \in SUBSET DOMAIN noise' /\ LastFound' = LastFound
    BY <1>1 DEF LastFound
  <2>3. \A i \in d :
          /\ noise'[i] = LastFound'
          /\ \A j \in DOMAIN Rest' : Rest'[j].of = 0 => i < Rest'[j].at
    BY <1>1, <2>1, <2>2
  <2> QED
    BY <1>1, <2>1, <2>2, <2>3 DEF DroppedIsNoise
<1>2. ASSUME NEW s \in Shapes, SendFrame(s)
      PROVE  DroppedIsNoise' /\ state' # "corrupt"
  <2>0. s \in Seq(Nat) /\ Len(s) \in Nat
    BY DecoderAssumption
  <2>1. /\ Rest' \in Seq(Cell) /\ Len(Rest') = Len(Rest) + Len(s)
        /\ \A i \in 1..Len(Rest) : Rest'[i] = Rest[i]
        /\ \A i \in 1..Len(s) :
             Rest'[Len(Rest) + i] = [byte |-> s[i], of |-> Len(sent) + 1, at |-> i]
    BY <1>0, <1>2, <2>0, SendRest
  <2>2. Found' = Found /\ noise' = noise /\ dropped' = dropped /\ state = "reading"
        /\ state' = state
    BY <1>2 DEF SendFrame, Found
  <2>3. ASSUME NEW j \in DOMAIN Rest', Rest'[j].of = 0
        PROVE  j \in DOMAIN Rest /\ Rest'[j] = Rest[j]
    <3>1. CASE j > Len(Rest)
      <4> DEFINE i == j - Len(Rest)
      <4>1. i \in 1..Len(s) /\ Len(Rest) + i = j
        BY <1>r, <2>0, <2>1, <3>1
      <4> HIDE DEF i
      <4>2. Rest'[j] = [byte |-> s[i], of |-> Len(sent) + 1, at |-> i]
        BY <2>1, <4>1
      <4> QED
        BY <1>r, <2>3, <4>2
    <3> QED
      BY <1>r, <2>0, <2>1, <3>1
  <2> QED
    BY <1>1, <2>2, <2>3
<1>3. ASSUME NEW b \in Noise, SendNoise(b)
      PROVE  DroppedIsNoise' /\ state' # "corrupt"
  <2>1. /\ noise' = Append(noise, Len(sent))
        /\ Rest' \in Seq(Cell) /\ Len(Rest') = Len(Rest) + 1
        /\ \A i \in 1..Len(Rest) : Rest'[i] = Rest[i]
        /\ Rest'[Len(Rest) + 1].at = Len(noise) + 1
    BY <1>0, <1>3, NoiseRest
  <2>2. Found' = Found /\ dropped' = dropped /\ state = "reading" /\ state' = state
    BY <1>3 DEF SendNoise, Found
  <2>3. \A i \in DOMAIN noise : i \in DOMAIN noise' /\ noise'[i] = noise[i]
    BY <1>r, <2>1
  <2>4. ASSUME NEW j \in DOMAIN Rest', NEW i \in DOMAIN noise
        PROVE  (j \in DOMAIN Rest /\ Rest'[j] = Rest[j]) \/ i < Rest'[j].at
    <3>1. j \in DOMAIN Rest \/ j = Len(Rest) + 1
      BY <1>r, <2>1
    <3> QED
      BY <1>r, <2>1, <3>1
  <2> QED
    BY <1>1, <2>2, <2>3, <2>4
<1>4. ASSUME NEW n \in 1..ReadLen, Keeping(n)
      PROVE  DroppedIsNoise' /\ state' # "corrupt"
  <2>1. Rest' = Rest /\ sent' = sent /\ state' # "corrupt"
    BY <1>0, <1>4, KeepRest
       DEF Keeping, Read, NeedMore, Wait, RefuseFrame, Return, HasHeader, AtFrame, Complete
  <2>2. noise' = noise /\ dropped' = dropped /\ state \in {"reading", "feeding"}
    BY <1>4 DEF Keeping, Read, NeedMore, Wait, RefuseFrame, Return, HasHeader, AtFrame,
       Complete, lineVars
  <2>3. CASE state' \in {"reading", "feeding"}
    BY <1>0, <1>1, <1>4, <2>1, <2>2, <2>3, FoundKept
  <2>4. CASE state' \notin {"reading", "feeding"}
    BY <2>1, <2>4 DEF DroppedIsNoise
  <2> QED
    BY <2>1, <2>3, <2>4
\* The byte dropped comes after the ones dropped before it.
<1>5. ASSUME Dropping PROVE DroppedIsNoise' /\ CorruptOnlyForNoise'
  <2>0. state = "feeding" /\ Resync /\ UNCHANGED <<lineVars, key, delivered>>
    BY <1>0, <1>5, DropRest DEF HasHeader
  <2>1. /\ Rest' \in Seq(Cell) /\ Without(Rest, Rest', 1)
        /\ sent' = sent /\ noise' = noise
    BY <1>0, <1>5, DropRest DEF lineVars
  <2>2. /\ 1 \in DOMAIN Rest /\ Rest[1].of = 0 /\ Rest[1].at \in DOMAIN noise
        /\ noise[Rest[1].at] = LastFound
    BY <1>5, DroppedByte
  <2> DEFINE n == Rest[1].at
  <2>3. PICK d \in SUBSET DOMAIN noise :
               /\ Cardinality(d) = dropped
               /\ \A i \in d :
                    /\ noise[i] = LastFound
                    /\ \A j \in DOMAIN Rest : Rest[j].of = 0 => i < Rest[j].at
    BY <1>d, <2>0
  <2>4. \A i \in d : i < n
    BY <2>2, <2>3
  <2>5. n \in DOMAIN noise /\ n \in Nat /\ noise[n] = LastFound
    BY <1>r, <2>2
  <2>6. \A j \in DOMAIN Rest : 1 < j /\ Rest[j].of = 0 => n < Rest[j].at
    BY <1>0, <2>2 DEF NoiseInPlace
  <2> HIDE DEF n
  <2> DEFINE e == d \cup {n}
  <2>7. n \notin d
    BY <2>4, <2>5
  <2>8. IsFiniteSet(d) /\ Cardinality(e) = dropped + 1
    BY <1>f, <2>3, <2>7, FS_AddElement
  <2>9. /\ e \in SUBSET DOMAIN noise
        /\ \A i \in e : noise[i] = LastFound
    BY <2>3, <2>5
  <2>10. ASSUME NEW i \in e, NEW j \in DOMAIN Rest', Rest'[j].of = 0
         PROVE  i < Rest'[j].at
    <3> DEFINE k == j + 1
    <3>1. k \in DOMAIN Rest /\ 1 < k /\ Rest'[j] = Rest[k]
      BY <1>r, <2>1 DEF Without
    <3> HIDE DEF k
    <3> QED
      BY <2>3, <2>6, <2>10, <3>1
  <2>11. dropped' = dropped + 1
    BY <2>0 DEF Resync
  <2> HIDE DEF e
  <2>12. CASE ~Corrupt(dropped')
    <3>1. state' = "feeding" /\ out' = out
      BY <2>0, <2>12 DEF Resync
    <3>2. LastFound' = LastFound
      BY <2>0, <3>1 DEF LastFound, Found
    <3>3. DroppedIsNoise'
      BY <2>1, <2>8, <2>9, <2>10, <2>11, <3>2 DEF DroppedIsNoise
    <3> QED
      BY <3>1, <3>3 DEF CorruptOnlyForNoise
  <2>13. CASE Corrupt(dropped')
    <3>1. state' = "corrupt"
      BY <2>0, <2>13 DEF Resync
    <3> DEFINE g == LastFound
               c == {i \in DOMAIN noise : noise[i] = g}
    <3>2. g \in 0..Len(sent)
      <4>1. CASE Found = <<>>
        BY <1>r, <4>1 DEF LastFound
      <4>2. CASE Found # <<>>
        <5>1. Found[Len(Found)] \in DOMAIN sent
          BY <1>r, <4>2
        <5>2. DOMAIN sent = 1..Len(sent)
          BY <1>0 DEF TypeOK
        <5> QED
          BY <1>r, <4>2, <5>1, <5>2 DEF LastFound
      <4> QED
        BY <4>1, <4>2
    <3>3. e \subseteq c /\ IsFiniteSet(c)
      BY <1>f, <2>9
    <3> HIDE DEF g
    <3>4. /\ Cardinality(e) <= Cardinality(c) /\ Cardinality(c) \in Nat
      BY <3>3, FS_Subset, FS_CardinalityType
    <3>5. dropped + 1 > ResyncLimit
      BY <2>11, <2>13 DEF Corrupt
    <3>6. Cardinality(c) > ResyncLimit
      BY <1>r, <2>8, <3>4, <3>5, DecoderAssumption
    <3>7. CorruptOnlyForNoise'
      BY <2>1, <3>2, <3>6 DEF CorruptOnlyForNoise
    <3>8. DroppedIsNoise'
      BY <3>1 DEF DroppedIsNoise
    <3> QED
      BY <3>7, <3>8
  <2> QED
    BY <2>12, <2>13
\* A frame found starts the count again.
<1>6. ASSUME TakeFrame PROVE DroppedIsNoise' /\ state' # "corrupt"
  <2>1. dropped' = 0 /\ state = "feeding" /\ state' = state
    BY <1>6 DEF TakeFrame, DroppedReset, Complete, AtFrame, HasHeader
  <2>2. {} \in SUBSET DOMAIN noise' /\ Cardinality({}) = dropped'
    BY <2>1, FS_EmptySet
  <2> QED
    BY <2>1, <2>2 DEF DroppedIsNoise
<1>7. ASSUME UNCHANGED vars PROVE DroppedIsNoise' /\ CorruptOnlyForNoise'
  <2>1. /\ Rest' = Rest /\ Found' = Found /\ sent' = sent /\ noise' = noise
        /\ dropped' = dropped /\ state' = state
    BY <1>7, Stutter DEF vars, lineVars
  <2>2. CorruptOnlyForNoise'
    BY <1>0, <2>1 DEF CorruptOnlyForNoise
  <2>3. DroppedIsNoise'
    BY <1>0, <2>1 DEF DroppedIsNoise, LastFound
  <2> QED
    BY <2>2, <2>3
<1>8. state' # "corrupt" => CorruptOnlyForNoise'
  BY DEF CorruptOnlyForNoise
<1> QED
  BY <1>2, <1>3, <1>4, <1>5, <1>6, <1>7, <1>8, Kinds

-----------------------------------------------------------------------------
\* The decoder's invariant holds of every stream of frames and noise, cut
\* anywhere, for every limit.
THEOREM DecoderInvariance == Spec => []DecoderInv
<1>1. Init => DecoderInv
  BY InitDecoder
<1>2. DecoderInv /\ [Next]_vars => DecoderInv'
  BY DecoderTypeStep, SentStep, OrderStep, FoundStep, LimitsStep, WaitStep, LostStep,
     NoiseStep, DroppedStep DEF DecoderInv
<1> QED
  BY <1>1, <1>2, PTL DEF Spec

\* Type correctness of the decoder's state (wire.rs FrameDecoder).
THEOREM DecoderTypeCorrect == Spec => []TypeOK
<1>1. DecoderInv => TypeOK
  BY DEF DecoderInv
<1> QED
  BY <1>1, DecoderInvariance, PTL

\* As long as feed has not failed, every frame sent has been found or still lies
\* whole in front of the decoder, behind any noise (wire.rs feed, resync).
THEOREM NothingLost == Spec => []NoFrameLost
<1>1. DecoderInv => NoFrameLost
  BY DEF DecoderInv
<1> QED
  BY <1>1, DecoderInvariance, PTL

\* Frames are found once each and in the order they were sent (wire.rs feed).
THEOREM InOrder == Spec => []FoundInOrder
<1>1. DecoderInv => FoundInOrder
  BY DEF DecoderInv
<1> QED
  BY <1>1, DecoderInvariance, PTL

\* A header that no frame follows holds up the frames behind it for no more than
\* RESYNC_LIMIT bytes and one read (wire.rs feed).
THEOREM BoundedWait == Spec => []WaitIsBounded
<1>1. DecoderInv => WaitIsBounded
  BY DEF DecoderInv
<1> QED
  BY <1>1, DecoderInvariance, PTL

\* self.buf.len() - started does not underflow (wire.rs feed).
THEOREM SubtractionIsSafe == Spec => []NoUnderflow
<1>1. DecoderInv => NoUnderflow
  BY DEF DecoderInv
<1> QED
  BY <1>1, DecoderInvariance, PTL

\* A connection is given up as corrupt only where more than RESYNC_LIMIT bytes of
\* noise came between two frames (wire.rs resync).
THEOREM CorruptForNoise == Spec => []CorruptOnlyForNoise
<1>1. DecoderInv => CorruptOnlyForNoise
  BY DEF DecoderInv
<1> QED
  BY <1>1, DecoderInvariance, PTL
=============================================================================
