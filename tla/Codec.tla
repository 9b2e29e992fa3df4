------------------------------- MODULE Codec -------------------------------
(***************************************************************************)
(* The bytes of a frame (src/src/edp/wire.rs: checksum, encode, decode)    *)
(* and the fields of a panel event (src/src/edp/sia.rs).                   *)
(*                                                                         *)
(* A behaviour sends one frame or one event: it is encoded, the network    *)
(* may garble a byte of it, and the other side decodes it with the key it  *)
(* has.  Bytes are numbers; AES is a permutation of blocks with an inverse.*)
(* An event is the sequence of what is between its bars.                   *)
(***************************************************************************)
EXTENDS Integers, Sequences

CONSTANTS
  Frames,   \* to be sent
  Keys,     \* key numbers, not zero
  Garbles,  \* what the network adds to a byte
  Events    \* texts of events, in fields

NoKey == 0
Byte  == 0..255

\* What the types of the program allow: bytes, and a payload whose length has 16 bits
\* (encode also ends in a panic if the whole frame is longer than its prefix can say).
ASSUME CodecAssumption ==
  /\ \A f \in Frames :
       /\ DOMAIN f = {"flags", "sequence", "src_id", "dst_id", "major", "minor", "payload"}
       /\ {f.flags, f.major, f.minor} \subseteq Byte
       /\ \A x \in {f.sequence, f.src_id, f.dst_id} : x \in Nat /\ x \div 16777216 \in Byte
       /\ f.payload \in Seq(Byte) /\ Len(f.payload) < 65536
  /\ Keys \subseteq Nat \ {NoKey}
  /\ Garbles \subseteq Byte \ {0}
  /\ Events \subseteq Seq(STRING)

PREFIX_LEN             == 2
STRUCT_HEADER_LEN      == 21
STRUCT_CHECKSUM_OFFSET == 17
STRUCT_ENCRYPT_OFFSET  == 15
AES_BLOCK              == 16
CHECKSUM_INIT          == 65535

\* Little-endian numbers of two and of four bytes, and back.
U16(x) == <<x % 256, (x \div 256) % 256>>
U32(x) == <<x % 256, (x \div 256) % 256, (x \div 65536) % 256, (x \div 16777216) % 256>>
FromU16(b) == b[1] + 256 * b[2]
FromU32(b) == b[1] + 256 * b[2] + 65536 * b[3] + 16777216 * b[4]

\* Bytes from..to of a body, counted from zero as in the code.
Slice(body, from, to) == SubSeq(body, from + 1, to + 1)
At(body, i) == body[i + 1]

-----------------------------------------------------------------------------
\* Exclusive or with one bit of the polynomial, which is b, and with all of them.
Flip(x, b) == IF (x \div b) % 2 = 1 THEN x - b ELSE x + b
XorPoly(x) ==
  Flip(Flip(Flip(Flip(Flip(Flip(Flip(x, 32768), 8192), 128), 16), 4), 2), 1)

\* One step of the 16 bit register: the byte is added to the low half only.
Register(state, byte) ==
  LET shifted == (2 * state) % 65536
      sum == (shifted - (shifted % 256)) + ((shifted + byte) % 256)
  IN  IF state >= 32768 THEN XorPoly(sum) ELSE sum

\* The register after each of the bytes.
States(bytes) ==
  LET state[n \in 0..Len(bytes)] ==
        IF n = 0 THEN CHECKSUM_INIT ELSE Register(state[n - 1], bytes[n])
  IN  state

\* What the checksum is over: all but its own two bytes.
Covered(body) ==
  Slice(body, 0, STRUCT_CHECKSUM_OFFSET - 1) \o Slice(body, STRUCT_CHECKSUM_OFFSET + 2, Len(body) - 1)
Checksum(body) == LET covered == Covered(body) IN States(covered)[Len(covered)]

\* External: the block cipher.
Cipher(way, key, block) ==
  [i \in 1..AES_BLOCK |->
     IF way = "encrypt" THEN (block[AES_BLOCK + 1 - i] + 7 * key + i) % 256
     ELSE (block[AES_BLOCK + 1 - i] - 7 * key - (AES_BLOCK + 1 - i)) % 256]

\* Each whole block of what is behind the clear part of the header.
OnBlocks(way, key, body) ==
  [i \in DOMAIN body |->
     LET n == (i - 1 - STRUCT_ENCRYPT_OFFSET) \div AES_BLOCK
         first == STRUCT_ENCRYPT_OFFSET + n * AES_BLOCK
     IN  IF i <= STRUCT_ENCRYPT_OFFSET \/ first + AES_BLOCK > Len(body) THEN body[i]
         ELSE Cipher(way, key, Slice(body, first, first + AES_BLOCK - 1))[i - first]]

IsEncrypted(flags)  == flags % 2 = 1
Flag(flags, on)     == (flags - (flags % 2)) + (IF on THEN 1 ELSE 0)
Tail16(body)        == Len(body) - STRUCT_ENCRYPT_OFFSET

\* Mutant: the last block is not filled up.
PaddingNone(body) == <<>>
Padding(body) == [i \in 1..((-Tail16(body)) % AES_BLOCK) |-> 0]

\* The bytes of a frame, before it is encrypted.
Body(f, flags, checksum) ==
  <<69, 2, flags>> \o U32(f.sequence) \o U32(f.src_id) \o U32(f.dst_id) \o <<f.major, f.minor>>
    \o U16(checksum) \o U16(Len(f.payload)) \o f.payload

Encode(f, key) ==
  LET flags == Flag(f.flags, key # NoKey)
      body  == Body(f, flags, Checksum(Body(f, flags, 0)))
      sent  == IF key = NoKey THEN body ELSE OnBlocks("encrypt", key, body \o Padding(body))
  IN  U16(Len(sent)) \o sent

Invalid  == [error |-> "invalid"]
KeyError == [error |-> "encryption required"]

\* Mutant: the checksum is not compared.
FrameOfUnchecked(body) ==
  LET end == STRUCT_HEADER_LEN + FromU16(Slice(body, 19, 20))
  IN  IF end > Len(body) THEN Invalid
      ELSE [flags |-> Flag(At(body, 2), FALSE),
            sequence |-> FromU32(Slice(body, 3, 6)), src_id |-> FromU32(Slice(body, 7, 10)),
            dst_id |-> FromU32(Slice(body, 11, 14)),
            major |-> At(body, 15), minor |-> At(body, 16),
            payload |-> Slice(body, STRUCT_HEADER_LEN, end - 1)]
\* What the decoded body says, if its lengths and its checksum fit.
FrameOf(body) ==
  LET end == STRUCT_HEADER_LEN + FromU16(Slice(body, 19, 20))
  IN  IF end > Len(body) THEN Invalid
      ELSE IF Checksum(Slice(body, 0, end - 1)) # FromU16(Slice(body, 17, 18)) THEN Invalid
      ELSE [flags |-> Flag(At(body, 2), FALSE),
            sequence |-> FromU32(Slice(body, 3, 6)), src_id |-> FromU32(Slice(body, 7, 10)),
            dst_id |-> FromU32(Slice(body, 11, 14)),
            major |-> At(body, 15), minor |-> At(body, 16),
            payload |-> Slice(body, STRUCT_HEADER_LEN, end - 1)]

Decode(bytes, key) ==
  LET body == SubSeq(bytes, PREFIX_LEN + 1, Len(bytes))
  IN  IF ~IsEncrypted(At(body, 2)) THEN FrameOf(body)
      ELSE IF key = NoKey THEN KeyError
      ELSE IF Tail16(body) % AES_BLOCK # 0 THEN Invalid
      ELSE FrameOf(OnBlocks("decrypt", key, body))

-----------------------------------------------------------------------------
\* An event: E2[#panel|timestamp|code|address|description|extra|verification], and
\* the description may have bars of its own.  Numbers and times that do not parse
\* are errors.
NotAnEvent == [error |-> "not an event"]

\* Mutant: all fields are taken from the left.
ParseEventLeft(text) ==
  IF Len(text) < 7 \/ text[1] = "?" \/ text[2] = "?" THEN NotAnEvent
  ELSE [panel_id |-> text[1], timestamp |-> text[2], code |-> text[3], address |-> text[4],
        description |-> <<text[5]>>]
ParseEvent(text) ==
  IF Len(text) < 7 \/ text[1] = "?" \/ text[2] = "?" THEN NotAnEvent
  ELSE [panel_id |-> text[1], timestamp |-> text[2], code |-> text[3], address |-> text[4],
        description |-> SubSeq(text, 5, Len(text) - 2)]

-----------------------------------------------------------------------------
VARIABLES
  sent,    \* the frame and the key of the sender, or an event
  wire,    \* its bytes or fields
  garbled, \* which byte the network changed, or 0
  result   \* what was decoded, and with which key

vars == <<sent, wire, garbled, result>>

Nothing == [key |-> NoKey, value |-> [error |-> "not received"]]

Init ==
  /\ \/ \E f \in Frames, k \in Keys \cup {NoKey} :
          sent = [kind |-> "frame", frame |-> f, key |-> k] /\ wire = Encode(f, k)
     \/ \E text \in Events : sent = [kind |-> "event", text |-> text] /\ wire = text
  /\ garbled = 0
  /\ result = Nothing

\* The decoder has found the frame by its prefix.
Garble(i, by) ==
  /\ sent.kind = "frame" /\ garbled = 0 /\ result = Nothing
  /\ i > PREFIX_LEN
  /\ wire' = [wire EXCEPT ![i] = (@ + by) % 256]
  /\ garbled' = i
  /\ UNCHANGED <<sent, result>>

ReceiveFrame(k) ==
  /\ sent.kind = "frame" /\ result = Nothing
  /\ result' = [key |-> k, value |-> Decode(wire, k)]
  /\ UNCHANGED <<sent, wire, garbled>>

ReceiveEvent ==
  /\ sent.kind = "event" /\ result = Nothing
  /\ result' = [key |-> NoKey, value |-> ParseEvent(wire)]
  /\ UNCHANGED <<sent, wire, garbled>>

Next ==
  \/ \E i \in DOMAIN wire, by \in Garbles : Garble(i, by)
  \/ \E k \in Keys \cup {NoKey} : ReceiveFrame(k)
  \/ ReceiveEvent

Spec == Init /\ [][Next]_vars

-----------------------------------------------------------------------------
Received(kind) == sent.kind = kind /\ result # Nothing
Accepted       == "error" \notin DOMAIN result.value

\* What is sent is what is decoded, the encryption flag and the padding aside.
RoundTrip ==
  Received("frame") /\ garbled = 0 /\ result.key = sent.key =>
    result.value = [sent.frame EXCEPT !.flags = Flag(@, FALSE)]

\* The payload length was changed to a smaller one: what is then the frame has other
\* bytes than the one that was sent, and may have its checksum.
ClaimsLess ==
  garbled \in 22..23 /\ FromU16(SubSeq(wire, 22, 23)) < Len(sent.frame.payload)

\* The checksum sees any one byte changed in what is not encrypted, wherever it
\* is: the register's step loses neither its state nor the byte.
GarbledIsRejected ==
  Received("frame") /\ garbled # 0 /\ result.key = sent.key
  /\ (sent.key = NoKey \/ garbled \in 6..(PREFIX_LEN + STRUCT_ENCRYPT_OFFSET))
  /\ ~ClaimsLess
    => ~Accepted

\* An event with bars in its description loses none of its text.
EventsKeepTheirText ==
  Received("event") /\ Accepted =>
    LET e == result.value
    IN  wire = <<e.panel_id, e.timestamp, e.code, e.address>> \o e.description
               \o SubSeq(wire, Len(wire) - 1, Len(wire))
=============================================================================
