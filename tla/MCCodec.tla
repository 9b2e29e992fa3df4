------------------------------ MODULE MCCodec ------------------------------
EXTENDS Codec

\* With its last byte cut off and a length of 8 it has the checksum it had before.
Chance == <<98, 54, 11, 98, 18, 191, 122, 232, 67>>

\* Tails of 6 bytes and a payload: without, just below, at and above a block.
MCPayloads == {<<>>, <<255>>, [i \in 1..9 |-> i], [i \in 1..10 |-> 250 + (i % 6)],
               [i \in 1..11 |-> 0], Chance}

\* HELLO of the unit tests, as captured from a panel.
Hello == [flags |-> 0, sequence |-> 257430800, src_id |-> 1000, dst_id |-> 1001,
          major |-> 1, minor |-> 2, payload |-> <<36, 207, 100, 69, 102, 12, 164, 61>>]
HelloWire ==
  <<29, 0, 69, 2, 0, 16, 21, 88, 15, 232, 3, 0, 0, 233, 3, 0, 0, 1, 2, 56, 157, 8, 0,
    36, 207, 100, 69, 102, 12, 164, 61>>

MCFrames ==
  [flags : {0, 9}, sequence : {257430800}, src_id : {0}, dst_id : {1001},
   major : {10}, minor : {1}, payload : MCPayloads] \cup {Hello}

MCKeys    == {1, 2}
MCGarbles == {1, 128, 255}

\* Fields that parse or not, and up to three bars in the description.
MCEvents ==
  {<<p, t>> \o rest : p \in {"1000", "?"}, t \in {"09153403062026", "?"},
                      rest \in UNION {[1..n -> {"", "x"}] : n \in 1..7}}

\* The captured frame comes out bit for bit: the checksum is the panel's.
ASSUME CaptureIsExact == Encode(Hello, NoKey) = HelloWire
=============================================================================
