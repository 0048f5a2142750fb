------------------------------ MODULE UartLink ------------------------------
(***************************************************************************)
(* The serial link.  First cobs.rs: a code byte announces the distance to  *)
(* the next zero, or with FullBlock + 1 a full block that no zero follows; *)
(* FullBlock is 254 in the code, and a smaller one keeps every case.  Then *)
(* transport.rs: frame_envelope writes encoded envelopes to the UART, the  *)
(* FrameAccumulator collects bytes up to a delimiter and unframe_and_open  *)
(* tries what it yields.  The line may drop a byte, turn it into another   *)
(* one or into a delimiter.  There a byte is <<message, index>>; no byte   *)
(* of an encoded frame is a delimiter (CodecIsExact).                      *)
(***************************************************************************)
EXTENDS Naturals, Sequences, SequencesExt, FiniteSets

CONSTANTS
  FullBlock,         \* the longest block (254)
  Octets,            \* bound: the values of a byte, 0 among them
  MaxInput,          \* bound: the longest input of encode
  MAX_FRAME_SIZE,    \* 2048; the model's frames are a few bytes long
  FrameLen,          \* bound: the encoded length of each message, in order
  MaxFaults          \* bound: bytes the line damages

Messages == DOMAIN FrameLen
Garbage == <<0, 0>>
UartConstants ==
  /\ FullBlock \in Nat \ {0} /\ 0 \in Octets /\ Octets \subseteq Nat
  /\ MAX_FRAME_SIZE \in Nat \ {0} /\ FrameLen \in Seq(Nat \ {0})

VARIABLES
  input,       \* the bytes encode is given; they grow byte by byte
  sending,     \* the message being written and how many bytes are out
  buffer,      \* FrameAccumulator.buffer
  opened,      \* the messages unframe_and_open returned, in order
  refused,     \* how many frames it refused
  faults       \* bytes damaged so far

-----------------------------------------------------------------------------
FullCode == FullBlock + 1
Failed == << FullCode + 1 >>     \* any CobsError; no byte has this value

(* Where the block that starts at i ends: at a zero, at the end of the     *)
(* input or when it is full.                                               *)
BlockEnd(in, i) ==
  CHOOSE e \in i .. i + FullBlock :
    /\ \A k \in i .. e - 1 : k <= Len(in) /\ in[k] # 0
    /\ e = i + FullBlock \/ e > Len(in) \/ in[e] = 0

(* A zero after the block is skipped, after a full block too. *)
Encode(in) ==
  LET from[i \in 1 .. Len(in) + 1] ==
        IF i > Len(in) THEN <<>>
        ELSE LET e == BlockEnd(in, i)
                 rest == IF e <= Len(in) /\ in[e] = 0 THEN e + 1 ELSE e
             IN << e - i + 1 >> \o SubSeq(in, i, e - 1) \o from[rest]
      closing == IF in = <<>> \/ in[Len(in)] = 0 THEN <<1>> ELSE <<>>
  IN from[1] \o closing

(* Mutant: every block but the last stands for a zero. *)
MutDecode(frame) ==
  LET from[i \in 1 .. Len(frame) + 1] ==
        IF i > Len(frame) THEN <<>>
        ELSE LET next == i + frame[i]
             IN IF next > Len(frame) + 1 THEN Failed
                ELSE IF from[next] = Failed THEN Failed
                ELSE SubSeq(frame, i + 1, next - 1)
                       \o (IF next <= Len(frame) THEN <<0>> ELSE <<>>) \o from[next]
  IN IF frame = <<>> THEN Failed ELSE from[1]

Decode(frame) ==
  LET from[i \in 1 .. Len(frame) + 1] ==
        IF i > Len(frame) THEN <<>>
        ELSE LET next == i + frame[i]
                 zero == \E k \in i .. next - 1 : k <= Len(frame) /\ frame[k] = 0
             IN IF frame[i] = 0 \/ next > Len(frame) + 1 \/ zero THEN Failed
                ELSE IF from[next] = Failed THEN Failed
                ELSE SubSeq(frame, i + 1, next - 1)
                       \o (IF frame[i] < FullCode /\ next <= Len(frame) THEN <<0>> ELSE <<>>)
                       \o from[next]
  IN IF frame = <<>> THEN Failed ELSE from[1]

CodecInit == input = <<>>
Grow == Len(input) < MaxInput /\ \E b \in Octets : input' = Append(input, b)
CodecNext == Grow

(* Some zero comes right after a full block: cobs.rs 56-60 takes the first *)
(* branch there and decode cannot know of that zero.                       *)
ZeroAfterFullBlock(in) ==
  LET starts[i \in 1 .. Len(in) + 1] ==
        IF i > Len(in) THEN FALSE
        ELSE LET e == BlockEnd(in, i)
                 zero == e <= Len(in) /\ in[e] = 0
             IN (zero /\ e = i + FullBlock) \/ starts[IF zero THEN e + 1 ELSE e]
  IN starts[1]

(* decode gives back what encode was given, as cobs.rs 86 says. *)
RoundTrip == Decode(Encode(input)) = input

(* Outside the case above the round trip holds, the encoding holds no      *)
(* delimiter, and it costs one byte and one more per full block.           *)
CodecIsExact ==
  LET frame == Encode(input) IN
  /\ ~ZeroAfterFullBlock(input) => RoundTrip
  /\ \A k \in 1 .. Len(frame) : frame[k] # 0
  /\ Len(frame) <= Len(input) + 1 + Len(input) \div FullBlock

-----------------------------------------------------------------------------
Init ==
  /\ sending = [message |-> 1, out |-> 0]
  /\ buffer = <<>> /\ opened = <<>> /\ refused = 0 /\ faults = 0

-----------------------------------------------------------------------------
(* unframe_and_open: the cipher is authenticated, so a frame opens only if *)
(* it is the whole of some message.                                        *)
FrameOf(m) == [i \in 1 .. FrameLen[m] |-> <<m, i>>]
Opens(frame, m) == Len(frame) <= MAX_FRAME_SIZE /\ frame = FrameOf(m)

Deliver(frame) ==
  IF \E m \in Messages : Opens(frame, m)
  THEN /\ opened' = Append(opened, CHOOSE m \in Messages : Opens(frame, m))
       /\ UNCHANGED refused
  ELSE refused' = refused + 1 /\ UNCHANGED opened

(* Mutants: the buffer is left in place, or restarted with the byte.       *)
MutFeedDelimiter ==
  IF buffer = <<>> THEN UNCHANGED <<buffer, opened, refused>>
  ELSE Deliver(buffer) /\ UNCHANGED buffer
MutFeedByte(byte) ==
  /\ buffer' = IF Len(buffer) <= MAX_FRAME_SIZE THEN Append(buffer, byte) ELSE <<>>
  /\ UNCHANGED <<opened, refused>>

(* feed, for a delimiter and for any other byte. *)
FeedDelimiter ==
  IF buffer = <<>> THEN UNCHANGED <<buffer, opened, refused>>
  ELSE Deliver(buffer) /\ buffer' = <<>>

FeedByte(byte) ==
  /\ buffer' = IF Len(buffer) < MAX_FRAME_SIZE THEN Append(buffer, byte) ELSE <<>>
  /\ UNCHANGED <<opened, refused>>

-----------------------------------------------------------------------------
(* The sender: the bytes of a frame, then its delimiter. *)
AtDelimiter == sending.out = FrameLen[sending.message]
NextOut ==
  sending' = IF AtDelimiter THEN [message |-> sending.message + 1, out |-> 0]
             ELSE [sending EXCEPT !.out = @ + 1]

Unfinished == sending.message \in Messages

ByteArrives ==
  /\ Unfinished /\ ~AtDelimiter
  /\ NextOut
  /\ FeedByte(<<sending.message, sending.out + 1>>)
  /\ UNCHANGED faults

DelimiterArrives ==
  /\ Unfinished /\ AtDelimiter
  /\ NextOut
  /\ FeedDelimiter
  /\ UNCHANGED faults

Damaged ==
  /\ Unfinished /\ faults < MaxFaults
  /\ NextOut
  /\ faults' = faults + 1
  /\ \/ UNCHANGED <<buffer, opened, refused>>
     \/ FeedByte(Garbage)
     \/ FeedDelimiter

(* reset, which the owner may call after an error. *)
Reset ==
  /\ Unfinished /\ refused > 0 /\ buffer # <<>> /\ faults < MaxFaults
  /\ buffer' = <<>>
  /\ faults' = faults + 1
  /\ UNCHANGED <<sending, opened, refused>>

Next == ByteArrives \/ DelimiterArrives \/ Damaged \/ Reset

-----------------------------------------------------------------------------
TypeOK ==
  /\ sending.message \in 1 .. Len(FrameLen) + 1
  /\ Len(buffer) <= MAX_FRAME_SIZE
  /\ refused \in Nat /\ faults \in 0 .. MaxFaults

Sent == {m \in Messages : m < sending.message}
Fits(m) == FrameLen[m] <= MAX_FRAME_SIZE
Opened == {opened[i] : i \in 1 .. Len(opened)}

(* The link is resynchronised by the next delimiter: frames open in the    *)
(* order they were sent, each at most once; a damaged byte (or a reset)    *)
(* costs at most the frame it is in and the next one; and a frame above    *)
(* the limit is lost alone, whatever is left of it in the buffer           *)
(* (transport.rs 113-134).                                                 *)
LossIsLocal ==
  /\ \A i, j \in 1 .. Len(opened) : i < j => opened[i] < opened[j]
  /\ Opened \subseteq {m \in Messages : m <= sending.message /\ Fits(m)}
  /\ Cardinality({m \in Sent : Fits(m)} \ Opened) <= 2 * faults
=============================================================================
