------------------------- MODULE SequenceValidator -------------------------
(***************************************************************************)
(* The anti-replay window of hidra_core/src/protocol.rs behind the counter *)
(* that feeds it, TitanBridge::next_seq of titan_spi.rs.  Packets reach    *)
(* the validator in any order, any number of times or never.  A packet is  *)
(* identified by the number of packets sent before it; the sequence number *)
(* it carries is that index modulo the range of the counter.               *)
(***************************************************************************)
EXTENDS Integers

CONSTANTS
  MaxSeq,       \* the largest sequence number (u32::MAX)
  WindowSize,   \* SequenceValidator::WINDOW_SIZE (64)
  MaxSend,      \* bound: packets sent
  MaxRejected   \* bound: packets rejected between two resets

ASSUME ConstantsAssumption ==
  /\ MaxSeq \in Nat
  /\ WindowSize \in Nat \ {0}
  /\ MaxSend \in Nat
  /\ MaxRejected \in Nat

VARIABLES
  sent,         \* packets sent; TitanBridge.sequence is sent % (MaxSeq + 1)
  max_seq,      \* SequenceValidator.max_seq
  window,       \* SequenceValidator.window: the ages whose bit is set
  accepted,     \* SequenceValidator.accepted
  rejected,     \* SequenceValidator.rejected
  initialized,  \* SequenceValidator.initialized
  honoured,     \* history: how often each number was accepted since reset()
  newest,       \* history: the latest packet validated, -1 before the first
  refused       \* history: packets refused though newer than any before

validator == <<max_seq, window, accepted, rejected, initialized>>
vars == <<sent, max_seq, window, accepted, rejected, initialized,
          honoured, newest, refused>>

Seqs == 0 .. MaxSeq

(* Mutant: the counter wraps one number early. *)
MutSeqOfEarly(packet) == packet % MaxSeq

(* The wrapping u32 the packet carries. *)
SeqOf(packet) == packet % (MaxSeq + 1)

(* Mutants: bits that leave the word are kept; the far jump is not         *)
(* special, and the shift count is masked as a release build masks it.     *)
MutWindowUnbounded(shift) == {age + shift : age \in window} \cup {0}
MutWindowMaskedShift(shift) ==
  {age \in 0 .. WindowSize - 1 : age - (shift % WindowSize) \in window} \cup {0}

(* The bitmap once the high water mark moved by shift: a far jump resets   *)
(* it, a short one shifts it left and the bits that leave the word are     *)
(* lost; bit 0 is the new mark itself.                                     *)
NextWindow(shift) ==
  IF shift >= WindowSize
  THEN {0}
  ELSE {age \in 0 .. WindowSize - 1 : age - shift \in window} \cup {0}

Init ==
  /\ sent = 0
  /\ max_seq = 0 /\ window = {} /\ accepted = 0 /\ rejected = 0
  /\ initialized = FALSE
  /\ honoured = [s \in Seqs |-> 0]
  /\ newest = -1
  /\ refused = {}

(* TitanBridge::next_seq. *)
NextSeq ==
  /\ sent < MaxSend
  /\ sent' = sent + 1
  /\ UNCHANGED <<validator, honoured, newest, refused>>

Seen(packet) == newest' = IF packet > newest THEN packet ELSE newest

Accept(packet) ==
  /\ accepted' = accepted + 1
  /\ honoured' = [honoured EXCEPT ![SeqOf(packet)] = @ + 1]
  /\ Seen(packet)
  /\ UNCHANGED <<sent, rejected, refused>>

Reject(packet) ==
  /\ rejected < MaxRejected
  /\ rejected' = rejected + 1
  /\ Seen(packet)
  /\ refused' = IF packet > newest THEN refused \cup {packet} ELSE refused
  /\ UNCHANGED <<sent, max_seq, window, accepted, initialized, honoured>>

(* validate: the first packet is accepted whatever its number. *)
FirstPacket(packet) ==
  /\ ~initialized
  /\ initialized' = TRUE
  /\ max_seq' = SeqOf(packet)
  /\ window' = {0}
  /\ Accept(packet)

(* validate: a new high water mark moves the window. *)
NewHighWater(packet) ==
  LET shift == SeqOf(packet) - max_seq
  IN /\ initialized
     /\ shift > 0
     /\ window' = NextWindow(shift)
     /\ max_seq' = SeqOf(packet)
     /\ Accept(packet)
     /\ UNCHANGED initialized

(* Mutant: a late packet is accepted but its bit is not set. *)
MutLateNotMarked(packet) ==
  LET age == max_seq - SeqOf(packet)
  IN /\ initialized
     /\ age > 0 /\ age < WindowSize
     /\ age \notin window
     /\ Accept(packet)
     /\ UNCHANGED <<max_seq, window, initialized>>

(* validate: late, but its bit is in the window and clear. *)
LateInWindow(packet) ==
  LET age == max_seq - SeqOf(packet)
  IN /\ initialized
     /\ age > 0 /\ age < WindowSize
     /\ age \notin window
     /\ window' = window \cup {age}
     /\ Accept(packet)
     /\ UNCHANGED <<max_seq, initialized>>

(* validate: older than the window. *)
TooOld(packet) ==
  /\ initialized
  /\ max_seq - SeqOf(packet) >= WindowSize
  /\ Reject(packet)

(* validate: the number at the high water mark, or one whose bit is set. *)
Duplicate(packet) ==
  LET age == max_seq - SeqOf(packet)
  IN /\ initialized
     /\ age = 0 \/ (age > 0 /\ age < WindowSize /\ age \in window)
     /\ Reject(packet)

Validate(packet) == \/ FirstPacket(packet)
                    \/ NewHighWater(packet)
                    \/ LateInWindow(packet)
                    \/ TooOld(packet)
                    \/ Duplicate(packet)

(* reset: the caller's business, after a re-key.  Nothing forces it: that  *)
(* needs_rekey() holds is only reported.                                   *)
Reset ==
  /\ max_seq' = 0 /\ window' = {} /\ accepted' = 0 /\ rejected' = 0
  /\ initialized' = FALSE
  /\ honoured' = [s \in Seqs |-> 0]
  /\ UNCHANGED <<sent, newest, refused>>

Next == \/ NextSeq
        \/ \E packet \in 0 .. sent - 1 : Validate(packet)
        \/ Reset

Spec == Init /\ [][Next]_vars

-----------------------------------------------------------------------------

(* The variables range over what the Rust types allow. *)
TypeOK ==
  /\ sent \in 0 .. MaxSend
  /\ max_seq \in Seqs
  /\ window \subseteq 0 .. WindowSize - 1
  /\ accepted \in Nat
  /\ rejected \in 0 .. MaxRejected
  /\ initialized \in BOOLEAN
  /\ honoured \in [Seqs -> Nat]
  /\ newest \in -1 .. MaxSend - 1
  /\ refused \subseteq 0 .. MaxSend - 1

(* The bitmap is exact: after any shifts and marks, the bit of an age is   *)
(* set exactly when the number of that age was accepted since the reset.   *)
WindowExact ==
  \A age \in 0 .. WindowSize - 1 :
    age \in window <=> (age <= max_seq /\ honoured[max_seq - age] > 0)

(* The high water mark is the largest number accepted since the reset.     *)
HighWaterMark ==
  IF initialized
  THEN honoured[max_seq] > 0 /\ \A s \in Seqs : honoured[s] > 0 => s <= max_seq
  ELSE \A s \in Seqs : honoured[s] = 0

(* The inductive invariant that carries the at-most-once promise. *)
IInv == TypeOK /\ WindowExact /\ HighWaterMark

(* A packet newer than every packet before it is refused only once the     *)
(* counter has wrapped: below the wrap, no fresh in-order traffic is lost. *)
FreshRefusedOnlyAfterWrap == \A packet \in refused : packet > MaxSeq

(* Between two resets no sequence number is accepted twice. *)
Filter == INSTANCE AtMostOnce WITH Id <- Seqs, honoured <- honoured
ImplementsAtMostOncePerEpoch == Filter!EpochSpec
=============================================================================
