------------------------------ MODULE Envelope ------------------------------
(***************************************************************************)
(* The sizes and the clock of framing.rs: serialize_inner, pad_to_block    *)
(* and encryption on the way out; from_bytes, decryption, unpad and        *)
(* deserialize_inner on the way in.  The bytes themselves are abstracted:  *)
(* the cipher is authenticated, so only what was sealed ever opens.        *)
(***************************************************************************)
EXTENDS Naturals, Integers

CONSTANTS
  ENVELOPE_BLOCK_SIZE,     \* 512
  MAX_TIMESTAMP_SKEW_MS    \* 300000 in the code; the unit is the model's

NonceAndTag == 24 + 16     \* XChaCha20-Poly1305
InnerHeader == 46          \* version, type, timestamp, sender, payload length
PadField == 2              \* the padding length, a u16

MessageTypes == {"Text", "File", "Command", "Ack", "KeyExchange", "Heartbeat",
                 "Ephemeral", "Decoy", "Canary"}
UserVisible == {"Text", "File", "Command", "Ephemeral", "Canary"}

(* serialize_inner *)
InnerLen(payload_len) == InnerHeader + payload_len

Blocks(inner_len) ==
  (inner_len + PadField + NonceAndTag + ENVELOPE_BLOCK_SIZE - 1) \div ENVELOPE_BLOCK_SIZE

(* Mutant: the room for the padding length is forgotten. *)
MutPadLen(inner_len) ==
  Blocks(inner_len) * ENVELOPE_BLOCK_SIZE - NonceAndTag - inner_len

(* pad_to_block: the number of random bytes, by a saturating subtraction. *)
PadLen(inner_len) ==
  LET target == Blocks(inner_len) * ENVELOPE_BLOCK_SIZE - NonceAndTag
  IN IF target < inner_len + PadField THEN 0 ELSE target - (inner_len + PadField)

PaddedLen(inner_len) == inner_len + PadLen(inner_len) + PadField

(* seal then to_bytes *)
WireSize(payload_len) == PaddedLen(InnerLen(payload_len)) + NonceAndTag

(* from_bytes *)
WellSized(wire_size) ==
  wire_size >= ENVELOPE_BLOCK_SIZE /\ wire_size % ENVELOPE_BLOCK_SIZE = 0

(* unpad then deserialize_inner: the length of the payload, -1 on error.   *)
(* The length fields are the ones serialize_inner and pad_to_block wrote.  *)
OpenedLen(padded_len, pad_field, payload_field) ==
  LET inner_len == padded_len - (pad_field + PadField)
  IN IF inner_len < InnerHeader + payload_field THEN -1 ELSE payload_field

(* The clock check at the end of open. *)
Distance(a, b) == IF a > b THEN a - b ELSE b - a
InWindow(timestamp_ms, now) == Distance(timestamp_ms, now) <= MAX_TIMESTAMP_SKEW_MS

-----------------------------------------------------------------------------
(* A sealed payload is a whole number of blocks, from_bytes takes it, its  *)
(* padding length fits its field, and open recovers the payload's length   *)
(* (framing.rs 5-12, 117-131, 142-189).                                    *)
EnvelopeFits(payload_len) ==
  LET inner == InnerLen(payload_len) IN
  /\ WellSized(WireSize(payload_len))
  /\ PadLen(inner) < ENVELOPE_BLOCK_SIZE
  /\ OpenedLen(PaddedLen(inner), PadLen(inner) % 2^16, payload_len) = payload_len
=============================================================================
