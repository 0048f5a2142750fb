--------------------------- MODULE LayeredFormats ---------------------------
(***************************************************************************)
(* The sizes a message takes through the layers of hidra_core, an AEAD     *)
(* envelope, the HLP packet of the SPI bridge and the transport envelope,  *)
(* and through the sealed envelope of titan-core; and the CRC-32 of the    *)
(* HLP packet as the linear map it is.  Contents are left out: an envelope *)
(* opens when it is cut where it was put together.  Then the canary that   *)
(* is embedded in a text before any of these layers sees it.               *)
(***************************************************************************)
EXTENDS Integers, Sequences, FiniteSets, SequencesExt

VARIABLES
  plain_len,   \* the length of the message
  syndromes,   \* what the error in each bit of the bytes so far adds to the CRC
  crc_bytes    \* the bytes the CRC has taken

formatVars == <<plain_len, syndromes, crc_bytes>>

(* crypto.rs, transport_crypto.rs, titan_envelope: nonce and tag. *)
MAX_PLAINTEXT_SIZE == 4096
NONCE_SIZE == 12
TAG_SIZE == 16
XCHACHA_NONCE_SIZE == 24
HEADER_SIZE == 17
HLP_MAX_PAYLOAD == 4096
HLP_HEADER_SIZE == 7
HLP_CRC_SIZE == 4
Tiers == {512, 4096, 8192}
TooLarge == -1
ResponseBuffer == 512

-----------------------------------------------------------------------------
(* Mutant: a message of the full size is refused. *)
MutLayer1Encrypt(len) ==
  IF len >= MAX_PLAINTEXT_SIZE THEN TooLarge ELSE len + NONCE_SIZE + TAG_SIZE

Layer1Encrypt(len) ==
  IF len > MAX_PLAINTEXT_SIZE THEN TooLarge ELSE len + NONCE_SIZE + TAG_SIZE

(* from_bytes wants nonce and tag; decrypt checks the rest. *)
Layer1Decrypt(len) ==
  IF len < NONCE_SIZE + TAG_SIZE THEN TooLarge ELSE len - NONCE_SIZE - TAG_SIZE

(* to_bytes: the length field is the length modulo 2^16. *)
PacketLength(payload) == payload % 65536
PacketBytes(payload) == HLP_HEADER_SIZE + payload + HLP_CRC_SIZE

(* Mutant: the length is compared without header and CRC. *)
MutPacketParses(field, available) ==
  available >= HLP_HEADER_SIZE + HLP_CRC_SIZE /\ available >= field

(* from_bytes: the field says where the CRC stands. *)
PacketParses(field, available) ==
  /\ available >= HLP_HEADER_SIZE + HLP_CRC_SIZE
  /\ available >= HLP_HEADER_SIZE + field + HLP_CRC_SIZE

(* spi_transact reads a response into a buffer of 512 bytes. *)
ResponseReadable(payload) ==
  PacketParses(PacketLength(payload), ResponseBuffer)

TransportEncrypt(len) == len + XCHACHA_NONCE_SIZE + TAG_SIZE
TransportDecrypt(len) ==
  IF len < XCHACHA_NONCE_SIZE + TAG_SIZE THEN TooLarge
  ELSE len - XCHACHA_NONCE_SIZE - TAG_SIZE

(* encrypt through layer 1, the bridge and layer 3, and back. *)
Restored(len, hardware) ==
  LET inner == Layer1Encrypt(len) IN
  IF inner = TooLarge \/ (hardware /\ ~ResponseReadable(inner)) THEN TooLarge
  ELSE Layer1Decrypt(TransportDecrypt(TransportEncrypt(inner)))

-----------------------------------------------------------------------------
(* titan_envelope: seal pads to the tier, open takes all but the nonce for *)
(* ciphertext.                                                             *)
Seal(len) == NONCE_SIZE + HEADER_SIZE + len + TAG_SIZE
Seals(len, tier) == Seal(len) <= tier
Opens(len, size) == size >= NONCE_SIZE + TAG_SIZE + HEADER_SIZE /\ size = Seal(len)

-----------------------------------------------------------------------------
(* A CRC register is the set of its bits that are 1; two registers add up  *)
(* to their symmetric difference.  The register is linear in the message,  *)
(* so an error is missed exactly when the syndromes of its bits cancel.    *)
Xor(S, U) == (S \ U) \cup (U \ S)

(* 0xEDB88320 *)
Poly == {31, 30, 29, 27, 26, 24, 23, 21, 20, 19, 15, 9, 8, 5}

(* Mutant: a byte with the lowest bit set is shifted without the           *)
(* polynomial.                                                             *)
MutShift(S) == {i - 1 : i \in S \ {0}}

Shift(S) ==
  LET shifted == {i - 1 : i \in S \ {0}} IN
  IF 0 \in S THEN Xor(shifted, Poly) ELSE shifted

CrcByte(S) == Shift(Shift(Shift(Shift(Shift(Shift(Shift(Shift(S))))))))

(* The errors in the CRC field itself. *)
CrcField == {{i} : i \in 0 .. 31}

Init == plain_len = 0 /\ syndromes = {} /\ crc_bytes = 0

Grow(MaxPlain) ==
  /\ plain_len < MaxPlain /\ plain_len' = plain_len + 1
  /\ UNCHANGED <<syndromes, crc_bytes>>

(* One more byte: an error in it is in the low bits of the register. *)
TakeByte(MaxBytes) ==
  /\ crc_bytes < MaxBytes /\ crc_bytes' = crc_bytes + 1
  /\ syndromes' = {CrcByte(S) : S \in syndromes \cup {{b} : b \in 0 .. 7}}
  /\ UNCHANGED plain_len

-----------------------------------------------------------------------------
TypeOK ==
  /\ plain_len \in Nat /\ crc_bytes \in Nat
  /\ \A S \in syndromes : S \subseteq 0 .. 31

(* crypto.rs 15-135, transport_crypto.rs 19-121, protocol.rs 117-164,      *)
(* titan_spi.rs 434: a message of up to 4096 bytes comes back from the     *)
(* three layers over the simulated bridge and no longer one; over the      *)
(* hardware only one of up to 473 bytes does, for a longer response does   *)
(* not fit the buffer; no message near the limit keeps to HLP_MAX_PAYLOAD. *)
(* titan_envelope 79-175: what was padded to a tier never opens.           *)
LayersRestore ==
  /\ Restored(plain_len, FALSE) = (IF plain_len <= 4096 THEN plain_len ELSE TooLarge)
  /\ Restored(plain_len, TRUE) = (IF plain_len <= 473 THEN plain_len ELSE TooLarge)
  /\ plain_len \in 4069 .. 4096 => Layer1Encrypt(plain_len) > HLP_MAX_PAYLOAD
  /\ \A tier \in Tiers :
       Seals(plain_len, tier) /\ Opens(plain_len, tier) => plain_len = tier - 45

(* protocol.rs 304 says of the CRC that it detects all errors of one, two  *)
(* and three bits: no syndrome is zero, no two are equal, and no two add   *)
(* up to a third.                                                          *)
DetectsThreeBits ==
  LET All == syndromes \cup CrcField IN
  /\ {} \notin All
  /\ Cardinality(syndromes) = 8 * crc_bytes
  /\ syndromes \cap CrcField = {}
  /\ \A S, U \in All : S # U => Xor(S, U) \notin All

-----------------------------------------------------------------------------
(***************************************************************************)
(* canary.rs: a fingerprint's bits as zero-width characters behind the     *)
(* first characters of a text.  Characters are visible, or the zero-width  *)
(* space (a 0), joiner (a 1) and non-joiner.                               *)
(***************************************************************************)
CONSTANTS MAX_CANARY_BITS, MaxText

VARIABLE text   \* the message before embedding, grown a character at a time

Chars == {"visible", "zw_space", "zw_joiner", "zw_non_joiner"}
BitOf == [zw_space |-> 0, zw_joiner |-> 1]
ZeroWidth(b) == IF b = 1 THEN "zw_joiner" ELSE "zw_space"
Fingerprints == [1 .. MAX_CANARY_BITS -> {0, 1}]
NoCanary == <<>>

MarkInit == text = <<>>
MarkNext == Len(text) < MaxText /\ \E ch \in Chars : text' = Append(text, ch)

(* Mutant: the last character gets a bit too. *)
MutBitsToEmbed(chars) ==
  IF Len(chars) < MAX_CANARY_BITS THEN Len(chars) ELSE MAX_CANARY_BITS

(* bits_to_embed: never behind the last character. *)
BitsToEmbed(chars) ==
  IF Len(chars) = 0 THEN 0
  ELSE IF Len(chars) - 1 < MAX_CANARY_BITS THEN Len(chars) - 1 ELSE MAX_CANARY_BITS

EmbedCanary(chars, fingerprint) ==
  FlattenSeq([i \in 1 .. Len(chars) |->
    IF i <= BitsToEmbed(chars) THEN <<chars[i], ZeroWidth(fingerprint[i])>>
    ELSE <<chars[i]>>])

(* Mutant: a non-joiner counts as a 0. *)
MutExtracted(chars) ==
  LET bits == SelectSeq(chars, LAMBDA ch : ch # "visible") IN
  [i \in 1 .. Len(bits) |-> IF bits[i] = "zw_joiner" THEN 1 ELSE 0]

(* The bits in the order met. *)
Extracted(chars) ==
  LET bits == SelectSeq(chars, LAMBDA ch : ch \in DOMAIN BitOf) IN
  [i \in 1 .. Len(bits) |-> BitOf[bits[i]]]

(* extract_canary keeps as many bits as fit and fills up with zeros.       *)
ExtractCanary(chars) ==
  LET bits == Extracted(chars) IN
  IF bits = <<>> THEN NoCanary
  ELSE [i \in 1 .. MAX_CANARY_BITS |-> IF i <= Len(bits) THEN bits[i] ELSE 0]

VerifyLeaker(chars, expected) == ExtractCanary(chars) = expected

-----------------------------------------------------------------------------
(* canary.rs 65-142: in a text without joiners and zero-width spaces of    *)
(* its own the fingerprint is found exactly when the bits that found no    *)
(* place are zeros and at least one did; so recipients who differ only in  *)
(* those bits cannot be told apart.  A text with more characters than bits *)
(* names one recipient.                                                    *)
LeakerNamed ==
  (\A i \in 1 .. Len(text) : text[i] \notin DOMAIN BitOf) =>
    \A f \in Fingerprints :
      /\ VerifyLeaker(EmbedCanary(text, f), f)
           <=> /\ Len(text) > 1
               /\ \A i \in 1 .. MAX_CANARY_BITS : i >= Len(text) => f[i] = 0
      /\ Len(text) > MAX_CANARY_BITS =>
           \A g \in Fingerprints \ {f} : ~VerifyLeaker(EmbedCanary(text, f), g)
=============================================================================
