-------------------------------- MODULE MCWire --------------------------------
(* What travels and what makes it credible, on small sizes: the codecs and    *)
(* layers of a message, the link and the buffers under it, the shares, lists, *)
(* images and handshakes that keys come from.  They share no state, so one of *)
(* them runs in each behaviour.                                               *)
EXTENDS Naturals, Sequences

CONSTANTS Subjects,
          FullBlock, Octets, MaxInput, MAX_FRAME_SIZE, MaxFaults, N, Value,
          ENVELOPE_BLOCK_SIZE, MAX_TIMESTAMP_SKEW_MS, MaxPayload, MaxBytes,
          MAX_CANARY_BITS, MaxText, SecretBytes, Coefficients, MaxShares,
          Keys, MaxEntries, MaxReason, Images, DeviceKey, MaxVersion,
          MaxPairs, MaxReplies, MaxHandshakes

(* The second of five frames is above the limit by more than one byte.       *)
FrameLen == <<3, 6, 2, 4, 3>>

VARIABLES subject, input, payload_len,
          sending, buffer, opened, refused, faults, ring, vec, buf,
          plain_len, syndromes, crc_bytes, text, coeffs, held,
          entries, signed, installed, signatures, verdict,
          pair, made, sent, session_key, reply, shared, degraded,
          alice, responses, bobKeys, aliceKeys

Size == INSTANCE Envelope
Link == INSTANCE UartLink
Buffers == INSTANCE StaticBuffers
Formats == INSTANCE LayeredFormats
Sharing == INSTANCE Shamir
Signed == INSTANCE SignedArtifacts
NetKex == INSTANCE KeyExchange
CoreKex == INSTANCE CoreKeyExchange

ASSUME WireConstants ==
  Link!UartConstants /\ Buffers!StaticConstants

codecVars == <<input, payload_len>>
linkVars == <<sending, buffer, opened, refused, faults>>
bufferVars == <<ring, vec, buf>>
formatVars == <<plain_len, syndromes, crc_bytes>>
shareVars == <<coeffs, held>>
listVars == <<entries, signed, installed>>
firmwareVars == <<signatures, verdict>>
netKexVars == <<pair, made, sent, session_key, reply, shared, degraded>>
coreKexVars == <<alice, responses, bobKeys, aliceKeys>>

GrowPayload == payload_len < MaxPayload /\ payload_len' = payload_len + 1

Init ==
  /\ subject \in Subjects
  /\ Link!CodecInit /\ payload_len = 0 /\ Link!Init /\ Buffers!Init
  /\ Formats!Init /\ Formats!MarkInit /\ Signed!ListInit /\ Signed!FirmwareInit
  /\ NetKex!Init /\ CoreKex!Init
  /\ IF subject = "shares" THEN Sharing!Init ELSE coeffs = <<0>> /\ held = <<>>

(* The two halves of a step: what the subject does, what the others keep.    *)
TransportStep ==
  /\ UNCHANGED <<text, shareVars, listVars, firmwareVars, netKexVars, coreKexVars>>
  /\ \/ subject = "codec" /\ Link!CodecNext
        /\ UNCHANGED <<payload_len, linkVars, bufferVars, formatVars>>
     \/ subject = "sizes" /\ GrowPayload
        /\ UNCHANGED <<input, linkVars, bufferVars, formatVars>>
     \/ subject = "link" /\ Link!Next
        /\ UNCHANGED <<codecVars, bufferVars, formatVars>>
     \/ subject = "buffers" /\ Buffers!Next
        /\ UNCHANGED <<codecVars, linkVars, formatVars>>
     \/ subject = "layers" /\ Formats!Grow(MaxPayload)
        /\ UNCHANGED <<codecVars, linkVars, bufferVars>>
     \/ subject = "crc" /\ Formats!TakeByte(MaxBytes)
        /\ UNCHANGED <<codecVars, linkVars, bufferVars>>

CredentialStep ==
  /\ UNCHANGED <<codecVars, linkVars, bufferVars, formatVars>>
  /\ \/ subject = "marks" /\ Formats!MarkNext
        /\ UNCHANGED <<shareVars, listVars, firmwareVars, netKexVars, coreKexVars>>
     \/ subject = "shares" /\ Sharing!Next
        /\ UNCHANGED <<text, listVars, firmwareVars, netKexVars, coreKexVars>>
     \/ subject = "lists" /\ Signed!ListNext
        /\ UNCHANGED <<text, shareVars, firmwareVars, netKexVars, coreKexVars>>
     \/ subject = "firmware" /\ Signed!FirmwareNext
        /\ UNCHANGED <<text, shareVars, listVars, netKexVars, coreKexVars>>
     \/ subject = "net kex" /\ NetKex!Next
        /\ UNCHANGED <<text, shareVars, listVars, firmwareVars, coreKexVars>>
     \/ subject = "core kex" /\ CoreKex!Next
        /\ UNCHANGED <<text, shareVars, listVars, firmwareVars, netKexVars>>

Next == UNCHANGED subject /\ (TransportStep \/ CredentialStep)

Spec ==
  Init /\ [][Next]_<<subject, codecVars, linkVars, bufferVars, formatVars, text,
                     shareVars, listVars, firmwareVars, netKexVars, coreKexVars>>

-------------------------------------------------------------------------------
(* The types of the parts that keep state between calls.                     *)
TypesOK ==
  Link!TypeOK /\ Buffers!TypeOK /\ Formats!TypeOK /\ CoreKex!TypeOK

(* A message survives every layer whose limits it meets and is refused by    *)
(* the layer whose limits it does not, a damaged packet is noticed, and a    *)
(* fingerprint is read back.                                                 *)
CodecsExact ==
  /\ Link!CodecIsExact /\ Size!EnvelopeFits(payload_len)
  /\ Formats!LayersRestore /\ Formats!DetectsThreeBits /\ Formats!LeakerNamed

(* Enough shares give the secret, a signed list installs whole, a booted     *)
(* image was signed with the device's key, and the two parties of a          *)
(* handshake that were told each other's ids derive the same keys, with      *)
(* handshakes crossing, reflected, repeated and answered twice.              *)
CredentialsExact ==
  /\ Sharing!EnoughSharesReconstruct
  /\ Signed!SignedListsInstall /\ Signed!BootedIsSigned
  /\ NetKex!KexAgreement /\ NetKex!HybridAgreement /\ CoreKex!SessionsAgree

(* A damaged byte costs the frame it is in and at most the next, and a       *)
(* popped, truncated or cleared cell keeps no secret.                        *)
LinkExact == Link!LossIsLocal /\ Buffers!NothingLingers

(* The ring is a bounded queue.                                              *)
RingIsQueue == Buffers!RingIsQueue

(* What cobs.rs 86 says of every input: the round trip.                      *)
RoundTrip == Link!RoundTrip
===============================================================================
