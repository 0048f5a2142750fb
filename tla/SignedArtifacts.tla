--------------------------- MODULE SignedArtifacts ---------------------------
(***************************************************************************)
(* What is signed once and verified elsewhere: the revocation lists of     *)
(* revocation.rs, which an authority appends to and signs, and which reach *)
(* a device in any order, and the images of secure_boot.rs, which a maker  *)
(* signs under the device key with a header of which only the version is   *)
(* under the signature.  A list carries no version.  HMACs are             *)
(* unforgeable: what verifies was signed.                                  *)
(***************************************************************************)
EXTENDS Naturals, Sequences

CONSTANTS Keys,         \* of the entries of a list, and of the makers
          MaxEntries,   \* 256
          MaxReason,    \* 28
          Images, DeviceKey, MaxVersion

VARIABLES
  entries,      \* the authority's list: pubkey_hash and the reason's length
  signed,       \* the lengths of the lists it signed; lists only grow
  installed,    \* how many entries of it the device has, None before any
  signatures,   \* history: the images signed: key, version, image
  verdict       \* the last verification: header, image and result

None == MaxEntries + 1

ENTRY_SIZE == 72
HMAC_SIZE == 32

ListInit == entries = <<>> /\ signed = {} /\ installed = None

Add(k, reason_len) ==
  /\ Len(entries) < MaxEntries
  /\ reason_len <= MaxReason
  /\ entries' = Append(entries, [pubkey_hash |-> k, reason |-> reason_len])
  /\ UNCHANGED <<signed, installed>>

(* to_bytes then from_bytes: the reason is cut to what fits the entry. *)
EntryOf(e) == [e EXCEPT !.reason = IF @ < MaxReason THEN @ ELSE MaxReason]

SignedSize(n) == 4 + 4 + n * ENTRY_SIZE + HMAC_SIZE

SerializeAndSign ==
  /\ signed' = signed \cup {Len(entries)}
  /\ UNCHANGED <<entries, installed>>

(* Mutant: the limit is one entry lower than the one of add. *)
MutVerifies(n) == SignedSize(n) >= 40 /\ n < MaxEntries

(* verify_and_deserialize on an authentic list of n entries. *)
Verifies(n) == SignedSize(n) >= 40 /\ n <= MaxEntries

Install(n) ==
  /\ n \in signed /\ Verifies(n)
  /\ installed' = n
  /\ UNCHANGED <<entries, signed>>

(* An altered, cut or foreign list fails its HMAC. *)
ListNext ==
  \/ \E k \in Keys, r \in {0, MaxReason, MaxReason + 1} : Add(k, r)
  \/ SerializeAndSign
  \/ \E n \in 0 .. MaxEntries : Install(n)

DeviceList == IF installed = None THEN <<>>
              ELSE [i \in 1 .. installed |-> EntryOf(entries[i])]

IsRevoked(k) == \E i \in 1 .. Len(DeviceList) : DeviceList[i].pubkey_hash = k

(* What the authority can sign a device can install, up to the last entry, *)
(* and gets entry for entry; a device never takes a key for revoked that   *)
(* the authority has not revoked.  It may install an older list after a    *)
(* newer one, and then a revoked key counts as good again                  *)
(* (revocation.rs 80-181).                                                 *)
SignedListsInstall ==
  /\ \A n \in signed : Verifies(n)
  /\ \A i \in 1 .. Len(DeviceList) : DeviceList[i] = entries[i]
  /\ \A k \in Keys : IsRevoked(k) => \E i \in 1 .. Len(entries) : entries[i].pubkey_hash = k

------------------------------------------------------------------------------
Versions == 0 .. MaxVersion
Unverified == [result |-> "None"]

FirmwareInit == signatures = {} /\ verdict = Unverified

SignFirmware(key, version, image) ==
  /\ signatures' = signatures \cup {[key |-> key, version |-> version, image |-> image]}
  /\ UNCHANGED verdict

(* Mutant: the version is not under the signature. *)
MutMacMatches(sig, version, image) == sig.key = DeviceKey /\ sig.image = image

(* verify_slice: the signature is the MAC of this version and image. *)
MacMatches(sig, version, image) ==
  sig = [key |-> DeviceKey, version |-> version, image |-> image]

(* Mutant: an image below the minimum goes on to the signature. *)
MutRollback(version, min_version) == FALSE

Rollback(version, min_version) == version < min_version

(* verify_firmware: the checks in this order.  The signature comes with    *)
(* the header, from anything signed so far.                                *)
VerifyFirmware(version, min_version, image, sig) ==
  /\ verdict' = [version |-> version, min_version |-> min_version, image |-> image,
                 result |-> IF Rollback(version, min_version) THEN "RollbackDetected"
                            ELSE IF MacMatches(sig, version, image) THEN "Ok"
                            ELSE "SignatureInvalid"]
  /\ UNCHANGED signatures

FirmwareNext ==
  \/ \E key \in Keys, version \in Versions, image \in Images :
       SignFirmware(key, version, image)
  \/ \E version, min_version \in Versions, image \in Images, sig \in signatures :
       VerifyFirmware(version, min_version, image, sig)

(* secure_boot.rs 31-66: an image that passes was signed under the device  *)
(* key for just the version it claims, which is not below the minimum the  *)
(* header names.                                                           *)
BootedIsSigned ==
  verdict.result = "Ok" =>
    /\ [key |-> DeviceKey, version |-> verdict.version, image |-> verdict.image]
         \in signatures
    /\ verdict.version >= verdict.min_version
==============================================================================
