--------------------------- MODULE CoreKeyExchange --------------------------
(***************************************************************************)
(* key_exchange.rs of hidra_core: X25519 and Kyber-768 in one message each *)
(* way.  Secrets are terms over the numbers of the handshakes: equal terms *)
(* are equal keys.  Kyber rejects implicitly, so a ciphertext for another  *)
(* key gives a secret nobody else has instead of an error.                 *)
(***************************************************************************)
EXTENDS Naturals, Sequences, FiniteSets

CONSTANT MaxHandshakes   \* bound: handshakes begun, and responses given

VARIABLES
  alice,      \* per handshake: not begun, waiting with its secrets, or consumed
  responses,  \* Bob's responses: the init each answers, in order
  bobKeys,    \* per response the session keys Bob derived
  aliceKeys   \* per handshake the keys Alice derived and the response used

coreKexVars == <<alice, responses, bobKeys, aliceKeys>>

Handshakes == 1 .. MaxHandshakes
Layers == {"layer1_key", "layer3_key", "ratchet_root"}
NoKeys == <<>>

Init ==
  /\ alice = [h \in Handshakes |-> "none"] /\ responses = <<>>
  /\ bobKeys = <<>> /\ aliceKeys = [h \in Handshakes |-> NoKeys]

(* new and get_init_message *)
Begin(h) ==
  /\ alice[h] = "none"
  /\ alice' = [alice EXCEPT ![h] = "waiting"]
  /\ UNCHANGED <<responses, bobKeys, aliceKeys>>

(* Mutant: the three keys are expanded under one label. *)
MutDerive(x25519_ss, kyber_ss) == [layer \in Layers |-> <<x25519_ss, kyber_ss>>]

(* derive_session_keys: a label for each layer. *)
DeriveSessionKeys(x25519_ss, kyber_ss) ==
  [layer \in Layers |-> <<layer, x25519_ss, kyber_ss>>]

(* respond, to an init seen before as well: fresh keys each time. *)
Respond(h) ==
  /\ alice[h] # "none" /\ Len(responses) < MaxHandshakes
  /\ LET r == Len(responses) + 1 IN
     bobKeys' = Append(bobKeys, DeriveSessionKeys({<<"alice", h>>, <<"bob", r>>}, <<"kyber", h, r>>))
  /\ responses' = Append(responses, h)
  /\ UNCHANGED <<alice, aliceKeys>>

Decapsulate(h, r) ==
  IF responses[r] = h THEN <<"kyber", h, r>> ELSE <<"rejected", h, r>>

(* complete consumes the handshake, also when a ciphertext does not parse. *)
Complete(h, r) ==
  /\ alice[h] = "waiting" /\ r \in 1 .. Len(responses)
  /\ alice' = [alice EXCEPT ![h] = "consumed"]
  /\ aliceKeys' = [aliceKeys EXCEPT ![h] =
       [of |-> r, keys |-> DeriveSessionKeys({<<"alice", h>>, <<"bob", r>>}, Decapsulate(h, r))]]
  /\ UNCHANGED <<responses, bobKeys>>

CompleteFails(h) ==
  /\ alice[h] = "waiting"
  /\ alice' = [alice EXCEPT ![h] = "consumed"]
  /\ UNCHANGED <<responses, bobKeys, aliceKeys>>

Next ==
  \E h \in Handshakes :
    \/ Begin(h) \/ Respond(h) \/ CompleteFails(h)
    \/ \E r \in 1 .. Len(responses) : Complete(h, r)

-----------------------------------------------------------------------------
TypeOK ==
  /\ alice \in [Handshakes -> {"none", "waiting", "consumed"}]
  /\ Len(responses) <= MaxHandshakes /\ Len(bobKeys) = Len(responses)

(* key_exchange.rs 98-196: the two sides hold the same keys exactly when   *)
(* Alice completed with a response to this handshake; no two handshakes,   *)
(* no two responses and no two layers share a key.                         *)
SessionsAgree ==
  /\ \A h \in Handshakes : aliceKeys[h] # NoKeys =>
       LET r == aliceKeys[h].of IN
       (aliceKeys[h].keys = bobKeys[r]) <=> responses[r] = h
  /\ \A h \in Handshakes, r \in 1 .. Len(bobKeys), k, l \in Layers :
       aliceKeys[h] # NoKeys /\ aliceKeys[h].keys[k] = bobKeys[r][l]
         => k = l /\ r = aliceKeys[h].of
  /\ \A r, s \in 1 .. Len(bobKeys), k, l \in Layers :
       bobKeys[r][k] = bobKeys[s][l] => r = s /\ k = l
=============================================================================
