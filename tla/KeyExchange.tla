---------------------------- MODULE KeyExchange -----------------------------
(***************************************************************************)
(* The two key exchanges of hidra_net: the one in an envelope under a      *)
(* pre-shared key (key_exchange.rs), where process_kex_envelope consumes   *)
(* the key pair whatever comes of it, and the hybrid one (pqc_hybrid.rs).  *)
(* Keys are terms: equal terms are equal keys, and distinct ones differ.   *)
(***************************************************************************)
EXTENDS Naturals, FiniteSets, Sequences

CONSTANTS
  MaxPairs,      \* bound: key pairs each party generates
  MaxReplies     \* bound: bundles the responder processes

Party == {"Alice", "Bob"}
None == <<>>

VARIABLES
  pair,         \* per party, its key pair and nonce: a number, 0 without
  made,         \* per party, the key pairs generated so far
  sent,         \* the envelopes on the network: sender and number
  session_key,  \* per party, the last result: the key and the id that came with it
  reply,        \* the replies of the responder: number and Kyber or not
  shared,       \* per party, its hybrid secret
  degraded      \* history: the parties that went on without Kyber

kexVars == <<pair, made, sent, session_key>>
pqcVars == <<reply, shared, degraded>>

KexInit ==
  /\ pair = [p \in Party |-> 0] /\ made = [p \in Party |-> 0]
  /\ sent = {} /\ session_key = [p \in Party |-> None]
PqcInit == reply = {} /\ shared = [p \in Party |-> None] /\ degraded = {}

-----------------------------------------------------------------------------
(* generate_keypair and create_kex_envelope *)
CreateKexEnvelope(p) ==
  /\ made[p] < MaxPairs
  /\ made' = [made EXCEPT ![p] = @ + 1]
  /\ pair' = [pair EXCEPT ![p] = made[p] + 1]
  /\ sent' = sent \cup {<<p, made[p] + 1>>}
  /\ UNCHANGED session_key

(* Mutant: the nonces are not sorted. *)
MutSessionKey(ours, theirs) == [dh |-> {ours, theirs}, salt |-> <<ours, theirs>>]

(* derive_session_key: the Diffie-Hellman secret of the two pairs, and as  *)
(* salt the two nonces sorted, hence the same on both sides.               *)
SessionKey(ours, theirs) == [dh |-> {ours, theirs}, salt |-> {ours, theirs}]

(* Any envelope under the pre-shared key will do: nothing compares the      *)
(* sender, which the caller is told, so that a party's own envelope coming  *)
(* back makes a key the party shares with nobody.                           *)
ProcessKexEnvelope(p, q, n) ==
  /\ pair[p] # 0 /\ <<q, n>> \in sent
  /\ session_key' =
       [session_key EXCEPT ![p] = [key |-> SessionKey(<<p, pair[p]>>, <<q, n>>), from |-> q]]
  /\ pair' = [pair EXCEPT ![p] = 0]
  /\ UNCHANGED <<made, sent>>

(* Opening or parsing fails, or the type is another: the pair was moved    *)
(* into the call and is gone.                                              *)
ProcessFails(p) ==
  /\ pair[p] # 0
  /\ pair' = [pair EXCEPT ![p] = 0]
  /\ UNCHANGED <<made, sent, session_key>>

KexNext ==
  \/ \E p \in Party : CreateKexEnvelope(p) \/ ProcessFails(p)
  \/ \E p \in Party, q \in Party, n \in 1 .. MaxPairs : ProcessKexEnvelope(p, q, n)

-----------------------------------------------------------------------------
(* combine_secrets; without Kyber x25519_only_exchange.                    *)
Combined(n) == <<"x25519", n, "kyber", n>>
X25519Only(n) == <<"x25519", n>>

(* responder_process on the bundle: a fresh pair and a fresh encapsulation *)
(* each time, so a bundle processed again makes another secret.            *)
ResponderProcess ==
  /\ Cardinality(reply) < MaxReplies
  /\ LET n == Cardinality(reply) + 1 IN
     /\ reply' = reply \cup {n}
     /\ shared' = [shared EXCEPT !["Bob"] = Combined(n)]
  /\ UNCHANGED degraded

(* Mutant: the initiator leaves the ciphertext aside. *)
MutInitiatorFinish(n) ==
  /\ n \in reply /\ shared' = [shared EXCEPT !["Alice"] = X25519Only(n)]
  /\ UNCHANGED <<reply, degraded>>

InitiatorFinish(n) ==
  /\ n \in reply
  /\ shared' = [shared EXCEPT !["Alice"] = Combined(n)]
  /\ UNCHANGED <<reply, degraded>>

(* Either side degrades on its own when its Kyber calls fail. *)
Degrade(p, n) ==
  /\ n \in reply
  /\ shared' = [shared EXCEPT ![p] = X25519Only(n)]
  /\ degraded' = degraded \cup {p}
  /\ UNCHANGED reply

PqcNext ==
  \/ ResponderProcess
  \/ \E n \in 1 .. MaxReplies : InitiatorFinish(n)
  \/ \E p \in Party, n \in 1 .. MaxReplies : Degrade(p, n)

Init == KexInit /\ PqcInit
Next == (KexNext /\ UNCHANGED pqcVars) \/ (PqcNext /\ UNCHANGED kexVars)
Spec == Init /\ [][Next]_<<kexVars, pqcVars>>

-----------------------------------------------------------------------------
(* Two parties that generated one pair each and both derived a key hold    *)
(* the same one exactly if each was told the other's id with it, in        *)
(* whatever order the envelopes crossed: one whose own envelope came back  *)
(* holds another key, and only the id says so.  With a second pair, after  *)
(* a failure, they may hold different keys and neither notices             *)
(* (key_exchange.rs 82-109, 162-184).                                      *)
KexAgreement ==
  LET a == session_key["Alice"]
      b == session_key["Bob"]
  IN (\A p \in Party : made[p] <= 1 /\ session_key[p] # None)
       => (a.key = b.key <=> a.from = "Bob" /\ b.from = "Alice")

(* The hybrid secrets agree as long as the responder processed the bundle  *)
(* once and neither side degraded on its own; and whenever they agree both *)
(* degraded or both used Kyber on the same reply (pqc_hybrid.rs 110-208).  *)
HybridAgreement ==
  LET a == shared["Alice"]
      b == shared["Bob"]
  IN a # None /\ b # None =>
       /\ Cardinality(reply) = 1 /\ degraded = {} => a = b
       /\ a = b /\ Len(a) = 2 => degraded = Party
=============================================================================
