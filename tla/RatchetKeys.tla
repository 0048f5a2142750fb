---------------------------- MODULE RatchetKeys ----------------------------
(***************************************************************************)
(* The key material of the two Double Ratchet implementations, in symbolic *)
(* form: a key is the term that derives it, so two keys are equal exactly  *)
(* when they were derived in the same way from the same secrets.           *)
(***************************************************************************)
EXTENDS Naturals, Sequences, FiniteSets

Alice == "alice"
Bob   == "bob"
Party == {Alice, Bob}
Other(p) == CHOOSE q \in Party : q # p

(* The n-th X25519 key pair a party generates; pairs are never reused. *)
KeyPair(p, n) == <<p, n>>
NoKey == <<>>

(* The Diffie-Hellman secret of two pairs, the same from either side. *)
DH(pair, other) == {pair, other}

(* kdf_rk mixes one DH secret into the root, and yields a chain that       *)
(* depends on the same inputs: the chain is named by the new root.         *)
KdfRk(root, dh) == Append(root, dh)

(* A chain: the root it came from and the number of keys derived so far.   *)
NewChain(root) == [root |-> root, n |-> 0]
NoChain == [root |-> <<>>, n |-> 0]

(* The key of message n of a chain. *)
MessageKey(chain, n) == <<chain.root, n>>

(* The message keys that follow from what the endpoint r holds: from its   *)
(* cache, from its two chains, or from its root key, which is an ancestor  *)
(* of every chain whose root extends it.                                   *)
Derivable(key, r) ==
  \/ \E e \in r.skipped : e[3] = key
  \/ \E chain \in {r.send_chain, r.recv_chain} :
       chain # NoChain /\ chain.root = key[1] /\ chain.n <= key[2]
  \/ /\ Len(r.root_key) < Len(key[1])
     /\ r.root_key = SubSeq(key[1], 1, Len(r.root_key))
=============================================================================
