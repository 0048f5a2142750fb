--------------------------- MODULE RatchetSession ---------------------------
(***************************************************************************)
(* Two RatchetSession endpoints of hidra_net/src/double_ratchet.rs over a  *)
(* network that reorders, loses and duplicates.  Unlike DoubleRatchet of   *)
(* hidra_core, decrypt opens the ciphertext itself: a wrong key shows as   *)
(* DecryptionFailed, after the session has already moved.                  *)
(***************************************************************************)
EXTENDS RatchetKeys

CONSTANTS
  MaxMessages,   \* bound: messages encrypted by both parties together
  MaxCopies,     \* bound: how often the network delivers one message
  MaxSkip        \* MAX_SKIP (100)

ConstantsOK ==
  MaxMessages \in Nat /\ MaxCopies \in Nat /\ MaxSkip \in Nat

VARIABLES
  session,     \* the RatchetSession of each party
  sealed,      \* every message encrypted: sender, header and message key
  delivered,   \* how many copies of each message the network delivered
  opened,      \* history: how often decrypt returned a message's plaintext
  failed,      \* history: messages whose first copy did not open although
               \*          the skip limit was kept
  burnt        \* history: per party, the keys it has used up

vars == <<session, sealed, delivered, opened, failed, burnt>>

Messages == 1 .. MaxMessages

InitAlice ==
  LET root == KdfRk(<<>>, DH(KeyPair(Alice, 0), KeyPair(Bob, 0)))
  IN [root_key |-> root, send_chain |-> NewChain(root), recv_chain |-> NoChain,
      our_dh |-> KeyPair(Alice, 0), peer_dh |-> KeyPair(Bob, 0),
      prev |-> 0, skipped |-> {}]

InitBob ==
  [root_key |-> <<>>, send_chain |-> NoChain, recv_chain |-> NoChain,
   our_dh |-> KeyPair(Bob, 0), peer_dh |-> NoKey, prev |-> 0, skipped |-> {}]

Init ==
  /\ session = [p \in Party |-> IF p = Alice THEN InitAlice ELSE InitBob]
  /\ sealed = <<>>
  /\ delivered = [i \in Messages |-> 0]
  /\ opened = [i \in Messages |-> 0]
  /\ failed = {}
  /\ burnt = [p \in Party |-> {}]

(* Mutant: the chain key is not replaced after the key was derived. *)
MutEncryptNoAdvance(p) ==
  LET s == session[p]
      key == MessageKey(s.send_chain, s.send_chain.n)
      header == [dh |-> s.our_dh, prev |-> s.prev, n |-> s.send_chain.n]
  IN /\ Len(sealed) < MaxMessages
     /\ s.send_chain # NoChain
     /\ sealed' = Append(sealed, [from |-> p, header |-> header, key |-> key])
     /\ UNCHANGED <<session, delivered, opened, failed, burnt>>

(* encrypt; it panics before the first DH ratchet of the responder. *)
Encrypt(p) ==
  LET s == session[p]
      key == MessageKey(s.send_chain, s.send_chain.n)
      header == [dh |-> s.our_dh, prev |-> s.prev, n |-> s.send_chain.n]
  IN /\ Len(sealed) < MaxMessages
     /\ s.send_chain # NoChain
     /\ session' = [session EXCEPT ![p].send_chain.n = @ + 1]
     /\ sealed' = Append(sealed, [from |-> p, header |-> header, key |-> key])
     /\ burnt' = [burnt EXCEPT ![p] = @ \cup {key}]
     /\ UNCHANGED <<delivered, opened, failed>>

-----------------------------------------------------------------------------
(* decrypt *)

TooFar(s, until) ==
  s.recv_chain # NoChain /\ until > s.recv_chain.n /\ until - s.recv_chain.n > MaxSkip

(* Mutant: the keys are stored under the number after their own. *)
MutSkippedOffByOne(s, until) ==
  LET chain   == s.recv_chain
      numbers == IF chain = NoChain THEN {} ELSE chain.n .. until - 1
  IN [s EXCEPT !.recv_chain.n = @ + Cardinality(numbers),
               !.skipped = @ \cup
                 {<<s.peer_dh, n + 1, MessageKey(chain, n)>> : n \in numbers}]

(* skip_message_keys, within its limit: nothing is ever evicted.           *)
Skipped(s, until) ==
  LET chain   == s.recv_chain
      numbers == IF chain = NoChain THEN {} ELSE chain.n .. until - 1
  IN [s EXCEPT !.recv_chain.n = @ + Cardinality(numbers),
               !.skipped =
                 {e \in @ : e[1] # s.peer_dh \/ e[2] \notin numbers} \cup
                 {<<s.peer_dh, n, MessageKey(chain, n)>> : n \in numbers}]

(* Mutant: the two public keys are stored the wrong way round. *)
MutDhRatchetSwapped(p, s, dh) ==
  LET recv_root == KdfRk(s.root_key, DH(s.our_dh, dh))
      ours      == KeyPair(p, s.our_dh[2] + 1)
      send_root == KdfRk(recv_root, DH(ours, dh))
  IN [s EXCEPT !.root_key = send_root, !.prev = s.send_chain.n,
               !.recv_chain = NewChain(recv_root), !.send_chain = NewChain(send_root),
               !.our_dh = dh, !.peer_dh = ours]

(* dh_ratchet: a receiving chain from the old pair, a sending chain from a *)
(* fresh one.                                                              *)
DhRatchet(p, s, dh) ==
  LET recv_root == KdfRk(s.root_key, DH(s.our_dh, dh))
      ours      == KeyPair(p, s.our_dh[2] + 1)
      send_root == KdfRk(recv_root, DH(ours, dh))
  IN [s EXCEPT !.root_key = send_root, !.prev = s.send_chain.n,
               !.recv_chain = NewChain(recv_root), !.send_chain = NewChain(send_root),
               !.our_dh = ours, !.peer_dh = dh]

Cached(s, h) == {e \in s.skipped : e[1] = h.dh /\ e[2] = h.n}

(* decrypt_message: the AEAD opens under the message's own key only.       *)
TryToOpen(i, p, key) ==
  /\ opened' = [opened EXCEPT ![i] = @ + (IF key = sealed[i].key THEN 1 ELSE 0)]
  /\ failed' = IF key # sealed[i].key /\ delivered[i] = 0 THEN failed \cup {i}
                                                          ELSE failed
  /\ burnt' = [burnt EXCEPT ![p] = @ \cup {key}]

(* TooManySkipped: an answer the limit accounts for. *)
TooManySkipped == UNCHANGED <<opened, failed, burnt>>

(* Mutant: the key is read from the cache and stays there. *)
MutDecryptKeepsCached(i, p, s, h) ==
  \E e \in Cached(s, h) : TryToOpen(i, p, e[3]) /\ UNCHANGED session

(* 1. The key was cached: it leaves the cache before it is tried. *)
DecryptFromCache(i, p, s, h) ==
  \E e \in Cached(s, h) :
    /\ session' = [session EXCEPT ![p].skipped = @ \ {e}]
    /\ TryToOpen(i, p, e[3])

(* 4. The next key of the chain is derived, whatever the message's number: *)
(* a number behind the chain is not looked at.                             *)
DecryptOnChain(i, p, s, h) ==
  LET reached == Skipped(s, h.n)
  IN IF TooFar(s, h.n)
     THEN /\ session' = [session EXCEPT ![p] = s]
          /\ TooManySkipped
     ELSE /\ session' = [session EXCEPT ![p] = [reached EXCEPT !.recv_chain.n = @ + 1]]
          /\ TryToOpen(i, p, MessageKey(reached.recv_chain, reached.recv_chain.n))

DecryptSameKey(i, p, s, h) ==
  /\ Cached(s, h) = {} /\ s.peer_dh = h.dh /\ s.recv_chain # NoChain
  /\ DecryptOnChain(i, p, s, h)

(* 2. A new public key: first the old receiving chain is completed ... *)
TooManySkippedOnOldChain(i, p, s, h) ==
  /\ Cached(s, h) = {} /\ s.peer_dh # h.dh
  /\ s.peer_dh # NoKey /\ TooFar(s, h.prev)
  /\ TooManySkipped /\ UNCHANGED session

(* ... then the DH ratchet turns, and stays turned if step 3 or 4 fails.   *)
DecryptNewKey(i, p, s, h) ==
  LET old == IF s.peer_dh = NoKey THEN s ELSE Skipped(s, h.prev)
  IN /\ Cached(s, h) = {} /\ s.peer_dh # h.dh
     /\ ~(s.peer_dh # NoKey /\ TooFar(s, h.prev))
     /\ DecryptOnChain(i, p, DhRatchet(p, old, h.dh), h)

(* A copy of message i reaches its addressee. *)
Decrypt(i) ==
  LET p == Other(sealed[i].from)
      s == session[p]
      h == sealed[i].header
  IN /\ delivered[i] < MaxCopies
     /\ delivered' = [delivered EXCEPT ![i] = @ + 1]
     /\ \/ DecryptFromCache(i, p, s, h)
        \/ DecryptSameKey(i, p, s, h)
        \/ TooManySkippedOnOldChain(i, p, s, h)
        \/ DecryptNewKey(i, p, s, h)
     /\ UNCHANGED sealed

Next == \/ \E p \in Party : Encrypt(p)
        \/ \E i \in 1 .. Len(sealed) : Decrypt(i)

Spec == Init /\ [][Next]_vars

-----------------------------------------------------------------------------

TypeOK ==
  /\ \A p \in Party :
       /\ session[p].our_dh \in {p} \X Nat
       /\ session[p].peer_dh \in {NoKey} \cup {Other(p)} \X Nat
  /\ Len(sealed) <= MaxMessages
  /\ delivered \in [Messages -> 0 .. MaxCopies]
  /\ opened \in [Messages -> Nat]
  /\ failed \subseteq Messages

(* As long as the network duplicates nothing, every message within the     *)
(* skip limit is opened, in whatever order the messages of both directions *)
(* arrive and whatever was refused as too far before.                      *)
FirstCopiesOpen == (\A i \in Messages : delivered[i] <= 1) => failed = {}

(* A duplicate is rejected without harm to other messages: what the test   *)
(* t7_duplicate_message_rejected and the error DuplicateMessage stand for. *)
DuplicatesDoNoHarm == failed = {}

(* Every message is sealed under a key of its own. *)
FreshKeys ==
  \A i, j \in 1 .. Len(sealed) : i # j => sealed[i].key # sealed[j].key

(* Forward secrecy: no key a session has used can be derived from what it  *)
(* still holds.                                                            *)
ForwardSecrecy ==
  \A p \in Party : \A key \in burnt[p] : ~Derivable(key, session[p])

(* The plaintext of a message is handed out at most once. *)
Filter == INSTANCE AtMostOnce WITH Id <- Messages, honoured <- opened
ImplementsAtMostOnce == Filter!Spec
=============================================================================
