--------------------------- MODULE DoubleRatchet ---------------------------
(***************************************************************************)
(* Two DoubleRatchet endpoints of hidra_core/src/ratchet.rs, Alice the     *)
(* initiator and Bob the responder, over a network that delivers each      *)
(* message late, never, or up to MaxCopies times, in any order.            *)
(***************************************************************************)
EXTENDS RatchetKeys

CONSTANTS
  MaxMessages,   \* bound: messages encrypted by both parties together
  MaxCopies,     \* bound: how often the network delivers one message
  MaxSkip,       \* RatchetState::max_skip (100)
  MaxCache,      \* MAX_SKIPPED_KEY_CACHE (256)
  MaxChain       \* MAX_MESSAGES_PER_CHAIN (200)

ConstantsOK ==
  /\ MaxMessages \in Nat /\ MaxCopies \in Nat /\ MaxSkip \in Nat
  /\ MaxCache \in Nat \ {0} /\ MaxChain \in Nat \ {0}

VARIABLES
  ratchet,     \* the DoubleRatchet of each party
  sealed,      \* every message encrypted: sender, header and message key
  delivered,   \* how many copies of each message the network delivered
  returned,    \* history: <<message, key>> for every key decrypt returned
  opened,      \* history: how often decrypt returned a message's own key
  refused,     \* history: the messages some delivery of which was refused
  burnt        \* history: per party, the keys it has used up

vars == <<ratchet, sealed, delivered, returned, opened, refused, burnt>>

Messages == 1 .. MaxMessages

(* init_alice: the first DH is with Bob's shared public key. *)
InitAlice ==
  LET root == KdfRk(<<>>, DH(KeyPair(Alice, 0), KeyPair(Bob, 0)))
  IN [root_key |-> root, send_chain |-> NewChain(root), recv_chain |-> NoChain,
      dh_self |-> KeyPair(Alice, 0), dh_peer |-> KeyPair(Bob, 0),
      prev |-> 0, count |-> 0, skipped |-> {}]

(* init_bob: no chain before Alice's first header arrives. *)
InitBob ==
  [root_key |-> <<>>, send_chain |-> NoChain, recv_chain |-> NoChain,
   dh_self |-> KeyPair(Bob, 0), dh_peer |-> NoKey,
   prev |-> 0, count |-> 0, skipped |-> {}]

Init ==
  /\ ratchet = [p \in Party |-> IF p = Alice THEN InitAlice ELSE InitBob]
  /\ sealed = <<>>
  /\ delivered = [i \in Messages |-> 0]
  /\ returned = {}
  /\ opened = [i \in Messages |-> 0]
  /\ refused = {}
  /\ burnt = [p \in Party |-> {}]

(* Mutants: the counter of the chain is not reset; the chain is restarted  *)
(* from its old key.                                                       *)
MutStepKeepsCount(p, r) ==
  LET self == KeyPair(p, r.dh_self[2] + 1)
      root == KdfRk(r.root_key, DH(self, r.dh_peer))
  IN [r EXCEPT !.prev = r.send_chain.n, !.dh_self = self, !.root_key = root,
               !.send_chain = NewChain(root)]
MutStepRestartsChain(p, r) ==
  [r EXCEPT !.prev = r.send_chain.n, !.count = 0,
            !.dh_self = KeyPair(p, r.dh_self[2] + 1),
            !.send_chain = NewChain(r.send_chain.root)]

(* dh_ratchet_step: a fresh pair, a new root, a new sending chain. *)
DhRatchetStep(p, r) ==
  LET self == KeyPair(p, r.dh_self[2] + 1)
      root == KdfRk(r.root_key, DH(self, r.dh_peer))
  IN [r EXCEPT !.prev = r.send_chain.n, !.dh_self = self, !.root_key = root,
               !.send_chain = NewChain(root), !.count = 0]

(* ratchet_encrypt; without a peer key there is no sending chain either,   *)
(* and the call fails and changes nothing.                                 *)
Encrypt(p) ==
  LET r == IF ratchet[p].count >= MaxChain THEN DhRatchetStep(p, ratchet[p])
                                           ELSE ratchet[p]
      key == MessageKey(r.send_chain, r.send_chain.n)
      header == [dh |-> r.dh_self, prev |-> r.prev, n |-> r.send_chain.n]
  IN /\ Len(sealed) < MaxMessages
     /\ ratchet[p].dh_peer # NoKey
     /\ ratchet' = [ratchet EXCEPT ![p] = [r EXCEPT !.send_chain.n = @ + 1,
                                                    !.count = @ + 1]]
     /\ sealed' = Append(sealed, [from |-> p, header |-> header, key |-> key])
     /\ burnt' = [burnt EXCEPT ![p] = @ \cup {key}]
     /\ UNCHANGED <<delivered, returned, opened, refused>>

-----------------------------------------------------------------------------
(* ratchet_decrypt *)

(* Entries of the skipped key cache are <<dh, number, key>>.  Inserting    *)
(* into a full cache first evicts an entry of the smallest number; entries *)
(* of equal number are met in the arbitrary order of the HashMap.          *)
Inserted(cache, dh, n, key) ==
  LET victims == {e \in cache : \A f \in cache : e[2] <= f[2]}
      rooms   == IF Cardinality(cache) >= MaxCache
                 THEN {cache \ {e} : e \in victims}
                 ELSE {cache}
  IN {{e \in room : e[1] # dh \/ e[2] # n} \cup {<<dh, n, key>>} : room \in rooms}

(* The caches that may result from skipping the chain up to a number.      *)
Skip(cache, chain, dh, until) ==
  LET after[n \in chain.n .. until] ==
        IF n = chain.n THEN {cache}
        ELSE UNION {Inserted(c, dh, n - 1, MessageKey(chain, n - 1)) : c \in after[n - 1]}
  IN IF until <= chain.n THEN {cache} ELSE after[until]

(* Mutant: the limit itself already counts as too far. *)
MutTooFarOffByOne(chain, until) == until > chain.n /\ until - chain.n >= MaxSkip

TooFar(chain, until) == until > chain.n /\ until - chain.n > MaxSkip

NewDhKey(r, h) == r.dh_peer # h.dh

Cached(r, h) == {e \in r.skipped : e[1] = h.dh /\ e[2] = h.n}

(* Mutant: the second DH step does not replace the root key. *)
MutDhRatchetKeepsRoot(p, r, h, cache) ==
  LET recv_root == KdfRk(r.root_key, DH(r.dh_self, h.dh))
      self      == KeyPair(p, r.dh_self[2] + 1)
  IN [root_key |-> recv_root,
      send_chain |-> NewChain(KdfRk(recv_root, DH(self, h.dh))),
      recv_chain |-> NewChain(recv_root),
      dh_self |-> self, dh_peer |-> h.dh,
      prev |-> r.send_chain.n, count |-> 0, skipped |-> cache]

(* The DH ratchet of a decryption: a receiving chain from the old pair, a  *)
(* sending chain from a fresh one.                                         *)
DhRatchet(p, r, h, cache) ==
  LET recv_root == KdfRk(r.root_key, DH(r.dh_self, h.dh))
      self      == KeyPair(p, r.dh_self[2] + 1)
      send_root == KdfRk(recv_root, DH(self, h.dh))
  IN [root_key |-> send_root,
      send_chain |-> NewChain(send_root), recv_chain |-> NewChain(recv_root),
      dh_self |-> self, dh_peer |-> h.dh,
      prev |-> r.send_chain.n, count |-> 0, skipped |-> cache]

(* Skip to the message on the receiving chain, and advance past it. *)
OpenedOnChain(r, h, cache) ==
  [r EXCEPT !.recv_chain.n = h.n + 1, !.skipped = cache]

Return(i, p, key) ==
  /\ returned' = returned \cup {<<i, key>>}
  /\ opened' = [opened EXCEPT ![i] = @ + (IF key = sealed[i].key THEN 1 ELSE 0)]
  /\ burnt' = [burnt EXCEPT ![p] = @ \cup {key}]
  /\ UNCHANGED refused

Refuse(i) ==
  /\ refused' = refused \cup {i}
  /\ UNCHANGED <<returned, opened, burnt>>

(* Mutant: the key is read from the cache and stays there. *)
MutOpenKeepsCached(i, p, r, h) ==
  \E e \in Cached(r, h) : Return(i, p, e[3]) /\ UNCHANGED ratchet

(* 1. The key was cached: it leaves the cache for good. *)
OpenFromCache(i, p, r, h) ==
  \E e \in Cached(r, h) :
    /\ ratchet' = [ratchet EXCEPT ![p].skipped = @ \ {e}]
    /\ Return(i, p, e[3])

(* 2. and 3. The message is on the current receiving chain. *)
OpenOnCurrentChain(i, p, r, h) ==
  /\ Cached(r, h) = {} /\ ~NewDhKey(r, h)
  /\ r.recv_chain # NoChain
  /\ h.n >= r.recv_chain.n /\ ~TooFar(r.recv_chain, h.n)
  /\ \E cache \in Skip(r.skipped, r.recv_chain, h.dh, h.n) :
       ratchet' = [ratchet EXCEPT ![p] = OpenedOnChain(r, h, cache)]
  /\ Return(i, p, MessageKey(r.recv_chain, h.n))

RefuseReplay(i, p, r, h) ==
  /\ Cached(r, h) = {} /\ ~NewDhKey(r, h)
  /\ r.recv_chain # NoChain
  /\ h.n < r.recv_chain.n
  /\ Refuse(i) /\ UNCHANGED ratchet

RefuseOnCurrentChain(i, p, r, h) ==
  /\ Cached(r, h) = {} /\ ~NewDhKey(r, h)
  /\ r.recv_chain = NoChain \/ TooFar(r.recv_chain, h.n)
  /\ Refuse(i) /\ UNCHANGED ratchet

(* 2. A new public key: the rest of the old receiving chain is cached      *)
(* first.  The chain was taken out of the ratchet for that, and an error   *)
(* on the way out loses it.                                                *)
RefuseOnOldChain(i, p, r, h) ==
  /\ Cached(r, h) = {} /\ NewDhKey(r, h)
  /\ r.recv_chain # NoChain
  /\ TooFar(r.recv_chain, h.prev)
  /\ ratchet' = [ratchet EXCEPT ![p].recv_chain = NoChain]
  /\ Refuse(i)

(* Mutant: the rest of the old receiving chain is dropped. *)
MutOldChainDropped(r, h) == {r.skipped}

OldChainCached(r, h) ==
  IF r.recv_chain = NoChain THEN {r.skipped}
  ELSE Skip(r.skipped, r.recv_chain, r.dh_peer, h.prev)

OpenAfterDhRatchet(i, p, r, h) ==
  /\ Cached(r, h) = {} /\ NewDhKey(r, h)
  /\ r.recv_chain = NoChain \/ ~TooFar(r.recv_chain, h.prev)
  /\ \E old \in OldChainCached(r, h) :
       LET stepped == DhRatchet(p, r, h, old)
       IN /\ ~TooFar(stepped.recv_chain, h.n)
          /\ \E cache \in Skip(old, stepped.recv_chain, h.dh, h.n) :
               ratchet' = [ratchet EXCEPT ![p] = OpenedOnChain(stepped, h, cache)]
          /\ Return(i, p, MessageKey(stepped.recv_chain, h.n))

(* 3. The first message seen of the new chain is too far ahead: the error  *)
(* comes after the DH ratchet, which stays done.                           *)
RefuseAfterDhRatchet(i, p, r, h) ==
  /\ Cached(r, h) = {} /\ NewDhKey(r, h)
  /\ r.recv_chain = NoChain \/ ~TooFar(r.recv_chain, h.prev)
  /\ \E old \in OldChainCached(r, h) :
       LET stepped == DhRatchet(p, r, h, old)
       IN /\ TooFar(stepped.recv_chain, h.n)
          /\ ratchet' = [ratchet EXCEPT ![p] = stepped]
          /\ Refuse(i)

(* A copy of message i reaches its addressee. *)
Decrypt(i) ==
  LET p == Other(sealed[i].from)
      r == ratchet[p]
      h == sealed[i].header
  IN /\ delivered[i] < MaxCopies
     /\ delivered' = [delivered EXCEPT ![i] = @ + 1]
     /\ \/ OpenFromCache(i, p, r, h)
        \/ OpenOnCurrentChain(i, p, r, h)
        \/ RefuseReplay(i, p, r, h)
        \/ RefuseOnCurrentChain(i, p, r, h)
        \/ RefuseOnOldChain(i, p, r, h)
        \/ OpenAfterDhRatchet(i, p, r, h)
        \/ RefuseAfterDhRatchet(i, p, r, h)
     /\ UNCHANGED sealed

Next == \/ \E p \in Party : Encrypt(p)
        \/ \E i \in 1 .. Len(sealed) : Decrypt(i)

Spec == Init /\ [][Next]_vars

-----------------------------------------------------------------------------

(* Both parties derive the same key for a message, in whatever order the   *)
(* messages of both directions cross the network.                          *)
KeyAgreement == \A pair \in returned : pair[2] = sealed[pair[1]].key

(* No copy of a message is refused: nothing is lost to reordering.         *)
NothingRefused == refused = {}

(* Every message is sealed under a key of its own, over all chains, DH     *)
(* steps and forced DH steps of both parties.                              *)
FreshKeys ==
  \A i, j \in 1 .. Len(sealed) : i # j => sealed[i].key # sealed[j].key

(* Forward secrecy: none of the keys a party has used for a message can be *)
(* derived from what the party still holds.                                *)
ForwardSecrecy ==
  \A p \in Party : \A key \in burnt[p] : ~Derivable(key, ratchet[p])

(* A message's own key is returned at most once, however many copies       *)
(* arrive, through forced ratchets, evictions and refusals.                *)
Filter == INSTANCE AtMostOnce WITH Id <- Messages, honoured <- opened
ImplementsAtMostOnce == Filter!Spec

TypeOK ==
  /\ \A p \in Party :
       /\ ratchet[p].dh_self \in {p} \X Nat
       /\ ratchet[p].dh_peer \in {NoKey} \cup {Other(p)} \X Nat
       /\ ratchet[p].count <= MaxChain
  /\ Len(sealed) <= MaxMessages
  /\ delivered \in [Messages -> 0 .. MaxCopies]
  /\ opened \in [Messages -> Nat]
  /\ refused \subseteq Messages
=============================================================================
