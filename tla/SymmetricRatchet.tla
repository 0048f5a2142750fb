-------------------------- MODULE SymmetricRatchet --------------------------
(***************************************************************************)
(* The symmetric-only mode of hidra_core/src/ratchet.rs: a SendRatchet and *)
(* a RecvRatchet started from one root key, with a network between them    *)
(* that loses, reorders and duplicates.  A chain key is modelled by the    *)
(* number of HKDF steps that separate it from the root, and the message    *)
(* key derived from it by the same number: two keys are equal exactly when *)
(* they come from the same link of the same chain.                         *)
(***************************************************************************)
EXTENDS Naturals, FiniteSets

CONSTANTS
  MaxSeq,    \* bound: the sender hands out the numbers 0..MaxSeq
  MaxSkip,   \* RatchetState::max_skip (100)
  MaxCache   \* MAX_SKIPPED_KEY_CACHE (256)

ASSUME ConstantsAssumption ==
  /\ MaxSeq \in Nat
  /\ MaxSkip \in Nat
  /\ MaxCache \in Nat \ {0}

VARIABLES
  send,      \* SendRatchet.state
  recv,      \* RecvRatchet.state
  skipped,   \* RecvRatchet.skipped_keys: sequence -> key
  sealed,    \* history: the key each sent message was encrypted under
  opened,    \* history: the <<sequence, key>> pairs key_for returned
  issued,    \* history: how often key_for returned a key for a sequence
  evicted,   \* history: the sequences whose cached key was zeroized
  replays    \* history: the sequences refused with ReplayDetected

vars == <<send, recv, skipped, sealed, opened, issued, evicted, replays>>

Seqs == 0 .. MaxSeq

RatchetState == [chain_key : 0 .. MaxSeq + 1, message_number : 0 .. MaxSeq + 1]

NewRatchet == [chain_key |-> 0, message_number |-> 0]

(* Mutant: skipping counts the messages but advances the chain only once.  *)
MutAdvanceOnce(state, n) == [chain_key      |-> state.chain_key + 1,
                             message_number |-> state.message_number + n]

(* The state after n calls of advance(). *)
Advance(state, n) == [chain_key      |-> state.chain_key + n,
                      message_number |-> state.message_number + n]

(* Mutant: the key is derived from the next chain key. *)
MutKeyOfNext(state, seq) == state.chain_key + (seq - state.message_number) + 1

(* The key advance() hands out for seq, when it is reached from state. *)
KeyOf(state, seq) == state.chain_key + (seq - state.message_number)

(* Mutants: a full cache is noticed one key late; the newest key goes.     *)
MutKeepOneMore(S) == {s \in S : Cardinality({t \in S : t > s}) <= MaxCache}
MutKeepOldest(S) == {s \in S : Cardinality({t \in S : t < s}) < MaxCache}

(* What a bounded cache holds after the numbers of S went in smallest      *)
(* first, the smallest being evicted whenever the cache is full.           *)
KeepNewest(S) == {s \in S : Cardinality({t \in S : t > s}) < MaxCache}

Init ==
  /\ send = NewRatchet
  /\ recv = NewRatchet
  /\ skipped = [s \in {} |-> 0]
  /\ sealed = [s \in {} |-> 0]
  /\ opened = {}
  /\ issued = [s \in Seqs |-> 0]
  /\ evicted = {}
  /\ replays = {}

(* SendRatchet::next_key; the message is on the network from here on. *)
NextKey ==
  /\ send.message_number <= MaxSeq
  /\ sealed' = [s \in DOMAIN sealed \cup {send.message_number} |->
                  IF s = send.message_number THEN send.chain_key ELSE sealed[s]]
  /\ send' = Advance(send, 1)
  /\ UNCHANGED <<recv, skipped, opened, issued, evicted, replays>>

Return(seq, key) ==
  /\ opened' = opened \cup {<<seq, key>>}
  /\ issued' = [issued EXCEPT ![seq] = @ + 1]
  /\ UNCHANGED <<send, sealed, replays>>

(* Mutant: the key is read from the cache but stays in it. *)
MutKeyStaysCached(seq) ==
  /\ seq \in DOMAIN skipped
  /\ Return(seq, skipped[seq])
  /\ UNCHANGED <<recv, skipped, evicted>>

(* key_for, step 1: the key was cached when its message was skipped. *)
KeyFromCache(seq) ==
  /\ seq \in DOMAIN skipped
  /\ Return(seq, skipped[seq])
  /\ skipped' = [s \in DOMAIN skipped \ {seq} |-> skipped[s]]
  /\ UNCHANGED <<recv, evicted>>

(* key_for, step 2: the next message of the chain. *)
KeyInOrder(seq) ==
  /\ seq \notin DOMAIN skipped
  /\ seq = recv.message_number
  /\ Return(seq, KeyOf(recv, seq))
  /\ recv' = Advance(recv, 1)
  /\ UNCHANGED <<skipped, evicted>>

(* key_for, step 3: a message ahead of the chain; the keys in between are  *)
(* cached, oldest out first.                                               *)
KeyAhead(seq) ==
  LET n       == recv.message_number
      offered == DOMAIN skipped \cup (n .. seq - 1)
      kept    == KeepNewest(offered)
  IN /\ seq \notin DOMAIN skipped
     /\ seq > n
     /\ seq - n <= MaxSkip
     /\ Return(seq, KeyOf(recv, seq))
     /\ skipped' = [s \in kept |-> IF s \in DOMAIN skipped THEN skipped[s]
                                                           ELSE KeyOf(recv, s)]
     /\ evicted' = evicted \cup (offered \ kept)
     /\ recv' = Advance(recv, seq - n + 1)

(* key_for, step 3, the error: further ahead than max_skip. *)
TooManySkipped(seq) ==
  /\ seq \notin DOMAIN skipped
  /\ seq > recv.message_number
  /\ seq - recv.message_number > MaxSkip
  /\ UNCHANGED vars

(* Mutant: the replay check comes first and compares with <=. *)
MutReplayFirst(seq) ==
  /\ seq \notin DOMAIN skipped
  /\ seq <= recv.message_number
  /\ replays' = replays \cup {seq}
  /\ UNCHANGED <<send, recv, skipped, sealed, opened, issued, evicted>>

(* key_for, last branch: behind the chain and not cached. *)
ReplayDetected(seq) ==
  /\ seq \notin DOMAIN skipped
  /\ seq < recv.message_number
  /\ replays' = replays \cup {seq}
  /\ UNCHANGED <<send, recv, skipped, sealed, opened, issued, evicted>>

(* RecvRatchet::key_for on any message ever sent, any number of times. *)
KeyFor(seq) == \/ KeyFromCache(seq)
               \/ KeyInOrder(seq)
               \/ KeyAhead(seq)
               \/ TooManySkipped(seq)
               \/ ReplayDetected(seq)

Next == NextKey \/ \E seq \in DOMAIN sealed : KeyFor(seq)

Spec == Init /\ [][Next]_vars

-----------------------------------------------------------------------------

(* The variables range over what the Rust types allow. *)
TypeOK ==
  /\ send \in RatchetState
  /\ recv \in RatchetState
  /\ DOMAIN skipped \subseteq Seqs /\ skipped \in [DOMAIN skipped -> Seqs]
  /\ DOMAIN sealed \subseteq Seqs /\ sealed \in [DOMAIN sealed -> Seqs]
  /\ opened \subseteq Seqs \X Seqs
  /\ issued \in [Seqs -> Nat]
  /\ evicted \subseteq Seqs
  /\ replays \subseteq Seqs

(* Whatever the order of delivery, a key that key_for returns is the key   *)
(* its message was sealed under.                                           *)
KeyAgreement ==
  \A p \in opened : p[1] \in DOMAIN sealed /\ p[2] = sealed[p[1]]

(* The cache never outgrows MAX_SKIPPED_KEY_CACHE, even when one call      *)
(* skips many messages at once.                                            *)
CacheBounded == Cardinality(DOMAIN skipped) <= MaxCache

(* Every number the receiving chain has passed is accounted for exactly    *)
(* once: its key was returned, or it still waits in the cache, or it was   *)
(* evicted.  No key is lost and none survives its use (forward secrecy).   *)
EveryKeyAccounted ==
  \A s \in Seqs :
    IF s < recv.message_number
    THEN \/ issued[s] = 1 /\ s \notin DOMAIN skipped \cup evicted
         \/ issued[s] = 0 /\ s \in DOMAIN skipped /\ s \notin evicted
         \/ issued[s] = 0 /\ s \notin DOMAIN skipped /\ s \in evicted
    ELSE issued[s] = 0 /\ s \notin DOMAIN skipped \cup evicted

(* ReplayDetected is never a false accusation against a message that could *)
(* still be opened: its key had been returned, or had been evicted.        *)
ReplayVerdictTrue == \A s \in replays : issued[s] > 0 \/ s \in evicted

(* Skipped keys as a whole: bounded, accounted for, and refused only when  *)
(* gone.                                                                   *)
CacheAccounting == CacheBounded /\ EveryKeyAccounted /\ ReplayVerdictTrue

(* Eviction sacrifices the oldest keys: all that is cached is newer than   *)
(* all that was evicted.                                                   *)
EvictsOldest == \A e \in evicted, c \in DOMAIN skipped : e < c

(* Both chains are where the numbers they handed out say, and every key    *)
(* held anywhere is the one its number stands for.                         *)
KeysFollowTheChain ==
  /\ send.chain_key = send.message_number
  /\ recv.chain_key = recv.message_number
  /\ recv.message_number <= send.message_number
  /\ DOMAIN sealed = {s \in Seqs : s < send.message_number}
  /\ \A s \in DOMAIN sealed : sealed[s] = s
  /\ \A s \in DOMAIN skipped : skipped[s] = s
  /\ \A p \in opened : p[2] = p[1] /\ p[1] \in DOMAIN sealed

(* The inductive invariant that carries the safety properties. *)
IInv ==
  /\ TypeOK
  /\ KeysFollowTheChain
  /\ EveryKeyAccounted
  /\ CacheBounded
  /\ EvictsOldest
  /\ ReplayVerdictTrue

(* The receiver honours each message number at most once. *)
Filter == INSTANCE AtMostOnce WITH Id <- Seqs, honoured <- issued
ImplementsAtMostOnce == Filter!Spec
=============================================================================
