----------------------- MODULE SymmetricRatchet_proofs -----------------------
(***************************************************************************)
(* Proofs about SymmetricRatchet, for every MaxSeq, MaxSkip and MaxCache.  *)
(***************************************************************************)
EXTENDS SymmetricRatchet, FiniteSetTheorems, WellFoundedInduction, TLAPS

(* A non-empty set of naturals has a smallest element. *)
LEMMA SmallestElement ==
  ASSUME NEW T \in SUBSET Nat, T # {}
  PROVE  \E m \in T : \A t \in T : m <= t
<1>1. PICK m \in T : \A t \in T : ~(<<t, m>> \in OpToRel(<, Nat))
  BY NatLessThanWellFounded, WFMin
<1>2. \A t \in T : ~(t < m)
  BY <1>1 DEF OpToRel
<1> QED
  BY <1>2, SMT

(* What KeepNewest returns is part of what it is given. *)
LEMMA KeepNewestSubset == \A S : KeepNewest(S) \subseteq S
BY DEF KeepNewest

(* KeepNewest is closed upwards: it never drops a number and keeps a       *)
(* smaller one.                                                            *)
LEMMA KeepNewestUpward ==
  ASSUME NEW S \in SUBSET Nat, IsFiniteSet(S),
         NEW s \in KeepNewest(S), NEW t \in S, t > s
  PROVE  t \in KeepNewest(S)
<1> DEFINE Above(x) == {u \in S : u > x}
<1>1. s \in S /\ Cardinality(Above(s)) < MaxCache
  BY DEF KeepNewest
<1>2. Above(t) \subseteq Above(s)
  <2>1. s \in Nat /\ t \in Nat /\ \A u \in S : u \in Nat
    BY <1>1
  <2>2. \A u \in S : u > t => u > s
    BY <2>1
  <2> QED
    BY <2>2
<1>3. IsFiniteSet(Above(s))
  BY FS_Subset
<1>4. Cardinality(Above(t)) <= Cardinality(Above(s))
  BY <1>2, <1>3, FS_Subset
<1>5. Cardinality(Above(t)) \in Nat /\ Cardinality(Above(s)) \in Nat
  BY <1>2, <1>3, FS_Subset, FS_CardinalityType
<1>6. Cardinality(Above(t)) < MaxCache
  BY <1>1, <1>4, <1>5, ConstantsAssumption
<1> QED
  BY <1>6 DEF KeepNewest

(* KeepNewest fits in the cache. *)
LEMMA KeepNewestBounded ==
  ASSUME NEW S \in SUBSET Nat, IsFiniteSet(S)
  PROVE  /\ IsFiniteSet(KeepNewest(S))
         /\ Cardinality(KeepNewest(S)) <= MaxCache
<1> DEFINE K == KeepNewest(S)
<1>1. K \subseteq S /\ IsFiniteSet(K)
  BY KeepNewestSubset, FS_Subset
<1>2. CASE K = {}
  BY <1>1, <1>2, FS_EmptySet, ConstantsAssumption
<1>3. CASE K # {}
  <2>1. PICK m \in K : \A k \in K : m <= k
    BY <1>1, <1>3, SmallestElement
  <2> DEFINE Above == {u \in S : u > m}
  <2>2. Cardinality(Above) < MaxCache
    BY <2>1 DEF KeepNewest
  <2>3. IsFiniteSet(Above) /\ Cardinality(Above) \in Nat
    BY FS_Subset, FS_CardinalityType
  <2>4. K \ {m} \subseteq Above
    <3>1. \A k \in K : k \in Nat
      BY <1>1
    <3>2. \A k \in K : k # m => k > m
      BY <2>1, <3>1
    <3> QED
      BY <1>1, <3>2
  <2>5. Cardinality(K \ {m}) <= Cardinality(Above)
    BY <2>3, <2>4, FS_Subset
  <2>6. Cardinality(K \ {m}) = Cardinality(K) - 1 /\ Cardinality(K) \in Nat
    BY <1>1, <2>1, FS_RemoveElement, FS_CardinalityType
  <2> HIDE DEF K, Above
  <2>7. Cardinality(K) <= MaxCache
    BY <2>2, <2>3, <2>5, <2>6, ConstantsAssumption
  <2> QED
    BY <1>1, <2>7 DEF K
<1> QED
  BY <1>2, <1>3

-----------------------------------------------------------------------------

LEMMA SeqsFinite ==
  ASSUME NEW S, S \subseteq Seqs
  PROVE  IsFiniteSet(S) /\ S \in SUBSET Nat
<1>1. IsFiniteSet(Seqs)
  BY FS_Interval, ConstantsAssumption DEF Seqs
<1>2. Seqs \subseteq Nat
  BY ConstantsAssumption DEF Seqs
<1> QED
  BY <1>1, <1>2, FS_Subset

LEMMA InitIInv == Init => IInv
<1> SUFFICES ASSUME Init PROVE IInv
  OBVIOUS
<1> USE ConstantsAssumption DEF Init, NewRatchet, Seqs
<1>1. TypeOK
  BY DEF TypeOK, RatchetState
<1>2. KeysFollowTheChain
  BY DEF KeysFollowTheChain
<1>3. EveryKeyAccounted
  BY DEF EveryKeyAccounted
<1>4. CacheBounded
  BY FS_EmptySet DEF CacheBounded
<1>5. EvictsOldest /\ ReplayVerdictTrue
  BY DEF EvictsOldest, ReplayVerdictTrue
<1> QED
  BY <1>1, <1>2, <1>3, <1>4, <1>5 DEF IInv

(* Sealing one more message. *)
LEMMA NextKeyIInv ==
  ASSUME IInv, NextKey
  PROVE  IInv'
<1> USE ConstantsAssumption DEF IInv, NextKey, Seqs, Advance
<1>1. TypeOK'
  <2>1. /\ send' \in RatchetState
        /\ send.message_number \in Seqs /\ send.chain_key \in Seqs
    BY DEF TypeOK, RatchetState, KeysFollowTheChain
  <2>2. DOMAIN sealed' \subseteq Seqs /\ sealed' \in [DOMAIN sealed' -> Seqs]
    BY <2>1 DEF TypeOK
  <2> QED
    BY <2>1, <2>2 DEF TypeOK
<1>2. KeysFollowTheChain'
  BY DEF TypeOK, RatchetState, KeysFollowTheChain
<1>3. EveryKeyAccounted'
  BY DEF EveryKeyAccounted
<1>4. CacheBounded' /\ EvictsOldest' /\ ReplayVerdictTrue'
  BY DEF CacheBounded, EvictsOldest, ReplayVerdictTrue
<1> QED
  BY <1>1, <1>2, <1>3, <1>4 DEF IInv

(* Opening a message from its cached key: the key leaves the cache. *)
LEMMA KeyFromCacheIInv ==
  ASSUME IInv, NEW seq \in DOMAIN sealed, KeyFromCache(seq)
  PROVE  IInv'
<1>1. TypeOK'
  <2>1. DOMAIN skipped' \subseteq Seqs /\ skipped' \in [DOMAIN skipped' -> Seqs]
    BY DEF IInv, TypeOK, KeyFromCache
  <2>2. opened' \subseteq Seqs \X Seqs /\ issued' \in [Seqs -> Nat]
    BY DEF IInv, TypeOK, KeyFromCache, Return
  <2> QED
    BY <2>1, <2>2 DEF IInv, TypeOK, KeyFromCache, Return
<1> USE ConstantsAssumption DEF IInv, KeyFromCache, Return, Seqs
<1>2. KeysFollowTheChain'
  BY DEF TypeOK, KeysFollowTheChain
<1>3. EveryKeyAccounted'
  BY DEF TypeOK, RatchetState, KeysFollowTheChain, EveryKeyAccounted
<1>4. CacheBounded'
  <2>1. DOMAIN skipped' \subseteq DOMAIN skipped
    OBVIOUS
  <2>2. IsFiniteSet(DOMAIN skipped)
    BY SeqsFinite DEF TypeOK
  <2>3. /\ Cardinality(DOMAIN skipped') <= Cardinality(DOMAIN skipped)
        /\ Cardinality(DOMAIN skipped') \in Nat
        /\ Cardinality(DOMAIN skipped) \in Nat
    BY <2>1, <2>2, FS_Subset, FS_CardinalityType
  <2> QED
    BY <2>3 DEF CacheBounded
<1>5. EvictsOldest'
  BY DEF EvictsOldest
<1>6. ReplayVerdictTrue'
  BY DEF ReplayVerdictTrue, TypeOK
<1> QED
  BY <1>1, <1>2, <1>3, <1>4, <1>5, <1>6 DEF IInv

(* Where the receiving chain is, and what it would hand out for seq. *)
LEMMA ChainFacts ==
  ASSUME IInv, NEW seq \in DOMAIN sealed
  PROVE  /\ seq \in Nat /\ seq \in Seqs /\ seq <= MaxSeq
         /\ recv.message_number \in Nat
         /\ recv = [chain_key      |-> recv.message_number,
                    message_number |-> recv.message_number]
         /\ \A s \in Nat : KeyOf(recv, s) = s
         /\ \A s \in 0 .. MaxSeq + 1 :
              [chain_key |-> s, message_number |-> s] \in RatchetState
BY ConstantsAssumption
   DEF IInv, TypeOK, KeysFollowTheChain, RatchetState, KeyOf, Seqs

(* Opening the next message of the chain. *)
LEMMA KeyInOrderIInv ==
  ASSUME IInv, NEW seq \in DOMAIN sealed, KeyInOrder(seq)
  PROVE  IInv'
<1>1. TypeOK'
  <2>1. recv' = [chain_key |-> seq + 1, message_number |-> seq + 1]
    BY ChainFacts DEF KeyInOrder, Advance
  <2>2. recv' \in RatchetState
    BY <2>1, ChainFacts, ConstantsAssumption
  <2>3. opened' \subseteq Seqs \X Seqs /\ issued' \in [Seqs -> Nat]
    BY ChainFacts DEF IInv, TypeOK, KeyInOrder, Return
  <2> QED
    BY <2>2, <2>3 DEF IInv, TypeOK, KeyInOrder, Return
<1> USE ConstantsAssumption DEF IInv, KeyInOrder, Return, Seqs, Advance, KeyOf
<1>2. KeysFollowTheChain'
  BY DEF TypeOK, RatchetState, KeysFollowTheChain
<1>3. EveryKeyAccounted'
  BY DEF TypeOK, RatchetState, KeysFollowTheChain, EveryKeyAccounted
<1>4. CacheBounded' /\ EvictsOldest'
  BY DEF CacheBounded, EvictsOldest
<1>5. ReplayVerdictTrue'
  BY DEF ReplayVerdictTrue, TypeOK
<1> QED
  BY <1>1, <1>2, <1>3, <1>4, <1>5 DEF IInv

(* Opening a message ahead of the chain: the keys in between are cached,   *)
(* and what does not fit is evicted from below.                            *)
LEMMA KeyAheadIInv ==
  ASSUME IInv, NEW seq \in DOMAIN sealed, KeyAhead(seq)
  PROVE  IInv'
<1> DEFINE n == recv.message_number
           offered == DOMAIN skipped \cup (n .. seq - 1)
           kept == KeepNewest(offered)
<1>0. /\ seq \in Seqs /\ n \in Nat /\ n < seq /\ seq < send.message_number
      /\ send.message_number \in Nat /\ send.message_number <= MaxSeq + 1
  BY ConstantsAssumption
     DEF IInv, TypeOK, RatchetState, KeysFollowTheChain, KeyAhead, Seqs
<1>1. /\ opened' = opened \cup {<<seq, seq>>}
      /\ issued' = [issued EXCEPT ![seq] = @ + 1]
      /\ recv' = [chain_key |-> seq + 1, message_number |-> seq + 1]
      /\ UNCHANGED <<send, sealed, replays>>
  <2>1. KeyOf(recv, seq) = seq
    BY ChainFacts
  <2>2. recv' = [chain_key |-> n + (seq - n + 1), message_number |-> n + (seq - n + 1)]
    BY ChainFacts DEF KeyAhead, Advance
  <2> QED
    BY <1>0, <2>1, <2>2, ConstantsAssumption DEF KeyAhead, Return, Seqs
<1>2. /\ DOMAIN skipped' = kept
      /\ evicted' = evicted \cup (offered \ kept)
      /\ seq \notin DOMAIN skipped
  BY DEF KeyAhead
<1>3. \A s \in kept : skipped'[s] = s
  <2>1. \A s \in kept : skipped'[s] = IF s \in DOMAIN skipped
                                      THEN skipped[s] ELSE KeyOf(recv, s)
    BY DEF KeyAhead
  <2>2. kept \subseteq DOMAIN skipped \cup (n .. seq - 1)
    BY KeepNewestSubset
  <2> QED
    <3>1. \A s \in DOMAIN skipped : skipped[s] = s
      BY DEF IInv, KeysFollowTheChain
    <3>2. \A s \in n .. seq - 1 : KeyOf(recv, s) = s
      BY <1>0, ChainFacts
    <3> QED
      BY <2>1, <2>2, <3>1, <3>2
<1>4. /\ kept \subseteq offered
      /\ offered \subseteq Seqs
      /\ \A s \in offered : s < seq
  <2>1. kept \subseteq offered
    BY KeepNewestSubset
  <2>2. \A s \in DOMAIN skipped : s \in Seqs /\ s < n
    BY <1>0, ConstantsAssumption DEF IInv, TypeOK, EveryKeyAccounted, Seqs
  <2>3. \A s \in n .. seq - 1 : s \in Seqs /\ s < seq
    BY <1>0, ConstantsAssumption DEF Seqs
  <2> QED
    BY <2>1, <2>2, <2>3, <1>0, ConstantsAssumption DEF Seqs
<1>5. /\ IsFiniteSet(offered) /\ offered \in SUBSET Nat
      /\ \A e \in offered \ kept, c \in kept : e < c
      /\ Cardinality(kept) <= MaxCache
  <2>1. IsFiniteSet(offered) /\ offered \in SUBSET Nat
    BY <1>4, SeqsFinite
  <2>2. Cardinality(kept) <= MaxCache
    BY <2>1, KeepNewestBounded
  <2>3. ASSUME NEW e \in offered \ kept, NEW c \in kept PROVE e < c
    <3>1. e \in Nat /\ c \in Nat /\ e # c
      BY <1>4, <2>1
    <3>2. ~(e > c)
      BY <1>4, <2>1, KeepNewestUpward
    <3> QED
      BY <3>1, <3>2
  <2> QED
    BY <2>1, <2>2, <2>3
<1> HIDE DEF kept
<1>6. TypeOK'
  <2>1. recv' \in RatchetState /\ send' \in RatchetState
    <3>1. seq + 1 \in 0 .. MaxSeq + 1
      BY ChainFacts, ConstantsAssumption
    <3> QED
      BY <1>1, <3>1, ChainFacts DEF IInv, TypeOK
  <2>2. DOMAIN skipped' \subseteq Seqs
    BY <1>2, <1>4
  <2>3. skipped' \in [DOMAIN skipped' -> Seqs]
    <3>1. skipped' = [s \in kept |-> skipped'[s]]
      BY DEF KeyAhead, kept
    <3> QED
      BY <1>2, <1>3, <1>4, <3>1
  <2>4. opened' \subseteq Seqs \X Seqs /\ issued' \in [Seqs -> Nat]
    BY <1>0, <1>1 DEF IInv, TypeOK
  <2>5. evicted' \subseteq Seqs
    BY <1>2, <1>4 DEF IInv, TypeOK
  <2> QED
    BY <2>1, <2>2, <2>3, <2>4, <2>5, <1>1 DEF IInv, TypeOK
<1>7. KeysFollowTheChain'
  <2>1. /\ send'.chain_key = send'.message_number
        /\ recv'.chain_key = recv'.message_number
        /\ recv'.message_number <= send'.message_number
    BY <1>0, <1>1, ConstantsAssumption DEF IInv, KeysFollowTheChain, Seqs
  <2>2. \A s \in DOMAIN skipped' : skipped'[s] = s
    BY <1>2, <1>3
  <2>3. \A p \in opened' : p[2] = p[1] /\ p[1] \in DOMAIN sealed
    BY <1>1 DEF IInv, KeysFollowTheChain
  <2> QED
    BY <1>1, <2>1, <2>2, <2>3 DEF IInv, KeysFollowTheChain
<1>8. EveryKeyAccounted'
  <2> SUFFICES ASSUME NEW s \in Seqs
      PROVE IF s < seq + 1
            THEN \/ issued'[s] = 1 /\ s \notin DOMAIN skipped' \cup evicted'
                 \/ issued'[s] = 0 /\ s \in DOMAIN skipped' /\ s \notin evicted'
                 \/ issued'[s] = 0 /\ s \notin DOMAIN skipped' /\ s \in evicted'
            ELSE issued'[s] = 0 /\ s \notin DOMAIN skipped' \cup evicted'
    BY <1>1 DEF EveryKeyAccounted
  <2>0. s \in Nat /\ seq \in Nat
    BY <1>0, ConstantsAssumption DEF Seqs
  <2>1. /\ s # seq => issued'[s] = issued[s]
        /\ issued'[seq] = issued[seq] + 1
    BY <1>0, <1>1 DEF IInv, TypeOK
  <2>2. IF s < n
        THEN \/ issued[s] = 1 /\ s \notin DOMAIN skipped \cup evicted
             \/ issued[s] = 0 /\ s \in DOMAIN skipped /\ s \notin evicted
             \/ issued[s] = 0 /\ s \notin DOMAIN skipped /\ s \in evicted
        ELSE issued[s] = 0 /\ s \notin DOMAIN skipped \cup evicted
    BY DEF IInv, EveryKeyAccounted
  <2>3. s \in offered <=> s \in DOMAIN skipped \/ (n <= s /\ s < seq)
    BY <2>0, <1>0
  <2>4. CASE s < n
    <3>1. s # seq /\ s < seq + 1
      BY <2>0, <2>4, <1>0
    <3>2. s \in offered <=> s \in DOMAIN skipped
      BY <2>0, <2>3, <2>4, <1>0
    <3> QED
      BY <3>1, <3>2, <2>1, <2>2, <2>4, <1>2, <1>4
  <2>5. CASE n <= s /\ s < seq
    <3>1. s # seq /\ s < seq + 1 /\ ~(s < n)
      BY <2>0, <2>5, <1>0
    <3> QED
      BY <3>1, <2>1, <2>2, <2>3, <2>5, <1>2, <1>4
  <2>6. CASE s = seq
    <3>1. s < seq + 1 /\ ~(s < n) /\ s \notin offered
      BY <2>0, <2>2, <2>3, <2>6, <1>0
    <3>2. issued[s] = 0 /\ s \notin DOMAIN skipped \cup evicted
      BY <3>1, <2>2
    <3>3. issued'[s] = 1
      BY <3>2, <2>1, <2>6
    <3> QED
      BY <3>1, <3>2, <3>3, <1>2, <1>4
  <2>7. CASE s > seq
    <3>1. s # seq /\ ~(s < seq + 1) /\ ~(s < n)
      BY <2>0, <2>7, <1>0
    <3>2. s \notin offered
      BY <2>0, <2>2, <2>3, <2>7, <3>1
    <3> QED
      BY <3>1, <3>2, <2>1, <2>2, <1>2, <1>4
  <2> QED
    BY <2>0, <2>4, <2>5, <2>6, <2>7, <1>0
<1>9. CacheBounded'
  BY <1>2, <1>5 DEF CacheBounded
<1>10. EvictsOldest'
  <2>1. \A e \in evicted, c \in offered : e < c
    <3>1. \A e \in evicted : e \in Nat /\ e < n
      BY <1>0, ConstantsAssumption
         DEF IInv, TypeOK, EveryKeyAccounted, Seqs
    <3>2. \A e \in evicted, c \in DOMAIN skipped : e < c
      BY DEF IInv, EvictsOldest
    <3>3. \A e \in evicted, c \in n .. seq - 1 : e < c
      BY <3>1, <1>0
    <3> QED
      BY <3>2, <3>3
  <2> QED
    BY <2>1, <1>2, <1>4, <1>5 DEF EvictsOldest
<1>11. ReplayVerdictTrue'
  <2>1. \A s \in Seqs : issued[s] > 0 => issued'[s] > 0
    BY <1>0, <1>1 DEF IInv, TypeOK
  <2> QED
    BY <2>1, <1>1, <1>2 DEF IInv, TypeOK, ReplayVerdictTrue
<1> QED
  BY <1>6, <1>7, <1>8, <1>9, <1>10, <1>11 DEF IInv

(* Refusing a message that is behind the chain and not cached. *)
LEMMA ReplayDetectedIInv ==
  ASSUME IInv, NEW seq \in DOMAIN sealed, ReplayDetected(seq)
  PROVE  IInv'
<1> USE ConstantsAssumption DEF IInv, ReplayDetected, Seqs
<1>1. TypeOK'
  BY DEF TypeOK
<1>2. ReplayVerdictTrue'
  BY DEF TypeOK, EveryKeyAccounted, ReplayVerdictTrue
<1>3. KeysFollowTheChain' /\ EveryKeyAccounted'
  BY DEF KeysFollowTheChain, EveryKeyAccounted
<1>4. CacheBounded' /\ EvictsOldest'
  BY DEF CacheBounded, EvictsOldest
<1> QED
  BY <1>1, <1>2, <1>3, <1>4 DEF IInv

LEMMA StutterIInv ==
  ASSUME IInv, UNCHANGED vars
  PROVE  IInv'
BY DEF vars, IInv, TypeOK, KeysFollowTheChain, EveryKeyAccounted,
       CacheBounded, EvictsOldest, ReplayVerdictTrue

LEMMA NextIInv == IInv /\ [Next]_vars => IInv'
<1> SUFFICES ASSUME IInv, [Next]_vars PROVE IInv'
  OBVIOUS
<1>1. CASE NextKey
  BY <1>1, NextKeyIInv
<1>2. ASSUME NEW seq \in DOMAIN sealed, KeyFor(seq) PROVE IInv'
  <2>1. CASE KeyFromCache(seq)
    BY <2>1, KeyFromCacheIInv
  <2>2. CASE KeyInOrder(seq)
    BY <2>2, KeyInOrderIInv
  <2>3. CASE KeyAhead(seq)
    BY <2>3, KeyAheadIInv
  <2>4. CASE TooManySkipped(seq)
    BY <2>4, StutterIInv DEF TooManySkipped
  <2>5. CASE ReplayDetected(seq)
    BY <2>5, ReplayDetectedIInv
  <2> QED
    BY <1>2, <2>1, <2>2, <2>3, <2>4, <2>5 DEF KeyFor
<1>3. CASE UNCHANGED vars
  BY <1>3, StutterIInv
<1> QED
  BY <1>1, <1>2, <1>3 DEF Next

(* IInv is an invariant, and with it the safety properties it is made of:  *)
(* the cache bound, the accounting of every key, the order of eviction and *)
(* the truth of every ReplayDetected verdict.                              *)
THEOREM Invariance == Spec => []IInv
BY InitIInv, NextIInv, PTL DEF Spec

(* key_for only ever returns the key a message was sealed under. *)
THEOREM Agreement == Spec => []KeyAgreement
<1>1. IInv => KeyAgreement
  BY DEF IInv, KeysFollowTheChain, KeyAgreement
<1> QED
  BY <1>1, Invariance, PTL

(* RecvRatchet keeps its key cache within MAX_SKIPPED_KEY_CACHE. *)
THEOREM Bounded == Spec => []CacheBounded
<1>1. IInv => CacheBounded
  BY DEF IInv
<1> QED
  BY <1>1, Invariance, PTL

(* Every message number behind the chain is opened once, cached or evicted,*)
(* and exactly one of the three.                                           *)
THEOREM Accounting == Spec => []EveryKeyAccounted
<1>1. IInv => EveryKeyAccounted
  BY DEF IInv
<1> QED
  BY <1>1, Invariance, PTL

(* A number refused as a replay was returned before or evicted.            *)
THEOREM Verdicts == Spec => []ReplayVerdictTrue
<1>1. IInv => ReplayVerdictTrue
  BY DEF IInv
<1> QED
  BY <1>1, Invariance, PTL

(* The cache is bounded, every key accounted for and every verdict true.   *)
THEOREM Cached == Spec => []CacheAccounting
<1>1. CacheBounded /\ EveryKeyAccounted /\ ReplayVerdictTrue => CacheAccounting
  BY DEF CacheAccounting
<1> QED
  BY <1>1, Bounded, Accounting, Verdicts, PTL

-----------------------------------------------------------------------------

(* Every step of the ratchet honours one message number or none. *)
LEMMA StepHonours ==
  ASSUME IInv, [Next]_vars
  PROVE  [Filter!Next]_issued
<1>1. CASE NextKey
  BY <1>1 DEF NextKey
<1>2. ASSUME NEW seq \in DOMAIN sealed, KeyFor(seq)
      PROVE  [Filter!Next]_issued
  <2>0. seq \in Seqs /\ issued \in [Seqs -> Nat]
    BY DEF IInv, TypeOK
  <2>1. ASSUME issued[seq] = 0, issued' = [issued EXCEPT ![seq] = @ + 1]
        PROVE  Filter!Next
    <3>1. issued' = [issued EXCEPT ![seq] = 1]
      BY <2>0, <2>1
    <3> QED
      BY <2>0, <2>1, <3>1 DEF Filter!Next, Filter!Honour
  <2>2. CASE KeyFromCache(seq)
    BY <2>0, <2>1, <2>2
       DEF IInv, EveryKeyAccounted, KeyFromCache, Return
  <2>3. CASE KeyInOrder(seq)
    <3>1. issued[seq] = 0
      BY <2>0, <2>3, ConstantsAssumption
         DEF IInv, EveryKeyAccounted, KeyInOrder, Seqs
    <3> QED
      BY <2>1, <2>3, <3>1 DEF KeyInOrder, Return
  <2>4. CASE KeyAhead(seq)
    <3>1. issued[seq] = 0
      BY <2>0, <2>4, ConstantsAssumption
         DEF IInv, TypeOK, RatchetState, EveryKeyAccounted, KeyAhead, Seqs
    <3> QED
      BY <2>1, <2>4, <3>1 DEF KeyAhead, Return
  <2>5. CASE TooManySkipped(seq)
    BY <2>5 DEF TooManySkipped, vars
  <2>6. CASE ReplayDetected(seq)
    BY <2>6 DEF ReplayDetected
  <2> QED
    BY <1>2, <2>2, <2>3, <2>4, <2>5, <2>6 DEF KeyFor
<1>3. CASE UNCHANGED vars
  BY <1>3 DEF vars
<1> QED
  BY <1>1, <1>2, <1>3 DEF Next

(* The receiver is an at-most-once filter: under any loss, reordering and  *)
(* duplication, key_for returns the key of a message number at most once.  *)
THEOREM Refinement == Spec => ImplementsAtMostOnce
<1>1. Init => Filter!Init
  BY DEF Init, Filter!Init, Filter!Fresh
<1>2. IInv /\ [Next]_vars => [Filter!Next]_issued
  BY StepHonours
<1> QED
  BY <1>1, <1>2, Invariance, PTL DEF Spec, ImplementsAtMostOnce, Filter!Spec
=============================================================================
