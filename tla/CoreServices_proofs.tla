------------------------- MODULE CoreServices_proofs -------------------------
(***************************************************************************)
(* Proofs about the services of MCCoreServices, for every value of their   *)
(* constants: the anti-replay window, which MCCoreServices extends, first, *)
(* then the services it instantiates, and last that a behaviour of all of  *)
(* them is a behaviour of each.                                            *)
(***************************************************************************)
EXTENDS MCCoreServices, Sequences, SequenceTheorems, FiniteSets, FiniteSetTheorems,
        WellFoundedInduction, TLAPS

LEMMA SeqOfType == ASSUME NEW packet \in Nat PROVE SeqOf(packet) \in Seqs
BY ConstantsAssumption DEF SeqOf, Seqs

LEMMA InitIInv == Init => IInv
<1> SUFFICES ASSUME Init PROVE IInv
  OBVIOUS
<1> USE ConstantsAssumption DEF Init, Seqs
<1>1. TypeOK
  <2>1. initialized \in BOOLEAN
    BY Zenon
  <2>2. honoured \in [Seqs -> Nat]
    OBVIOUS
  <2>3. /\ sent \in 0 .. MaxSend /\ max_seq \in Seqs /\ accepted \in Nat
        /\ rejected \in 0 .. MaxRejected /\ newest \in -1 .. MaxSend - 1
    OBVIOUS
  <2> QED
    BY <2>1, <2>2, <2>3 DEF TypeOK
<1>2. WindowExact
  BY DEF WindowExact
<1>3. HighWaterMark
  BY DEF HighWaterMark
<1> QED
  BY <1>1, <1>2, <1>3 DEF IInv

(* Whatever is accepted, the invariant needs the new window to be exact    *)
(* for the new mark and the new mark to bound every accepted number.       *)
LEMMA FirstPacketIInv ==
  ASSUME IInv, NEW packet \in 0 .. sent - 1, FirstPacket(packet)
  PROVE  IInv' /\ honoured[SeqOf(packet)] = 0
<1> DEFINE q == SeqOf(packet)
<1>1. q \in Seqs /\ packet \in 0 .. MaxSend - 1
  BY SeqOfType, ConstantsAssumption DEF IInv, TypeOK
<1> HIDE DEF q
<1>2. /\ max_seq' = q /\ window' = {0} /\ initialized' = TRUE
      /\ honoured' = [honoured EXCEPT ![q] = @ + 1]
      /\ accepted' = accepted + 1 /\ UNCHANGED <<sent, rejected, refused>>
      /\ newest' = IF packet > newest THEN packet ELSE newest
      /\ ~initialized
  BY DEF FirstPacket, Accept, Seen, q
<1>3. \A s \in Seqs : honoured[s] = 0
  BY <1>2 DEF IInv, HighWaterMark
<1>4. TypeOK'
  BY <1>1, <1>2, ConstantsAssumption DEF IInv, TypeOK
<1>5. \A s \in Seqs : honoured'[s] = IF s = q THEN 1 ELSE 0
  BY <1>1, <1>2, <1>3 DEF IInv, TypeOK
<1>6. WindowExact'
  BY <1>1, <1>2, <1>5, ConstantsAssumption DEF WindowExact, Seqs
<1>7. HighWaterMark'
  BY <1>1, <1>2, <1>5, ConstantsAssumption DEF HighWaterMark, Seqs
<1> QED
  BY <1>1, <1>3, <1>4, <1>6, <1>7 DEF IInv, q

LEMMA NewHighWaterIInv ==
  ASSUME IInv, NEW packet \in 0 .. sent - 1, NewHighWater(packet)
  PROVE  IInv' /\ honoured[SeqOf(packet)] = 0
<1> DEFINE q == SeqOf(packet)
           shift == q - max_seq
<1>1. /\ q \in Seqs /\ packet \in 0 .. MaxSend - 1
      /\ q \in Nat /\ max_seq \in Nat /\ q <= MaxSeq /\ WindowSize \in Nat
  BY SeqOfType, ConstantsAssumption DEF IInv, TypeOK, Seqs
<1> HIDE DEF q
<1>2. /\ max_seq' = q /\ window' = NextWindow(shift) /\ initialized /\ initialized'
      /\ shift > 0
      /\ honoured' = [honoured EXCEPT ![q] = @ + 1]
      /\ accepted' = accepted + 1 /\ UNCHANGED <<sent, rejected, refused>>
      /\ newest' = IF packet > newest THEN packet ELSE newest
  BY DEF NewHighWater, Accept, Seen, q
<1>3. \A s \in Seqs : s > max_seq => honoured[s] = 0
  BY <1>1, <1>2, ConstantsAssumption DEF IInv, TypeOK, HighWaterMark, Seqs
<1>4. honoured[q] = 0
  BY <1>1, <1>2, <1>3
<1>5. \A s \in Seqs : honoured'[s] = IF s = q THEN 1 ELSE honoured[s]
  BY <1>1, <1>2, <1>4 DEF IInv, TypeOK
<1>6. TypeOK'
  <2>1. window' \subseteq 0 .. WindowSize - 1
    BY <1>2, ConstantsAssumption DEF NextWindow
  <2> QED
    BY <2>1, <1>1, <1>2, ConstantsAssumption DEF IInv, TypeOK
<1>7. WindowExact'
  <2> SUFFICES ASSUME NEW age \in 0 .. WindowSize - 1
      PROVE age \in window' <=> (age <= q /\ honoured'[q - age] > 0)
    BY <1>2 DEF WindowExact
  <2>1. age \in Nat
    BY <1>1
  <2>2. CASE age = 0
    BY <2>2, <1>1, <1>2, <1>5 DEF NextWindow
  <2>3. CASE age > 0 /\ age < shift
    <3>1. age \notin window'
      <4>1. ~(age - shift \in window)
        BY <2>1, <2>3, <1>1 DEF IInv, TypeOK
      <4> QED
        BY <4>1, <2>3, <1>1, <1>2 DEF NextWindow
    <3>2. q - age \in Seqs /\ q - age > max_seq /\ q - age # q
      BY <2>1, <2>3, <1>1, ConstantsAssumption DEF Seqs
    <3> QED
      BY <3>1, <3>2, <1>3, <1>5
  <2>4. CASE age >= shift
    <3>1. ~(shift >= WindowSize)
      BY <2>4, <2>1, <1>1
    <3>2. age \in window' <=> age - shift \in window
      BY <2>4, <3>1, <2>1, <1>1, <1>2 DEF NextWindow
    <3>3. age - shift \in 0 .. WindowSize - 1
      BY <2>4, <2>1, <1>1, <1>2
    <3>4. age - shift \in window
          <=> (age - shift <= max_seq /\ honoured[max_seq - (age - shift)] > 0)
      BY <3>3 DEF IInv, WindowExact
    <3>5. max_seq - (age - shift) = q - age /\ (age - shift <= max_seq <=> age <= q)
      BY <2>1, <1>1
    <3>6. age <= q => q - age \in Seqs /\ q - age # q
      BY <2>1, <2>4, <1>1, <1>2, ConstantsAssumption DEF Seqs
    <3> QED
      BY <3>2, <3>4, <3>5, <3>6, <1>5
  <2> QED
    BY <2>1, <2>2, <2>3, <2>4, <1>1
<1>8. HighWaterMark'
  BY <1>1, <1>2, <1>3, <1>5, ConstantsAssumption DEF HighWaterMark, Seqs
<1> QED
  BY <1>4, <1>6, <1>7, <1>8 DEF IInv, q

LEMMA LateInWindowIInv ==
  ASSUME IInv, NEW packet \in 0 .. sent - 1, LateInWindow(packet)
  PROVE  IInv' /\ honoured[SeqOf(packet)] = 0
<1> DEFINE q == SeqOf(packet)
           a == max_seq - q
<1>1. /\ q \in Seqs /\ packet \in 0 .. MaxSend - 1
      /\ q \in Nat /\ max_seq \in Nat /\ q <= MaxSeq /\ WindowSize \in Nat
  BY SeqOfType, ConstantsAssumption DEF IInv, TypeOK, Seqs
<1> HIDE DEF q
<1>2. /\ a > 0 /\ a < WindowSize /\ a \notin window /\ initialized
      /\ window' = window \cup {a}
      /\ honoured' = [honoured EXCEPT ![q] = @ + 1]
      /\ accepted' = accepted + 1 /\ UNCHANGED <<sent, rejected, refused>>
      /\ newest' = IF packet > newest THEN packet ELSE newest
      /\ UNCHANGED <<max_seq, initialized>>
  BY DEF LateInWindow, Accept, Seen, q
<1>3. a \in 0 .. WindowSize - 1 /\ max_seq - a = q /\ a <= max_seq
  BY <1>1, <1>2
<1>4. honoured[q] = 0
  BY <1>1, <1>2, <1>3 DEF IInv, TypeOK, WindowExact
<1>5. \A s \in Seqs : honoured'[s] = IF s = q THEN 1 ELSE honoured[s]
  BY <1>1, <1>2, <1>4 DEF IInv, TypeOK
<1>6. TypeOK'
  BY <1>1, <1>2, <1>3, ConstantsAssumption DEF IInv, TypeOK
<1>7. WindowExact'
  <2> SUFFICES ASSUME NEW age \in 0 .. WindowSize - 1
      PROVE age \in window' <=> (age <= max_seq /\ honoured'[max_seq - age] > 0)
    BY <1>2 DEF WindowExact
  <2>1. age \in window <=> (age <= max_seq /\ honoured[max_seq - age] > 0)
    BY DEF IInv, WindowExact
  <2>2. CASE age = a
    BY <2>2, <1>1, <1>2, <1>3, <1>5
  <2>3. CASE age # a
    <3>1. age <= max_seq => max_seq - age \in Seqs /\ max_seq - age # q
      BY <2>3, <1>1, ConstantsAssumption DEF Seqs, IInv, TypeOK
    <3> QED
      BY <2>1, <2>3, <3>1, <1>2, <1>5
  <2> QED
    BY <2>2, <2>3
<1>8. HighWaterMark'
  BY <1>1, <1>2, <1>5 DEF IInv, TypeOK, HighWaterMark
<1> QED
  BY <1>4, <1>6, <1>7, <1>8 DEF IInv, q

LEMMA RejectIInv ==
  ASSUME IInv, NEW packet \in 0 .. sent - 1, Reject(packet)
  PROVE  IInv'
<1>1. packet \in 0 .. MaxSend - 1
  BY ConstantsAssumption DEF IInv, TypeOK
<1>2. TypeOK'
  BY <1>1, ConstantsAssumption DEF IInv, TypeOK, Reject, Seen
<1>3. WindowExact' /\ HighWaterMark'
  BY DEF IInv, WindowExact, HighWaterMark, Reject
<1> QED
  BY <1>2, <1>3 DEF IInv

LEMMA ResetIInv ==
  ASSUME IInv, Reset
  PROVE  IInv'
<1>1. TypeOK'
  <2>1. initialized' \in BOOLEAN
    BY Zenon DEF Reset
  <2>2. honoured' \in [Seqs -> Nat]
    BY DEF Reset
  <2>3. /\ max_seq' \in Seqs /\ accepted' \in Nat /\ window' = {}
        /\ rejected' \in 0 .. MaxRejected
    BY ConstantsAssumption DEF Reset, Seqs
  <2> QED
    BY <2>1, <2>2, <2>3 DEF IInv, TypeOK, Reset
<1>2. \A s \in Seqs : ~(honoured'[s] > 0)
  BY DEF Reset
<1>3. WindowExact'
  <2>1. \A age \in 0 .. WindowSize - 1 : age <= max_seq' => max_seq' - age \in Seqs
    BY ConstantsAssumption DEF Reset, Seqs
  <2>2. window' = {}
    BY DEF Reset
  <2> QED
    BY <1>2, <2>1, <2>2 DEF WindowExact
<1>4. HighWaterMark'
  BY DEF HighWaterMark, Reset
<1> QED
  BY <1>1, <1>3, <1>4 DEF IInv

LEMMA NextSeqIInv ==
  ASSUME IInv, NextSeq
  PROVE  IInv'
BY ConstantsAssumption
   DEF IInv, TypeOK, WindowExact, HighWaterMark, NextSeq, validator

LEMMA StutterIInv ==
  ASSUME IInv, UNCHANGED vars
  PROVE  IInv'
BY DEF IInv, TypeOK, WindowExact, HighWaterMark, vars

LEMMA NextIInv == IInv /\ [Next]_vars => IInv'
<1> SUFFICES ASSUME IInv, [Next]_vars PROVE IInv'
  OBVIOUS
<1>1. ASSUME NEW packet \in 0 .. sent - 1, Validate(packet) PROVE IInv'
  BY <1>1, FirstPacketIInv, NewHighWaterIInv, LateInWindowIInv, RejectIInv
     DEF Validate, TooOld, Duplicate
<1> QED
  BY <1>1, NextSeqIInv, ResetIInv, StutterIInv DEF Next

(* The bitmap and the high water mark describe exactly the set of numbers  *)
(* accepted since the last reset, as far as the window reaches.            *)
THEOREM Invariance == Spec => []IInv
BY InitIInv, NextIInv, PTL DEF Spec

(* The bitmap never forgets or invents an acceptance inside its window.    *)
THEOREM Exactness == Spec => []WindowExact
<1>1. IInv => WindowExact
  BY DEF IInv
<1> QED
  BY <1>1, Invariance, PTL

-----------------------------------------------------------------------------

LEMMA AcceptHonours ==
  ASSUME IInv, NEW packet \in 0 .. sent - 1, Accept(packet),
         honoured[SeqOf(packet)] = 0
  PROVE  Filter!Next
<1>1. SeqOf(packet) \in Seqs
  BY SeqOfType DEF IInv, TypeOK
<1>2. honoured' = [honoured EXCEPT ![SeqOf(packet)] = 1]
  BY <1>1 DEF Accept, IInv, TypeOK
<1> QED
  BY <1>1, <1>2 DEF Filter!Next, Filter!Honour

LEMMA StepHonours ==
  ASSUME IInv, [Next]_vars
  PROVE  [Filter!Next \/ Filter!NewEpoch]_honoured
<1>1. ASSUME NEW packet \in 0 .. sent - 1, Validate(packet)
      PROVE  [Filter!Next \/ Filter!NewEpoch]_honoured
  <2>1. CASE FirstPacket(packet)
    BY <2>1, AcceptHonours, FirstPacketIInv DEF FirstPacket
  <2>2. CASE NewHighWater(packet)
    BY <2>2, AcceptHonours, NewHighWaterIInv DEF NewHighWater
  <2>3. CASE LateInWindow(packet)
    BY <2>3, AcceptHonours, LateInWindowIInv DEF LateInWindow
  <2>4. CASE TooOld(packet) \/ Duplicate(packet)
    BY <2>4 DEF TooOld, Duplicate, Reject
  <2> QED
    BY <1>1, <2>1, <2>2, <2>3, <2>4 DEF Validate
<1>2. CASE Reset
  BY <1>2 DEF Reset, Filter!NewEpoch, Filter!Fresh
<1>3. CASE NextSeq \/ UNCHANGED vars
  BY <1>3 DEF NextSeq, vars
<1> QED
  BY <1>1, <1>2, <1>3 DEF Next

(* validate() is an at-most-once filter between two resets, for every      *)
(* window size, counter range and order of arrival, also across the wrap.  *)
THEOREM Refinement == Spec => ImplementsAtMostOncePerEpoch
<1>1. Init => Filter!Init
  BY DEF Init, Filter!Init, Filter!Fresh
<1>2. IInv /\ [Next]_vars => [Filter!Next \/ Filter!NewEpoch]_honoured
  BY StepHonours
<1> QED
  BY <1>1, <1>2, Invariance, PTL
     DEF Spec, ImplementsAtMostOncePerEpoch, Filter!EpochSpec

-----------------------------------------------------------------------------

(* As long as no packet past the wrap was seen, the mark is the number of  *)
(* a packet seen, so it is no larger than the newest of them.              *)
MarkBelowWrap == newest <= MaxSeq => (initialized => max_seq <= newest)

FreshInv == IInv /\ MarkBelowWrap /\ FreshRefusedOnlyAfterWrap

LEMMA SeqOfBelowWrap ==
  ASSUME NEW packet \in Nat, packet <= MaxSeq PROVE SeqOf(packet) = packet
BY ConstantsAssumption DEF SeqOf

(* An accepted packet either leaves the mark or becomes it.                *)
LEMMA AcceptFresh ==
  ASSUME FreshInv, NEW packet \in 0 .. sent - 1, Accept(packet),
         max_seq' = SeqOf(packet) \/ (initialized /\ max_seq' = max_seq)
  PROVE  MarkBelowWrap' /\ FreshRefusedOnlyAfterWrap'
<1>1. /\ packet \in Nat /\ newest \in Int /\ max_seq \in Nat /\ MaxSeq \in Nat
      /\ SeqOf(packet) \in Nat
  BY SeqOfType, ConstantsAssumption DEF FreshInv, IInv, TypeOK, Seqs
<1>2. newest' = (IF packet > newest THEN packet ELSE newest) /\ refused' = refused
  BY DEF Accept, Seen
<1>3. packet <= newest' /\ newest <= newest' /\ newest' \in Int
  BY <1>1, <1>2
<1>4. newest' <= MaxSeq => max_seq' <= newest'
  <2> SUFFICES ASSUME newest' <= MaxSeq PROVE max_seq' <= newest'
    OBVIOUS
  <2>1. CASE max_seq' = SeqOf(packet)
    BY <2>1, <1>1, <1>3, SeqOfBelowWrap
  <2>2. CASE initialized /\ max_seq' = max_seq
    BY <2>2, <1>1, <1>3 DEF FreshInv, MarkBelowWrap
  <2> QED
    BY <2>1, <2>2
<1>5. FreshRefusedOnlyAfterWrap'
  BY <1>2 DEF FreshInv, FreshRefusedOnlyAfterWrap
<1> QED
  BY <1>4, <1>5 DEF MarkBelowWrap

(* A packet is refused for being at or below the mark; newer than all and  *)
(* below the wrap it would be above it.                                    *)
LEMMA RejectFresh ==
  ASSUME FreshInv, NEW packet \in 0 .. sent - 1, Reject(packet), initialized,
         max_seq - SeqOf(packet) >= 0
  PROVE  MarkBelowWrap' /\ FreshRefusedOnlyAfterWrap'
<1>1. /\ packet \in Nat /\ newest \in Int /\ max_seq \in Nat /\ MaxSeq \in Nat
      /\ SeqOf(packet) \in Nat /\ refused \subseteq Nat
  BY SeqOfType, ConstantsAssumption DEF FreshInv, IInv, TypeOK, Seqs
<1>2. /\ newest' = (IF packet > newest THEN packet ELSE newest)
      /\ refused' = (IF packet > newest THEN refused \cup {packet} ELSE refused)
      /\ max_seq' = max_seq
  BY DEF Reject, Seen
<1>3. packet > newest => packet > MaxSeq
  BY <1>1, SeqOfBelowWrap DEF FreshInv, MarkBelowWrap
<1>4. newest' <= MaxSeq => max_seq' <= newest'
  BY <1>1, <1>2, <1>3 DEF FreshInv, MarkBelowWrap
<1>5. FreshRefusedOnlyAfterWrap'
  BY <1>1, <1>2, <1>3 DEF FreshInv, FreshRefusedOnlyAfterWrap
<1> QED
  BY <1>4, <1>5 DEF MarkBelowWrap

LEMMA NextFresh == FreshInv /\ [Next]_vars => FreshInv'
<1> SUFFICES ASSUME FreshInv, [Next]_vars PROVE FreshInv'
  OBVIOUS
<1> SUFFICES MarkBelowWrap' /\ FreshRefusedOnlyAfterWrap'
  BY NextIInv, Zenon DEF FreshInv
<1>1. ASSUME NEW packet \in 0 .. sent - 1, Validate(packet)
      PROVE  MarkBelowWrap' /\ FreshRefusedOnlyAfterWrap'
  <2>1. CASE FirstPacket(packet) \/ NewHighWater(packet)
    BY <2>1, AcceptFresh DEF FirstPacket, NewHighWater
  <2>2. CASE LateInWindow(packet)
    BY <2>2, AcceptFresh DEF LateInWindow
  <2>3. max_seq \in Int /\ SeqOf(packet) \in Int /\ WindowSize \in Nat
    BY SeqOfType, ConstantsAssumption DEF FreshInv, IInv, TypeOK, Seqs
  <2>4. CASE TooOld(packet) \/ Duplicate(packet)
    BY <2>3, <2>4, RejectFresh DEF TooOld, Duplicate
  <2> QED
    BY <1>1, <2>1, <2>2, <2>4 DEF Validate
<1>2. CASE Reset
  BY <1>2, Zenon DEF Reset, FreshInv, MarkBelowWrap, FreshRefusedOnlyAfterWrap
<1>3. CASE NextSeq \/ UNCHANGED vars
  <2>1. /\ initialized' = initialized /\ max_seq' = max_seq
        /\ newest' = newest /\ refused' = refused
    BY <1>3 DEF NextSeq, vars, validator
  <2> QED
    BY <2>1, Zenon DEF FreshInv, MarkBelowWrap, FreshRefusedOnlyAfterWrap
<1> QED
  BY <1>1, <1>2, <1>3, Zenon DEF Next

(* validate() loses no fresh traffic below the wrap of the counter: what   *)
(* it refuses is never newer than everything before it, unless 2^32        *)
(* packets were sent.                                                      *)
THEOREM FreshIsAccepted == Spec => []FreshRefusedOnlyAfterWrap
<1>1. Init => FreshInv
  BY InitIInv DEF Init, FreshInv, MarkBelowWrap, FreshRefusedOnlyAfterWrap
<1>2. FreshInv => FreshRefusedOnlyAfterWrap
  BY DEF FreshInv
<1> QED
  BY <1>1, <1>2, NextFresh, PTL DEF Spec

-----------------------------------------------------------------------------

(* The session guard counts messages and ticks; between two of them its    *)
(* owner asks, so no limit is reached without the warning before it.       *)
GuardInv ==
  /\ guard_sent \in Nat /\ messages_received \in Nat /\ elapsed \in Nat
  /\ valid \in BOOLEAN /\ warned \in BOOLEAN
  /\ elapsed <= max_duration
  /\ Keeping!WarnedBeforeExpiry

LEMMA GuardSizes ==
  /\ max_messages \in Nat /\ max_messages > 0
  /\ max_duration \in Nat /\ max_duration > 0 /\ warning_percent \in Nat
  /\ (max_messages - 1) * 100 >= warning_percent * max_messages
  /\ (max_duration - 1) * 100 >= warning_percent * max_duration
BY ServicesSizes DEF Keeping!GuardConstants

(* One message or tick before a limit the advice is already given.         *)
LEMMA NearTheLimit ==
  ASSUME GuardInv, Keeping!Validate # "SessionExpired",
         \/ Keeping!TotalMessages + 1 >= max_messages
         \/ elapsed + 1 >= max_duration
  PROVE  Keeping!Validate = "RekeyRecommended"
<1> DEFINE total == Keeping!TotalMessages
           soft == warning_percent * max_messages
           late == warning_percent * max_duration
<1>1. total \in Nat /\ soft \in Int /\ late \in Int /\ elapsed \in Nat
  BY GuardSizes DEF GuardInv, Keeping!TotalMessages
<1>2. (max_messages - 1) * 100 >= soft /\ (max_duration - 1) * 100 >= late
  BY GuardSizes
<1>3. total * 100 >= soft \/ elapsed * 100 >= late => Keeping!NearLimit
  BY DEF Keeping!NearLimit
<1>4. total + 1 >= max_messages \/ elapsed + 1 >= max_duration
  OBVIOUS
<1> HIDE DEF total, soft, late
<1>5. total * 100 >= soft \/ elapsed * 100 >= late
  BY <1>1, <1>2, <1>4, GuardSizes
<1>6. Keeping!NearLimit
  BY <1>3, <1>5
<1> QED
  BY <1>6, Zenon DEF Keeping!Validate

LEMMA ExpiredIs ==
  Keeping!Validate = "SessionExpired"
    <=> ~valid \/ Keeping!TotalMessages >= max_messages \/ elapsed >= max_duration
BY DEF Keeping!Validate

LEMMA ExpiredIsNext ==
  (Keeping!Validate = "SessionExpired")'
    <=> ~valid' \/ Keeping!TotalMessages' >= max_messages \/ elapsed' >= max_duration
BY DEF Keeping!Validate

LEMMA GuardStep == GuardInv /\ [Keeping!GuardNext]_(Keeping!guardVars) => GuardInv'
<1> SUFFICES ASSUME GuardInv, [Keeping!GuardNext]_(Keeping!guardVars) PROVE GuardInv'
  OBVIOUS
<1> USE GuardSizes
<1>1. /\ guard_sent \in Nat /\ messages_received \in Nat /\ elapsed \in Nat
      /\ elapsed <= max_duration
  BY DEF GuardInv
<1>2. /\ valid \in BOOLEAN /\ warned \in BOOLEAN
      /\ Keeping!TotalMessages <= max_messages
      /\ valid /\ Keeping!Validate = "SessionExpired" => warned
  BY Zenon DEF GuardInv, Keeping!WarnedBeforeExpiry
<1>3. ASSUME valid' = valid, warned' = warned,
             guard_sent' \in Nat, messages_received' \in Nat, elapsed' \in Nat,
             \/ Keeping!TotalMessages' = Keeping!TotalMessages + 1 /\ elapsed' = elapsed
             \/ Keeping!TotalMessages' = Keeping!TotalMessages /\ elapsed' = elapsed + 1,
             Keeping!Validate # "SessionExpired",
             Keeping!Validate = "RekeyRecommended" => warned
      PROVE  GuardInv'
  <2>1. /\ Keeping!TotalMessages \in Nat
        /\ valid /\ Keeping!TotalMessages < max_messages /\ elapsed < max_duration
    BY <1>1, <1>3, ExpiredIs DEF Keeping!TotalMessages
  <2>2. Keeping!TotalMessages' <= max_messages /\ elapsed' <= max_duration
    BY <1>1, <1>3, <2>1
  <2>3. ASSUME (Keeping!Validate = "SessionExpired")' PROVE warned'
    <3>1. valid'
      BY <1>3, <2>1, Zenon
    <3>2. Keeping!TotalMessages' >= max_messages \/ elapsed' >= max_duration
      BY <2>3, <3>1, ExpiredIsNext, Zenon
    <3>3. Keeping!TotalMessages + 1 >= max_messages \/ elapsed + 1 >= max_duration
      BY <1>1, <1>3, <2>1, <3>2
    <3>4. Keeping!Validate = "RekeyRecommended"
      BY <1>3, <3>3, NearTheLimit
    <3> QED
      BY <1>3, <3>4, Zenon
  <2>4. valid' \in BOOLEAN /\ warned' \in BOOLEAN
    BY <1>2, <1>3, Zenon
  <2> QED
    BY <1>3, <2>2, <2>3, <2>4, Zenon DEF GuardInv, Keeping!WarnedBeforeExpiry
<1>4. CASE Keeping!Ask \/ Keeping!Invalidate \/ UNCHANGED Keeping!guardVars
  <2>1. /\ guard_sent' = guard_sent /\ messages_received' = messages_received
        /\ elapsed' = elapsed
    BY <1>4 DEF Keeping!Ask, Keeping!Invalidate, Keeping!guardVars
  <2>2. valid' = valid \/ valid' = FALSE
    BY <1>4, Zenon DEF Keeping!Ask, Keeping!Invalidate, Keeping!guardVars
  <2>3. warned' = warned \/ warned' = (warned \/ Keeping!Validate = "RekeyRecommended")
    BY <1>4, Zenon DEF Keeping!Ask, Keeping!Invalidate, Keeping!guardVars
  <2>4. Keeping!TotalMessages' = Keeping!TotalMessages
    BY <2>1 DEF Keeping!TotalMessages
  <2>5. valid' \in BOOLEAN /\ warned' \in BOOLEAN /\ (warned => warned') /\ (valid' => valid)
    <3>1. valid' \in BOOLEAN /\ (valid' => valid)
      <4>1. CASE valid' = valid
        BY <1>2, <4>1, Zenon
      <4>2. CASE valid' = FALSE
        BY <4>2, Zenon
      <4> QED
        BY <2>2, <4>1, <4>2, Zenon
    <3>2. CASE warned' = warned
      BY <1>2, <3>1, <3>2, Zenon
    <3>3. CASE warned' = (warned \/ Keeping!Validate = "RekeyRecommended")
      <4>1. warned' = TRUE \/ warned' = warned
        BY <1>2, <3>3, Zenon
      <4> QED
        BY <1>2, <3>1, <4>1, Zenon
    <3> QED
      BY <2>3, <3>2, <3>3, Zenon
  <2>6. valid' /\ (Keeping!Validate = "SessionExpired")' => Keeping!Validate = "SessionExpired"
    BY <2>1, <2>4, ExpiredIs, ExpiredIsNext, Zenon
  <2>7. Keeping!WarnedBeforeExpiry'
    BY <1>2, <2>4, <2>5, <2>6, Zenon DEF Keeping!WarnedBeforeExpiry
  <2> QED
    BY <1>1, <2>1, <2>5, <2>7, Zenon DEF GuardInv
<1>5. ASSUME Keeping!Validate = "RekeyRecommended" => warned,
             Keeping!RecordSend \/ Keeping!RecordReceive \/ Keeping!Tick
      PROVE  GuardInv'
  <2>1. CASE Keeping!RecordSend \/ Keeping!RecordReceive
    <3>1. /\ valid' = valid /\ warned' = warned /\ Keeping!Validate # "SessionExpired"
      BY <2>1, Zenon DEF Keeping!RecordSend, Keeping!RecordReceive
    <3>2. /\ guard_sent' \in Nat /\ messages_received' \in Nat /\ elapsed' = elapsed
          /\ Keeping!TotalMessages' = Keeping!TotalMessages + 1
      BY <1>1, <2>1 DEF Keeping!RecordSend, Keeping!RecordReceive, Keeping!TotalMessages
    <3>3. elapsed' \in Nat
      BY <1>1, <3>2
    <3> QED
      BY <1>3, <1>5, <3>1, <3>2, <3>3, Zenon
  <2>2. CASE Keeping!Tick
    <3>1. /\ valid' = valid /\ warned' = warned
      BY <2>2, Zenon DEF Keeping!Tick
    <3>2. /\ guard_sent' = guard_sent /\ messages_received' = messages_received
          /\ elapsed < max_duration /\ elapsed' = elapsed + 1
          /\ Keeping!TotalMessages' = Keeping!TotalMessages
      BY <1>1, <2>2 DEF Keeping!Tick, Keeping!TotalMessages
    <3>3. CASE Keeping!Validate # "SessionExpired"
      <4>1. elapsed' \in Nat /\ guard_sent' \in Nat /\ messages_received' \in Nat
        BY <1>1, <3>2
      <4> QED
        BY <1>3, <1>5, <3>1, <3>2, <3>3, <4>1, Zenon
    <3>4. CASE Keeping!Validate = "SessionExpired"
      <4>1. Keeping!WarnedBeforeExpiry'
        BY <1>2, <3>1, <3>2, <3>4, Zenon DEF Keeping!WarnedBeforeExpiry
      <4>2. elapsed' \in Nat /\ elapsed' <= max_duration
        BY <1>1, <3>2
      <4> QED
        BY <1>1, <1>2, <3>1, <3>2, <4>1, <4>2, Zenon DEF GuardInv
    <3> QED
      BY <3>3, <3>4
  <2> QED
    BY <1>5, <2>1, <2>2
<1> QED
  BY <1>4, <1>5, Zenon DEF Keeping!GuardNext

LEMMA GuardInvariant == Keeping!GuardSpec => []GuardInv
<1>1. Keeping!GuardInit => GuardInv
  <2> SUFFICES ASSUME Keeping!GuardInit PROVE GuardInv
    OBVIOUS
  <2>1. valid \in BOOLEAN /\ warned \in BOOLEAN /\ valid
    BY Zenon DEF Keeping!GuardInit
  <2>2. guard_sent = 0 /\ messages_received = 0 /\ elapsed = 0
    BY DEF Keeping!GuardInit
  <2>3. Keeping!TotalMessages = 0
    BY <2>2 DEF Keeping!TotalMessages
  <2>4. ~(Keeping!TotalMessages >= max_messages) /\ ~(elapsed >= max_duration)
        /\ Keeping!TotalMessages <= max_messages /\ elapsed <= max_duration
    BY <2>2, <2>3, GuardSizes
  <2>5. Keeping!WarnedBeforeExpiry
    BY <2>1, <2>4, ExpiredIs, Zenon DEF Keeping!WarnedBeforeExpiry
  <2>6. guard_sent \in Nat /\ messages_received \in Nat /\ elapsed \in Nat
    BY <2>2
  <2> QED
    BY <2>1, <2>4, <2>5, <2>6, Zenon DEF GuardInv
<1> QED
  BY <1>1, GuardStep, PTL DEF Keeping!GuardSpec

(* An owner that asks after each message and each tick is told to renew    *)
(* the keys before validate() refuses the session, for all limits between  *)
(* which a message and a tick fit (session.rs 79-139).                     *)
THEOREM WarningComesFirst == Keeping!GuardSpec => []Keeping!WarnedBeforeExpiry
<1>1. GuardInv => Keeping!WarnedBeforeExpiry
  BY DEF GuardInv
<1> QED
  BY <1>1, GuardInvariant, PTL

-----------------------------------------------------------------------------

(* A nonempty set of numbers has a least one.                              *)
LEMMA LeastNumber ==
  ASSUME NEW S \in SUBSET Nat, S # {}
  PROVE  Drops!Min(S) \in S /\ \A x \in S : Drops!Min(S) <= x
<1> DEFINE R == OpToRel(<, Nat)
<1>1. PICK x \in S : \A y \in S : ~(<<y, x>> \in R)
  BY NatLessThanWellFounded, WFMin
<1>2. \A y \in S : <<y, x>> \in R <=> y < x
  BY DEF OpToRel
<1> HIDE DEF R
<1>3. \A y \in S : ~(y < x)
  BY <1>1, <1>2, Zenon
<1>4. \A y \in S : x <= y
  BY <1>3
<1> QED
  BY <1>4, Zenon DEF Drops!Min

(* The audit log.  Whatever is done to its entries by hand, none of them   *)
(* holds the initial key, which never left the logger.                     *)
EntryOf(S) == [sequence : Nat, severity : {"Info", "Critical"},
               data : {"logged", "altered"}, hmac : S]

Kept(log) == \E S : Keeping!InitialKey \notin S /\ log \in Seq(EntryOf(S))

(* The n HMACs as they were logged, each computed under the one before.    *)
KeyOf(hmacs, k) == IF k = 0 THEN Keeping!InitialKey ELSE hmacs[k]

ChainOf(hmacs, n) ==
  /\ \E S : hmacs \in Seq(S)
  /\ Len(hmacs) = n
  /\ \A k \in 1 .. n : hmacs[k] = Keeping!Hmac(KeyOf(hmacs, k - 1), k - 1, "logged")

(* A log that nobody changed: the last of what was logged.                 *)
EndOf(log, hmacs, n) ==
  /\ Len(log) <= n /\ (n > 0 => Len(log) > 0)
  /\ \A i \in 1 .. Len(log) : /\ log[i].hmac = hmacs[n - Len(log) + i]
                              /\ log[i].sequence = n - Len(log) + i - 1
                              /\ log[i].data = "logged"

AuditInv ==
  /\ Kept(entries) /\ Len(entries) <= max_entries
  /\ next_seq \in 0 .. MaxLogged /\ edits \in Nat
  /\ critical_count \in Nat /\ critical_count <= next_seq
  /\ ChainOf(logged, next_seq) /\ chain_key = KeyOf(logged, next_seq)
  /\ edits = 0 => EndOf(entries, logged, next_seq)

LEMMA AuditSizes == max_entries \in Nat /\ max_entries > 0 /\ MaxLogged \in Nat
BY ServicesSizes DEF Keeping!AuditConstants

(* An HMAC determines what it was computed over, and is not a random key.  *)
LEMMA HmacsDiffer ==
  ASSUME NEW k1, NEW q1, NEW d1, NEW k2, NEW q2, NEW d2
  PROVE  /\ Keeping!Hmac(k1, q1, d1) = Keeping!Hmac(k2, q2, d2)
              => k1 = k2 /\ q1 = q2 /\ d1 = d2
         /\ Keeping!Hmac(k1, q1, d1) # Keeping!InitialKey
         /\ Keeping!Forged # Keeping!InitialKey
BY DEF Keeping!Hmac, Keeping!InitialKey, Keeping!Forged

(* A sequence over one set is one over every set that holds its elements.  *)
LEMMA SeqWithin ==
  ASSUME NEW S, NEW s \in Seq(S), NEW T, S \subseteq T
  PROVE  s \in Seq(T)
OBVIOUS

LEMMA EntriesWithin ==
  ASSUME NEW S, NEW x, NEW log \in Seq(EntryOf(S))
  PROVE  log \in Seq(EntryOf(S \cup {x}))
<1>1. EntryOf(S) \subseteq EntryOf(S \cup {x})
  BY DEF EntryOf
<1> QED
  BY <1>1, SeqWithin

(* A log of which entries went at the front is the part behind them.       *)
LEMMA RotateKeeps ==
  ASSUME NEW S, NEW log \in Seq(S), Len(log) > 1
  PROVE  /\ Keeping!Rotate(log) \in Seq(S)
         /\ Len(Keeping!Rotate(log)) = Len(log) - (Len(log) \div 2)
         /\ \A i \in 1 .. Len(Keeping!Rotate(log)) :
              Keeping!Rotate(log)[i] = log[(Len(log) \div 2) + i]
<1> DEFINE n == Len(log)
           h == n \div 2
<1>1. n \in Nat /\ h \in Nat /\ h >= 1 /\ h < n
  OBVIOUS
<1> HIDE DEF h
<1>2. \A i \in h + 1 .. n : log[i] \in S
  BY <1>1, ElementOfSeq
<1>3. h + 1 \in Int /\ n \in Int /\ h + 1 <= n
  BY <1>1
<1>4. /\ SubSeq(log, h + 1, n) \in Seq(S)
      /\ Len(SubSeq(log, h + 1, n)) = n - (h + 1) + 1
      /\ \A i \in 1 .. n - (h + 1) + 1 : SubSeq(log, h + 1, n)[i] = log[(h + 1) + i - 1]
  BY <1>2, <1>3, SubSeqProperties
<1>5. n - (h + 1) + 1 = n - h /\ \A i \in Int : (h + 1) + i - 1 = h + i
  BY <1>1
<1>6. \A i \in 1 .. n - h : SubSeq(log, h + 1, n)[i] = log[h + i]
  <2> SUFFICES ASSUME NEW i \in 1 .. n - h PROVE SubSeq(log, h + 1, n)[i] = log[h + i]
    OBVIOUS
  <2>1. i \in 1 .. n - (h + 1) + 1 /\ (h + 1) + i - 1 = h + i
    BY <1>1
  <2>2. SubSeq(log, h + 1, n)[i] = log[(h + 1) + i - 1]
    BY <1>4, <2>1, Zenon
  <2> QED
    BY <2>1, <2>2, Zenon
<1>7. Len(SubSeq(log, h + 1, n)) = n - h
  BY <1>4, <1>5
<1>8. Keeping!Rotate(log) = SubSeq(log, h + 1, n)
  BY Zenon DEF Keeping!Rotate, h
<1>9. /\ Keeping!Rotate(log) \in Seq(S) /\ Len(Keeping!Rotate(log)) = n - h
      /\ \A i \in 1 .. n - h : Keeping!Rotate(log)[i] = log[h + i]
  BY <1>4, <1>6, <1>7, <1>8
<1> QED
  BY <1>9 DEF h

LEMMA RotateKeepsTheEnd ==
  ASSUME NEW S, NEW log \in Seq(S), Len(log) > 1, NEW hmacs, NEW n \in Nat,
         EndOf(log, hmacs, n)
  PROVE  EndOf(Keeping!Rotate(log), hmacs, n)
<1> DEFINE part == Keeping!Rotate(log)
           h == Len(log) \div 2
<1>1. /\ part \in Seq(S) /\ Len(part) = Len(log) - h
      /\ \A i \in 1 .. Len(part) : part[i] = log[h + i]
  BY RotateKeeps
<1>2. Len(log) \in Nat /\ h \in Nat /\ h < Len(log)
  OBVIOUS
<1> HIDE DEF part, h
<1>3. Len(part) <= n /\ Len(part) > 0
  BY <1>1, <1>2 DEF EndOf
<1>4. ASSUME NEW i \in 1 .. Len(part)
      PROVE  /\ part[i].hmac = hmacs[n - Len(part) + i]
             /\ part[i].sequence = n - Len(part) + i - 1
             /\ part[i].data = "logged"
  <2>1. part[i] = log[h + i]
    BY <1>1
  <2>2. h + i \in 1 .. Len(log) /\ n - Len(part) + i = n - Len(log) + (h + i)
    <3>1. i \in Nat /\ i >= 1 /\ i <= Len(log) - h
      BY <1>1, <1>2
    <3> QED
      BY <1>1, <1>2, <3>1
  <2> QED
    BY <2>1, <2>2 DEF EndOf
<1>5. EndOf(part, hmacs, n)
  BY <1>3, <1>4 DEF EndOf
<1> QED
  BY <1>5 DEF part

LEMMA AppendKeepsTheEnd ==
  ASSUME NEW S, NEW log \in Seq(S), NEW e \in S, NEW T, NEW hmacs \in Seq(T), NEW h \in T,
         NEW n \in Nat, Len(hmacs) = n, EndOf(log, hmacs, n),
         e.hmac = h, e.sequence = n, e.data = "logged"
  PROVE  EndOf(Append(log, e), Append(hmacs, h), n + 1)
<1> DEFINE longer == Append(log, e)
           more == Append(hmacs, h)
<1>1. /\ Len(longer) = Len(log) + 1 /\ longer[Len(log) + 1] = e
      /\ \A i \in 1 .. Len(log) : longer[i] = log[i]
  BY AppendProperties
<1>2. more[n + 1] = h /\ \A k \in 1 .. n : more[k] = hmacs[k]
  BY AppendProperties
<1>3. Len(log) \in Nat /\ Len(log) <= n
  BY DEF EndOf
<1> HIDE DEF longer, more
<1>4. ASSUME NEW i \in 1 .. Len(longer)
      PROVE  /\ longer[i].hmac = more[n + 1 - Len(longer) + i]
             /\ longer[i].sequence = n + 1 - Len(longer) + i - 1
             /\ longer[i].data = "logged"
  <2>1. n + 1 - Len(longer) + i = n - Len(log) + i
    BY <1>1, <1>3
  <2>2. CASE i = Len(log) + 1
    BY <1>1, <1>2, <1>3, <2>1, <2>2
  <2>3. CASE i # Len(log) + 1
    <3>1. i \in 1 .. Len(log) /\ n - Len(log) + i \in 1 .. n
      BY <1>1, <1>3, <2>3
    <3>2. /\ log[i].hmac = hmacs[n - Len(log) + i]
          /\ log[i].sequence = n - Len(log) + i - 1 /\ log[i].data = "logged"
      BY <3>1 DEF EndOf
    <3> QED
      BY <1>1, <1>2, <2>1, <3>1, <3>2
  <2> QED
    BY <2>2, <2>3
<1>5. Len(longer) <= n + 1 /\ Len(longer) > 0
  BY <1>1, <1>3
<1>6. EndOf(longer, more, n + 1)
  BY <1>4, <1>5 DEF EndOf
<1> QED
  BY <1>6 DEF longer, more

(* One more HMAC under the last one goes on with the chain.                *)
LEMMA ChainGoesOn ==
  ASSUME NEW hmacs, NEW n \in Nat, ChainOf(hmacs, n),
         NEW h, h = Keeping!Hmac(KeyOf(hmacs, n), n, "logged")
  PROVE  /\ ChainOf(Append(hmacs, h), n + 1) /\ KeyOf(Append(hmacs, h), n + 1) = h
<1> DEFINE more == Append(hmacs, h)
<1>1. PICK S : hmacs \in Seq(S)
  BY DEF ChainOf
<1>2. hmacs \in Seq(S \cup {h}) /\ Len(hmacs) = n
  BY <1>1, SeqWithin DEF ChainOf
<1>3. /\ more \in Seq(S \cup {h}) /\ Len(more) = n + 1 /\ more[n + 1] = h
      /\ \A k \in 1 .. n : more[k] = hmacs[k]
  BY <1>2, AppendProperties
<1> HIDE DEF more
<1>4. \A k \in 0 .. n : KeyOf(more, k) = KeyOf(hmacs, k)
  BY <1>3 DEF KeyOf
<1>5. ASSUME NEW k \in 1 .. n + 1
      PROVE  more[k] = Keeping!Hmac(KeyOf(more, k - 1), k - 1, "logged")
  <2>1. k - 1 \in 0 .. n
    OBVIOUS
  <2>2. KeyOf(more, k - 1) = KeyOf(hmacs, k - 1)
    BY <1>4, <2>1
  <2>3. CASE k = n + 1
    BY <1>3, <2>2, <2>3
  <2>4. CASE k # n + 1
    <3>1. k \in 1 .. n
      BY <2>4
    <3>2. hmacs[k] = Keeping!Hmac(KeyOf(hmacs, k - 1), k - 1, "logged")
      BY <3>1, Zenon DEF ChainOf
    <3> QED
      BY <1>3, <2>2, <3>1, <3>2, Zenon
  <2> QED
    BY <2>3, <2>4
<1>6. ChainOf(more, n + 1)
  BY <1>3, <1>5, Zenon DEF ChainOf
<1>7. KeyOf(more, n + 1) = h
  BY <1>3 DEF KeyOf
<1> QED
  BY <1>6, <1>7 DEF more

LEMMA LogStep ==
  ASSUME AuditInv, NEW severity \in {"Info", "Critical"}, Keeping!Log(severity)
  PROVE  AuditInv'
<1> DEFINE h == Keeping!Hmac(chain_key, next_seq, "logged")
           e == [sequence |-> next_seq, severity |-> severity, data |-> "logged", hmac |-> h]
           log == Append(entries, e)
           kept1 == IF Len(log) > max_entries THEN Keeping!Rotate(log) ELSE log
<1>1. /\ Len(entries) <= max_entries /\ next_seq \in Nat /\ next_seq < MaxLogged
      /\ critical_count \in Nat /\ critical_count <= next_seq /\ edits \in Nat
  BY AuditSizes DEF AuditInv, Keeping!Log
<1>2. /\ Kept(entries) /\ ChainOf(logged, next_seq) /\ chain_key = KeyOf(logged, next_seq)
      /\ edits = 0 => EndOf(entries, logged, next_seq)
  BY Zenon DEF AuditInv
<1>3. /\ entries' = kept1 /\ chain_key' = e.hmac /\ logged' = Append(logged, e.hmac)
      /\ next_seq' = next_seq + 1 /\ edits' = edits
      /\ critical_count' = critical_count + (IF severity \in {"Critical", "Fatal"} THEN 1 ELSE 0)
  BY Zenon DEF Keeping!Log, Keeping!Advance
<1>4. e.hmac = h /\ e.sequence = next_seq /\ e.data = "logged"
  OBVIOUS
<1>5. PICK R : Keeping!InitialKey \notin R /\ entries \in Seq(EntryOf(R))
  BY <1>2 DEF Kept
<1> DEFINE S == R \cup {h}
<1>6. h # Keeping!InitialKey
  BY HmacsDiffer
<1>7. Keeping!InitialKey \notin S /\ entries \in Seq(EntryOf(S))
  BY <1>5, <1>6, EntriesWithin
<1>8. e \in EntryOf(S)
  BY <1>1 DEF EntryOf
<1>9. ChainOf(Append(logged, h), next_seq + 1) /\ KeyOf(Append(logged, h), next_seq + 1) = h
  BY <1>1, <1>2, ChainGoesOn
<1>10. PICK T : logged \in Seq(T)
  BY <1>2 DEF ChainOf
<1>11. logged \in Seq(T \cup {h}) /\ Len(logged) = next_seq
  BY <1>2, <1>10, SeqWithin DEF ChainOf
<1> HIDE DEF h, e, S
<1>12. /\ log \in Seq(EntryOf(S)) /\ Len(log) = Len(entries) + 1 /\ Len(entries) \in Nat
  BY <1>7, <1>8, AppendProperties
<1>13. edits = 0 => EndOf(log, Append(logged, h), next_seq + 1)
  BY <1>1, <1>2, <1>4, <1>7, <1>8, <1>11, AppendKeepsTheEnd
<1>14. next_seq + 1 \in Nat
  BY <1>1
<1> HIDE DEF log
<1>15. /\ kept1 \in Seq(EntryOf(S)) /\ Len(kept1) <= max_entries
       /\ edits = 0 => EndOf(kept1, Append(logged, h), next_seq + 1)
  <2>1. CASE ~(Len(log) > max_entries)
    BY <1>1, <1>12, <1>13, <2>1, AuditSizes
  <2>2. CASE Len(log) > max_entries
    <3>1. Len(log) > 1 /\ Len(log) = max_entries + 1
      BY <1>1, <1>12, <2>2, AuditSizes
    <3>2. /\ Keeping!Rotate(log) \in Seq(EntryOf(S))
          /\ Len(Keeping!Rotate(log)) = Len(log) - (Len(log) \div 2)
      BY <1>12, <3>1, RotateKeeps
    <3>3. Len(Keeping!Rotate(log)) <= max_entries
      BY <3>1, <3>2, AuditSizes
    <3>4. edits = 0 => EndOf(Keeping!Rotate(log), Append(logged, h), next_seq + 1)
      BY <1>12, <1>13, <1>14, <3>1, RotateKeepsTheEnd
    <3> QED
      BY <2>2, <3>2, <3>3, <3>4
  <2> QED
    BY <2>1, <2>2
<1> HIDE DEF kept1
<1>16. Kept(entries') /\ Len(entries') <= max_entries
  BY <1>3, <1>7, <1>15, Zenon DEF Kept
<1>17. /\ ChainOf(logged', next_seq') /\ chain_key' = KeyOf(logged', next_seq')
       /\ edits' = 0 => EndOf(entries', logged', next_seq')
  BY <1>3, <1>4, <1>9, <1>15, Zenon
<1>18. /\ next_seq' \in 0 .. MaxLogged /\ edits' \in Nat
       /\ critical_count' \in Nat /\ critical_count' <= next_seq'
  BY <1>1, <1>3, AuditSizes
<1> QED
  BY <1>16, <1>17, <1>18, Zenon DEF AuditInv

(* A change by hand leaves the logger's own variables alone.               *)
LEMMA EditStep ==
  ASSUME AuditInv, NEW log, Keeping!Edit(log), Kept(log), Len(log) <= max_entries
  PROVE  AuditInv'
<1>1. /\ entries' = log /\ edits' = edits + 1 /\ edits' # 0 /\ edits' \in Nat
  BY DEF AuditInv, Keeping!Edit
<1>2. UNCHANGED <<chain_key, next_seq, critical_count, logged>>
  BY Zenon DEF Keeping!Edit
<1> QED
  BY <1>1, <1>2, Zenon DEF AuditInv

LEMMA ReplaceStep ==
  ASSUME AuditInv, NEW i \in 1 .. Len(entries), NEW R, Keeping!InitialKey \notin R,
         entries \in Seq(EntryOf(R)), NEW e \in EntryOf(R), Keeping!Replace(i, e)
  PROVE  AuditInv'
<1> DEFINE log == [entries EXCEPT ![i] = e]
<1>1. log \in Seq(EntryOf(R)) /\ Len(log) = Len(entries)
  BY ExceptSeq
<1>2. Keeping!Edit(log)
  BY Zenon DEF Keeping!Replace
<1> HIDE DEF log
<1>3. Kept(log)
  BY <1>1, Zenon DEF Kept
<1>4. Len(log) <= max_entries
  BY <1>1, Zenon DEF AuditInv
<1> QED
  BY <1>2, <1>3, <1>4, EditStep

LEMMA AlterStep ==
  ASSUME AuditInv, NEW i \in 1 .. Len(entries), Keeping!Alter(i)
  PROVE  AuditInv'
<1>1. PICK S : Keeping!InitialKey \notin S /\ entries \in Seq(EntryOf(S))
  BY Zenon DEF AuditInv, Kept
<1> DEFINE R == S \cup {Keeping!Forged}
<1>2. Keeping!InitialKey \notin R /\ entries \in Seq(EntryOf(R)) /\ Keeping!Forged \in R
  BY <1>1, HmacsDiffer, EntriesWithin
<1> HIDE DEF R
<1>3. entries[i] \in EntryOf(R)
  BY <1>2, ElementOfSeq
<1>4. /\ [entries[i] EXCEPT !.data = "altered"] \in EntryOf(R)
      /\ [entries[i] EXCEPT !.severity = "Info"] \in EntryOf(R)
      /\ [entries[i] EXCEPT !.sequence = 0] \in EntryOf(R)
      /\ [entries[i] EXCEPT !.hmac = Keeping!Forged] \in EntryOf(R)
  BY <1>2, <1>3 DEF EntryOf
<1>5. \E e \in EntryOf(R) : Keeping!Replace(i, e)
  BY <1>4, Zenon DEF Keeping!Alter
<1> QED
  BY <1>2, <1>5, ReplaceStep

LEMMA RechainStep ==
  ASSUME AuditInv, NEW i \in 1 .. Len(entries), Keeping!Rechain(i)
  PROVE  AuditInv'
<1>1. PICK S : Keeping!InitialKey \notin S /\ entries \in Seq(EntryOf(S))
  BY Zenon DEF AuditInv, Kept
<1> DEFINE h == Keeping!Rechained(i)
           R == S \cup {h}
<1>2. h # Keeping!InitialKey
  BY HmacsDiffer DEF Keeping!Rechained
<1>3. Keeping!InitialKey \notin R /\ entries \in Seq(EntryOf(R)) /\ h \in R
  BY <1>1, <1>2, EntriesWithin
<1>4. Keeping!Replace(i, [entries[i] EXCEPT !.hmac = h])
  BY Zenon DEF Keeping!Rechain
<1> HIDE DEF R, h
<1>5. entries[i] \in EntryOf(R)
  BY <1>3, ElementOfSeq
<1>6. [entries[i] EXCEPT !.hmac = h] \in EntryOf(R)
  BY <1>3, <1>5 DEF EntryOf
<1> QED
  BY <1>3, <1>4, <1>6, ReplaceStep

LEMMA DeleteStep ==
  ASSUME AuditInv, NEW i \in 1 .. Len(entries), Keeping!Delete(i)
  PROVE  AuditInv'
<1> DEFINE front == SubSeq(entries, 1, i - 1)
           back == SubSeq(entries, i + 1, Len(entries))
<1>1. Keeping!Edit(front \o back)
  BY Zenon DEF Keeping!Delete, Keeping!RemoveAt
<1>2. PICK S : Keeping!InitialKey \notin S /\ entries \in Seq(EntryOf(S))
  BY Zenon DEF AuditInv, Kept
<1>3. \A j \in 1 .. Len(entries) : entries[j] \in EntryOf(S)
  BY <1>2, ElementOfSeq
<1>4. /\ Len(entries) \in Nat /\ i \in Int /\ 1 <= i /\ i <= Len(entries)
      /\ Len(entries) <= max_entries
  BY <1>2 DEF AuditInv
<1>5. /\ i - 1 \in Int /\ i + 1 \in Int
      /\ (\A j \in 1 .. i - 1 : entries[j] \in EntryOf(S))
      /\ (\A j \in i + 1 .. Len(entries) : entries[j] \in EntryOf(S))
  BY <1>3, <1>4
<1>6. front \in Seq(EntryOf(S)) /\ Len(front) = (IF 1 <= i - 1 THEN i - 1 - 1 + 1 ELSE 0)
  BY <1>5, SubSeqProperties
<1>7. /\ back \in Seq(EntryOf(S))
      /\ Len(back) = (IF i + 1 <= Len(entries) THEN Len(entries) - (i + 1) + 1 ELSE 0)
  BY <1>4, <1>5, SubSeqProperties
<1> HIDE DEF front, back
<1>8. front \o back \in Seq(EntryOf(S)) /\ Len(front \o back) = Len(front) + Len(back)
  BY <1>6, <1>7, ConcatProperties
<1>9. Len(front \o back) <= max_entries
  <2>1. Len(front) = i - 1
    BY <1>4, <1>6
  <2>2. Len(back) = Len(entries) - i
    BY <1>4, <1>7
  <2> QED
    BY <1>4, <1>8, <2>1, <2>2, AuditSizes
<1>10. Kept(front \o back)
  BY <1>2, <1>8, Zenon DEF Kept
<1> QED
  BY <1>1, <1>9, <1>10, EditStep

LEMMA AuditStep == AuditInv /\ [Keeping!AuditNext]_(Keeping!auditVars) => AuditInv'
<1> SUFFICES ASSUME AuditInv, [Keeping!AuditNext]_(Keeping!auditVars) PROVE AuditInv'
  OBVIOUS
<1>1. CASE UNCHANGED Keeping!auditVars
  BY <1>1, Zenon DEF AuditInv, Keeping!auditVars
<1>2. CASE Keeping!AuditNext
  BY <1>2, LogStep, AlterStep, RechainStep, DeleteStep, Zenon DEF Keeping!AuditNext
<1> QED
  BY <1>1, <1>2

(* One link of the chain, read from behind: when an entry holds an HMAC as *)
(* it was logged and the link to the one before it verifies, the entry     *)
(* says what was logged, and the one before holds the HMAC logged before.  *)
LEMMA LinkBack ==
  ASSUME NEW S, Keeping!InitialKey \notin S, entries \in Seq(EntryOf(S)),
         ChainOf(logged, next_seq), next_seq \in Nat,
         NEW i \in 2 .. Len(entries), NEW n \in 1 .. next_seq,
         entries[i].hmac = logged[n], entries[i].hmac = Keeping!Rechained(i)
  PROVE  /\ entries[i].sequence = n - 1 /\ entries[i].data = "logged"
         /\ n - 1 \in 1 .. next_seq /\ entries[i - 1].hmac = logged[n - 1]
<1>1. i - 1 \in 1 .. Len(entries)
  OBVIOUS
<1>2. entries[i - 1].hmac \in S
  <2>1. entries[i - 1] \in EntryOf(S)
    BY <1>1, ElementOfSeq
  <2> QED
    BY <2>1 DEF EntryOf
<1>3. Keeping!Rechained(i) = Keeping!Hmac(KeyOf(logged, n - 1), n - 1, "logged")
  BY Zenon DEF ChainOf
<1>4. /\ entries[i - 1].hmac = KeyOf(logged, n - 1)
      /\ entries[i].sequence = n - 1 /\ entries[i].data = "logged"
  <2>1. Keeping!Hmac(entries[i - 1].hmac, entries[i].sequence, entries[i].data)
          = Keeping!Hmac(KeyOf(logged, n - 1), n - 1, "logged")
    BY <1>3, Zenon DEF Keeping!Rechained
  <2> QED
    BY <2>1, HmacsDiffer
<1>5. n - 1 # 0
  BY <1>2, <1>4, Zenon DEF KeyOf
<1>6. n - 1 \in 1 .. next_seq
  BY <1>5
<1> QED
  BY <1>4, <1>5, <1>6, Zenon DEF KeyOf

(* One link read forwards: two entries that follow each other as they were *)
(* logged verify.                                                          *)
LEMMA LinkOn ==
  ASSUME ChainOf(logged, next_seq), next_seq \in Nat,
         NEW i \in 2 .. Len(entries), NEW n \in 2 .. next_seq,
         entries[i].hmac = logged[n], entries[i].sequence = n - 1,
         entries[i].data = "logged", entries[i - 1].hmac = logged[n - 1]
  PROVE  entries[i].hmac = Keeping!Rechained(i)
<1>1. n \in 1 .. next_seq /\ n - 1 # 0
  OBVIOUS
<1>2. logged[n] = Keeping!Hmac(KeyOf(logged, n - 1), n - 1, "logged")
  BY <1>1, Zenon DEF ChainOf
<1>3. KeyOf(logged, n - 1) = logged[n - 1]
  BY <1>1, Zenon DEF KeyOf
<1> QED
  BY <1>2, <1>3, Zenon DEF Keeping!Rechained

(* From an entry that holds an HMAC as it was logged, a chain that         *)
(* verifies leads back to the first entry, and all stand as logged: the    *)
(* entry nearest to the end that did not would break the link behind it.   *)
LEMMA ChainLeadsBack ==
  ASSUME NEW S, Keeping!InitialKey \notin S, entries \in Seq(EntryOf(S)),
         ChainOf(logged, next_seq), next_seq \in Nat, Keeping!VerifyChain,
         NEW n \in 1 .. next_seq, Len(entries) > 0,
         entries[Len(entries)].hmac = logged[n]
  PROVE  \A i \in 1 .. Len(entries) : Keeping!AsLogged(i, n - (Len(entries) - i))
<1> DEFINE At(i) == n - (Len(entries) - i)
           Stands(i) == At(i) \in 1 .. next_seq /\ entries[i].hmac = logged[At(i)]
           Off == {d \in 0 .. Len(entries) - 1 : ~Stands(Len(entries) - d)}
<1>1. Len(entries) \in Nat
  OBVIOUS
<1>2. ASSUME NEW i \in 2 .. Len(entries), Stands(i)
      PROVE  Stands(i - 1) /\ entries[i].sequence = At(i) - 1 /\ entries[i].data = "logged"
  <2>1. entries[i].hmac = Keeping!Rechained(i)
    BY Zenon DEF Keeping!VerifyChain
  <2>2. /\ entries[i].sequence = At(i) - 1 /\ entries[i].data = "logged"
        /\ At(i) - 1 \in 1 .. next_seq /\ entries[i - 1].hmac = logged[At(i) - 1]
    BY <1>2, <2>1, LinkBack
  <2>3. At(i - 1) = At(i) - 1
    BY <1>1
  <2> QED
    BY <2>2, <2>3
<1>3. Off = {}
  <2> SUFFICES ASSUME Off # {} PROVE FALSE
    OBVIOUS
  <2>1. Off \in SUBSET Nat
    BY <1>1
  <2>2. PICK d \in Off : \A x \in Off : d <= x
    <3> HIDE DEF Off
    <3> QED
      BY <2>1, LeastNumber
  <2>3. d # 0
    <3>1. At(Len(entries)) = n /\ Len(entries) - 0 = Len(entries)
      BY <1>1
    <3>2. Stands(Len(entries) - 0)
      BY <3>1
    <3> QED
      BY <3>2
  <2>4. d - 1 \in 0 .. Len(entries) - 1 /\ d - 1 < d /\ d \in Nat
    BY <1>1, <2>3
  <2>5. Stands(Len(entries) - (d - 1))
    <3>1. d - 1 \notin Off
      <4> HIDE DEF Off
      <4>1. ~(d <= d - 1)
        BY <2>4
      <4> QED
        BY <2>2, <4>1
    <3> QED
      BY <2>4, <3>1, Zenon
  <2>6. Len(entries) - (d - 1) \in 2 .. Len(entries)
        /\ Len(entries) - (d - 1) - 1 = Len(entries) - d
    BY <1>1, <2>3, <2>4
  <2> HIDE DEF Stands
  <2>7. Stands(Len(entries) - d)
    BY <1>2, <2>5, <2>6
  <2> QED
    BY <2>2, <2>7
<1>4. \A i \in 1 .. Len(entries) : Stands(i)
  <2> SUFFICES ASSUME NEW i \in 1 .. Len(entries) PROVE Stands(i)
    OBVIOUS
  <2>1. Len(entries) - i \in 0 .. Len(entries) - 1 /\ Len(entries) - (Len(entries) - i) = i
    BY <1>1
  <2> HIDE DEF Stands
  <2>2. Stands(Len(entries) - (Len(entries) - i))
    BY <1>3, <2>1
  <2> QED
    BY <2>1, <2>2
<1> SUFFICES ASSUME NEW i \in 1 .. Len(entries) PROVE Keeping!AsLogged(i, At(i))
  OBVIOUS
<1>5. At(i) >= 1 /\ entries[i].hmac = logged[At(i)]
  BY <1>4
<1>6. i > 1 => entries[i].sequence = At(i) - 1 /\ entries[i].data = "logged"
  <2> SUFFICES ASSUME i > 1
               PROVE  entries[i].sequence = At(i) - 1 /\ entries[i].data = "logged"
    OBVIOUS
  <2>1. i \in 2 .. Len(entries)
    BY <1>1
  <2> QED
    BY <1>2, <1>4, <2>1
<1> QED
  BY <1>5, <1>6, Zenon DEF Keeping!AsLogged

(* The verdict of verify_chain in both directions.                         *)
LEMMA VerdictOfChain == AuditInv => Keeping!ChainVerdictExact
<1> SUFFICES ASSUME AuditInv PROVE Keeping!ChainVerdictExact
  OBVIOUS
<1>1. PICK S : Keeping!InitialKey \notin S /\ entries \in Seq(EntryOf(S))
  BY Zenon DEF AuditInv, Kept
<1>2. ChainOf(logged, next_seq) /\ (edits = 0 => EndOf(entries, logged, next_seq))
  BY Zenon DEF AuditInv
<1>3. next_seq \in Nat /\ Len(entries) \in Nat
  BY <1>1, AuditSizes DEF AuditInv
<1>4. ASSUME edits = 0, next_seq > 0
      PROVE  Keeping!VerifyChain /\ Keeping!Last(entries).sequence = next_seq - 1
  <2>1. EndOf(entries, logged, next_seq)
    BY <1>2, <1>4
  <2>2. ASSUME NEW i \in 2 .. Len(entries) PROVE entries[i].hmac = Keeping!Rechained(i)
    <3> DEFINE n == next_seq - Len(entries) + i
    <3>1. /\ i \in 1 .. Len(entries) /\ i - 1 \in 1 .. Len(entries) /\ n \in 2 .. next_seq
          /\ next_seq - Len(entries) + (i - 1) = n - 1
      BY <1>3, <2>1 DEF EndOf
    <3>2. /\ entries[i].hmac = logged[n] /\ entries[i].sequence = n - 1
          /\ entries[i].data = "logged"
      BY <2>1, <3>1 DEF EndOf
    <3>3. entries[i - 1].hmac = logged[n - 1]
      BY <2>1, <3>1 DEF EndOf
    <3> QED
      BY <1>2, <1>3, <3>1, <3>2, <3>3, LinkOn
  <2>3. Len(entries) \in 1 .. Len(entries)
        /\ next_seq - Len(entries) + Len(entries) - 1 = next_seq - 1
    BY <1>3, <1>4, <2>1 DEF EndOf
  <2>4. entries[Len(entries)].sequence = next_seq - 1
    BY <2>1, <2>3 DEF EndOf
  <2> QED
    BY <2>2, <2>4, Zenon DEF Keeping!VerifyChain, Keeping!Last
<1>5. ASSUME NEW n \in 1 .. next_seq, entries # <<>>,
             Keeping!Last(entries).hmac = logged[n]
      PROVE  Keeping!VerifyChain <=>
               \A i \in 1 .. Len(entries) : Keeping!AsLogged(i, n - (Len(entries) - i))
  <2>1. Len(entries) > 0 /\ entries[Len(entries)].hmac = logged[n]
    <3>1. entries[Len(entries)].hmac = logged[n]
      BY <1>5, Zenon DEF Keeping!Last
    <3>2. Len(entries) > 0
      BY <1>1, <1>5
    <3> QED
      BY <3>1, <3>2
  <2>2. ASSUME Keeping!VerifyChain
        PROVE  \A i \in 1 .. Len(entries) : Keeping!AsLogged(i, n - (Len(entries) - i))
    BY <1>1, <1>2, <1>3, <2>1, <2>2, ChainLeadsBack
  <2>3. ASSUME \A i \in 1 .. Len(entries) : Keeping!AsLogged(i, n - (Len(entries) - i)),
               NEW i \in 2 .. Len(entries)
        PROVE  entries[i].hmac = Keeping!Rechained(i)
    <3> DEFINE m == n - (Len(entries) - i)
    <3>1. /\ i \in 1 .. Len(entries) /\ i - 1 \in 1 .. Len(entries) /\ i > 1
          /\ n - (Len(entries) - (i - 1)) = m - 1 /\ m <= next_seq /\ m \in Int
      BY <1>3
    <3>2. Keeping!AsLogged(i, m) /\ Keeping!AsLogged(i - 1, m - 1)
      <4>1. Keeping!AsLogged(i - 1, n - (Len(entries) - (i - 1)))
        BY <2>3, <3>1
      <4> QED
        BY <2>3, <3>1, <4>1
    <3>3. /\ entries[i].hmac = logged[m] /\ entries[i].sequence = m - 1
          /\ entries[i].data = "logged"
          /\ m - 1 >= 1 /\ entries[i - 1].hmac = logged[m - 1]
      BY <3>1, <3>2, Zenon DEF Keeping!AsLogged
    <3>4. m \in 2 .. next_seq
      BY <1>3, <3>1, <3>3
    <3> QED
      BY <1>2, <1>3, <3>3, <3>4, LinkOn
  <2> QED
    BY <2>2, <2>3, Zenon DEF Keeping!VerifyChain
<1> QED
  BY <1>4, <1>5, Zenon DEF Keeping!ChainVerdictExact

(* Of a log that nobody changed verify_chain() is true, and of a changed   *)
(* one that ends in an HMAC once logged exactly when every entry stands    *)
(* where it was logged, for every log size, through every rotation and     *)
(* whatever is altered, chained anew or removed in between (audit.rs       *)
(* 104-219).                                                               *)
THEOREM ChainVerdict == Keeping!AuditSpec => []AuditInv
<1>1. Keeping!AuditInit => AuditInv
  <2> SUFFICES ASSUME Keeping!AuditInit PROVE AuditInv
    OBVIOUS
  <2>1. /\ entries = <<>> /\ chain_key = Keeping!InitialKey /\ next_seq = 0
        /\ critical_count = 0 /\ logged = <<>> /\ edits = 0
    BY Zenon DEF Keeping!AuditInit
  <2>2. Keeping!InitialKey \notin {} /\ entries \in Seq(EntryOf({})) /\ Len(entries) = 0
    BY <2>1
  <2>3. Kept(entries)
    BY <2>2, Zenon DEF Kept
  <2>4. logged \in Seq({}) /\ Len(logged) = next_seq
        /\ (\A k \in 1 .. next_seq :
              logged[k] = Keeping!Hmac(KeyOf(logged, k - 1), k - 1, "logged"))
    BY <2>1
  <2>5. ChainOf(logged, next_seq) /\ chain_key = KeyOf(logged, next_seq)
    BY <2>1, <2>4, Zenon DEF ChainOf, KeyOf
  <2>6. EndOf(entries, logged, next_seq)
    BY <2>1, <2>2 DEF EndOf
  <2>7. /\ Len(entries) <= max_entries /\ next_seq \in 0 .. MaxLogged /\ edits \in Nat
        /\ critical_count \in Nat /\ critical_count <= next_seq
    BY <2>1, <2>2, AuditSizes
  <2> QED
    BY <2>3, <2>5, <2>6, <2>7, Zenon DEF AuditInv
<1> QED
  BY <1>1, AuditStep, PTL DEF Keeping!AuditSpec

-----------------------------------------------------------------------------

(* The operator's console.  The draft on the screen is what was kept when  *)
(* it went blank, since on the blank screen no key reaches the draft.      *)
ConsoleInv ==
  /\ phase \in {"draw", "poll", "tick"} /\ mode \in Console!Modes
  /\ panel \in Console!Panels
  /\ input \in Seq(Letters) /\ Len(input) <= MaxDraft
  /\ running \in BOOLEAN /\ lazarus_blink \in BOOLEAN /\ key_loaded \in BOOLEAN
  /\ tick_count \in 0 .. Period - 1
  /\ messages \subseteq {"SYSTEM", "YOU"} /\ messages_sent \in 0 .. MaxTyped
  /\ outgoing_queue \in Seq(Seq(Letters))
  /\ Console!ConsoleFaithful

(* The part of it that concerns what is typed and sent.                    *)
Conversation ==
  /\ input \in Seq(Letters) /\ Len(input) <= MaxDraft
  /\ outgoing_queue \in Seq(Seq(Letters))
  /\ outgoing_queue = typed
  /\ \A i \in 1 .. Len(outgoing_queue) : outgoing_queue[i][1] # ":"

Terminal ==
  /\ mode \in Console!Modes /\ panel \in Console!Panels
  /\ messages \subseteq {"SYSTEM", "YOU"} /\ messages_sent \in 0 .. MaxTyped
  /\ running \in BOOLEAN /\ key_loaded \in BOOLEAN

LEMMA ConsoleSizes ==
  Period \in Nat /\ Period > 0 /\ MaxDraft \in Nat /\ MaxTyped \in Nat
BY ServicesSizes DEF Console!ConsoleConstants

LEMMA ShortcutKeeps ==
  ASSUME Terminal, Conversation, Console!Shortcut
  PROVE  Terminal' /\ Conversation' /\ input' = input
<1>1. /\ input' = input /\ messages_sent' = messages_sent
      /\ outgoing_queue' = outgoing_queue /\ typed' = typed
  BY DEF Console!Shortcut, Console!Unmoved
<1>2. key_loaded' = key_loaded
  BY Zenon DEF Console!Shortcut, Console!Unmoved
<1>3. running' = running \/ running' = FALSE
  BY Zenon DEF Console!Shortcut
<1>4. mode' = mode \/ mode' = Console!ToggledMode
  BY Zenon DEF Console!Shortcut
<1>5. panel' = panel \/ panel' \in {"Chat", "Status", "Network"}
  BY DEF Console!Shortcut
<1>6. messages' = messages \/ messages' = messages \cup {"SYSTEM"}
  BY Zenon DEF Console!Shortcut, Console!System
<1>7. mode' \in Console!Modes /\ panel' \in Console!Panels
  BY <1>4, <1>5 DEF Terminal, Console!ToggledMode, Console!Modes, Console!Panels
<1>8. messages' \subseteq {"SYSTEM", "YOU"}
  BY <1>6 DEF Terminal
<1>9. running' \in BOOLEAN /\ key_loaded' \in BOOLEAN
  BY <1>2, <1>3, Zenon DEF Terminal
<1>10. Terminal'
  BY <1>1, <1>7, <1>8, <1>9, Zenon DEF Terminal
<1>11. Conversation'
  BY <1>1, Zenon DEF Conversation
<1> QED
  BY <1>1, <1>10, <1>11

LEMMA IgnoredKeeps ==
  ASSUME Terminal, Conversation, Console!Ignored
  PROVE  Terminal' /\ Conversation' /\ input' = input
<1>1. /\ input' = input /\ messages_sent' = messages_sent
      /\ outgoing_queue' = outgoing_queue /\ typed' = typed
      /\ mode' = mode /\ panel' = panel /\ messages' = messages
  BY DEF Console!Ignored, Console!Unmoved
<1>2. key_loaded' = key_loaded /\ running' = running
  BY Zenon DEF Console!Ignored, Console!Unmoved
<1>3. Terminal'
  BY <1>1, <1>2, Zenon DEF Terminal
<1>4. Conversation'
  BY <1>1, Zenon DEF Conversation
<1> QED
  BY <1>1, <1>3, <1>4

LEMMA CommandKeeps ==
  ASSUME Terminal, Conversation, NEW cmd, Console!HandleCommand(cmd)
  PROVE  /\ Terminal' /\ outgoing_queue' = outgoing_queue /\ typed' = typed
<1>1. /\ messages_sent' = messages_sent
      /\ outgoing_queue' = outgoing_queue /\ typed' = typed
  BY DEF Console!HandleCommand
<1>2. /\ mode' = mode \/ mode' = Console!ToggledMode
      /\ \/ messages' = messages \/ messages' = {"SYSTEM"}
         \/ messages' = messages \cup {"SYSTEM"}
  BY DEF Console!HandleCommand, Console!System
<1>3. panel' = panel \/ panel' \in {"Chat", "Status", "Network"}
  BY DEF Console!HandleCommand
<1>4. mode' \in Console!Modes /\ panel' \in Console!Panels
  BY <1>2, <1>3 DEF Terminal, Console!ToggledMode, Console!Modes, Console!Panels
<1>5. messages' \subseteq {"SYSTEM", "YOU"}
  BY <1>2 DEF Terminal
<1>6. key_loaded' \in BOOLEAN /\ running' \in BOOLEAN
  <2>1. key_loaded' = (key_loaded /\ cmd # <<":", "k">>)
        /\ running' = (cmd # <<":", "q">>)
    BY Zenon DEF Console!HandleCommand
  <2> QED
    BY <2>1, Zenon
<1> QED
  BY <1>1, <1>4, <1>5, <1>6, Zenon DEF Terminal

LEMMA SendKeeps ==
  ASSUME Terminal, Conversation, NEW sealed \in BOOLEAN, input[1] # ":",
         Console!SendText(input, sealed)
  PROVE  /\ Terminal'
         /\ outgoing_queue' \in Seq(Seq(Letters)) /\ outgoing_queue' = typed'
         /\ \A i \in 1 .. Len(outgoing_queue') : outgoing_queue'[i][1] # ":"
<1>1. /\ mode' = mode /\ panel' = panel /\ messages' = messages \cup {"YOU", "SYSTEM"}
      /\ messages_sent < MaxTyped /\ messages_sent' = messages_sent + 1
  BY DEF Console!SendText
<1>2. running' = running /\ key_loaded' = key_loaded
  BY Zenon DEF Console!SendText
<1>3. \/ outgoing_queue' = outgoing_queue /\ typed' = typed
      \/ /\ outgoing_queue' = Append(outgoing_queue, input)
         /\ typed' = Append(typed, input)
  BY Zenon DEF Console!SendText, Console!Queue
<1>4. messages_sent' \in 0 .. MaxTyped /\ messages' \subseteq {"SYSTEM", "YOU"}
  BY <1>1, ConsoleSizes DEF Terminal
<1>5. Terminal'
  BY <1>1, <1>2, <1>4, Zenon DEF Terminal
<1>6. CASE outgoing_queue' = outgoing_queue /\ typed' = typed
  BY <1>5, <1>6, Zenon DEF Conversation
<1>7. CASE outgoing_queue' = Append(outgoing_queue, input)
           /\ typed' = Append(typed, input)
  <2>1. /\ outgoing_queue \in Seq(Seq(Letters)) /\ input \in Seq(Letters)
        /\ outgoing_queue = typed
        /\ \A i \in 1 .. Len(outgoing_queue) : outgoing_queue[i][1] # ":"
    BY Zenon DEF Conversation
  <2>2. /\ outgoing_queue' \in Seq(Seq(Letters))
        /\ Len(outgoing_queue') = Len(outgoing_queue) + 1
        /\ \A i \in 1 .. Len(outgoing_queue) : outgoing_queue'[i] = outgoing_queue[i]
        /\ outgoing_queue'[Len(outgoing_queue) + 1] = input
    BY <1>7, <2>1, AppendProperties
  <2>3. \A i \in 1 .. Len(outgoing_queue') :
          i \in 1 .. Len(outgoing_queue) \/ i = Len(outgoing_queue) + 1
    BY <2>1, <2>2
  <2> QED
    BY <1>5, <1>7, <2>1, <2>2, <2>3, Zenon
<1> QED
  BY <1>3, <1>6, <1>7

LEMMA EnterKeeps ==
  ASSUME Terminal, Conversation, Console!Enter
  PROVE  Terminal' /\ Conversation'
<1>1. input' = <<>> /\ input' \in Seq(Letters) /\ Len(input') <= MaxDraft
  BY ConsoleSizes DEF Console!Enter
<1>2. CASE input = <<>>
  <2>1. /\ mode' = mode /\ panel' = panel /\ messages' = messages
        /\ messages_sent' = messages_sent /\ outgoing_queue' = outgoing_queue
        /\ typed' = typed
    BY <1>2 DEF Console!Enter
  <2>2. running' = running /\ key_loaded' = key_loaded
    BY <1>2, Zenon DEF Console!Enter
  <2>3. Terminal'
    BY <2>1, <2>2, Zenon DEF Terminal
  <2> QED
    BY <1>1, <2>1, <2>3, Zenon DEF Conversation
<1>3. CASE input # <<>> /\ input[1] = ":"
  <2>1. Console!HandleCommand(input)
    BY <1>3, Zenon DEF Console!Enter
  <2>2. Terminal' /\ outgoing_queue' = outgoing_queue /\ typed' = typed
    BY <2>1, CommandKeeps
  <2> QED
    BY <1>1, <2>2, Zenon DEF Conversation
<1>4. CASE input # <<>> /\ input[1] # ":"
  <2>1. PICK sealed \in BOOLEAN : Console!SendText(input, sealed)
    BY <1>4, Zenon DEF Console!Enter
  <2>2. /\ Terminal'
        /\ outgoing_queue' \in Seq(Seq(Letters)) /\ outgoing_queue' = typed'
        /\ \A i \in 1 .. Len(outgoing_queue') : outgoing_queue'[i][1] # ":"
    BY <1>4, <2>1, SendKeeps, Zenon
  <2> QED
    BY <1>1, <2>2, Zenon DEF Conversation
<1> QED
  BY <1>2, <1>3, <1>4

LEMMA EditKeeps ==
  ASSUME Terminal, Conversation,
         Console!Backspace \/ \E c \in Letters : Console!Type(c)
  PROVE  Terminal' /\ Conversation'
<1>1. input \in Seq(Letters) /\ Len(input) <= MaxDraft /\ Len(input) \in Nat
  BY DEF Conversation
<1>2. Console!Unmoved /\ panel' = panel /\ messages' = messages
  BY Zenon DEF Console!Backspace, Console!Type
<1>3. running' = running /\ key_loaded' = key_loaded
  BY <1>2, Zenon DEF Console!Backspace, Console!Type, Console!Unmoved
<1>4. messages_sent' = messages_sent /\ outgoing_queue' = outgoing_queue /\ typed' = typed
  BY <1>2 DEF Console!Unmoved
<1>5. mode' = mode \/ mode' \in {"Normal", "Command"}
  BY DEF Console!Backspace, Console!Type
<1>6. mode' \in Console!Modes
  BY <1>5 DEF Terminal, Console!Modes
<1>7. input' \in Seq(Letters) /\ Len(input') <= MaxDraft
  <2>1. CASE Console!Backspace
    <3>1. CASE input = <<>>
      BY <1>1, <2>1, <3>1, ConsoleSizes DEF Console!Backspace
    <3>2. CASE input # <<>>
      <4>1. input' = SubSeq(input, 1, Len(input) - 1)
        BY <2>1, <3>2, Zenon DEF Console!Backspace, Console!Front
      <4>2. \A i \in 1 .. Len(input) - 1 : input[i] \in Letters
        BY <1>1, ElementOfSeq
      <4>3. /\ input' \in Seq(Letters)
            /\ Len(input') = IF 1 <= Len(input) - 1 THEN Len(input) - 1 - 1 + 1 ELSE 0
        BY <1>1, <4>1, <4>2, SubSeqProperties
      <4> QED
        BY <1>1, <4>3, ConsoleSizes
    <3> QED
      BY <3>1, <3>2
  <2>2. ASSUME NEW c \in Letters, Console!Type(c)
        PROVE  input' \in Seq(Letters) /\ Len(input') <= MaxDraft
    <3>1. input' = Append(input, c) /\ Len(input) < MaxDraft
      BY <2>2 DEF Console!Type
    <3> QED
      BY <1>1, <3>1, ConsoleSizes, AppendProperties
  <2> QED
    BY <2>1, <2>2
<1>8. Terminal'
  BY <1>2, <1>3, <1>4, <1>6, Zenon DEF Terminal
<1> QED
  BY <1>4, <1>7, <1>8, Zenon DEF Conversation

(* The two halves of the invariant and what joins them.                    *)
LEMMA ConsoleParts ==
  ConsoleInv <=>
    /\ Terminal /\ Conversation
    /\ phase \in {"draw", "poll", "tick"} /\ lazarus_blink \in BOOLEAN
    /\ tick_count \in 0 .. Period - 1
    /\ phase = "poll" => frame.blank = (mode = "Lazarus")
    /\ mode = "Lazarus" => input = kept
BY Zenon DEF ConsoleInv, Terminal, Conversation, Console!ConsoleFaithful

LEMMA ConsolePartsNext ==
  ConsoleInv' <=>
    /\ Terminal' /\ Conversation'
    /\ phase' \in {"draw", "poll", "tick"} /\ lazarus_blink' \in BOOLEAN
    /\ tick_count' \in 0 .. Period - 1
    /\ phase' = "poll" => frame'.blank = (mode' = "Lazarus")
    /\ mode' = "Lazarus" => input' = kept'
BY Zenon DEF ConsoleInv, Terminal, Conversation, Console!ConsoleFaithful

LEMMA ConsoleStep == ConsoleInv /\ [Console!Next]_(Console!consoleVars) => ConsoleInv'
<1> SUFFICES ASSUME ConsoleInv, [Console!Next]_(Console!consoleVars) PROVE ConsoleInv'
  OBVIOUS
<1>1. /\ Terminal /\ Conversation
      /\ phase \in {"draw", "poll", "tick"} /\ lazarus_blink \in BOOLEAN
      /\ tick_count \in 0 .. Period - 1
      /\ phase = "poll" => frame.blank = (mode = "Lazarus")
      /\ mode = "Lazarus" => input = kept
  BY ConsoleParts
<1>2. ASSUME UNCHANGED <<mode, panel, input, running, key_loaded, messages,
                         messages_sent, outgoing_queue, typed, kept>>
      PROVE  /\ Terminal' /\ Conversation'
             /\ mode' = "Lazarus" => input' = kept'
  BY <1>1, <1>2, Zenon DEF Terminal, Conversation
<1>3. CASE Console!Draw
  <2>1. UNCHANGED <<mode, panel, input, running, key_loaded, messages,
                    messages_sent, outgoing_queue, typed, kept>>
    BY <1>3, Zenon DEF Console!Draw
  <2>2. lazarus_blink' = lazarus_blink /\ tick_count' = tick_count /\ phase' = "poll"
        /\ frame' = Console!Shown /\ mode' = mode
    BY <1>3, Zenon DEF Console!Draw
  <2>3. Console!Shown.blank = (mode = "Lazarus")
    BY DEF Console!Shown
  <2>4. phase' = "poll" => frame'.blank = (mode' = "Lazarus")
    BY <2>2, <2>3, Zenon
  <2>5. phase' \in {"draw", "poll", "tick"}
    BY <2>2
  <2> QED
    BY <1>1, <1>2, <2>1, <2>2, <2>4, <2>5, ConsolePartsNext, Zenon
<1>4. CASE Console!Tick
  <2>1. UNCHANGED <<mode, panel, input, running, key_loaded, messages,
                    messages_sent, outgoing_queue, typed, kept>>
    BY <1>4, Zenon DEF Console!Tick
  <2>2. phase' = "draw" /\ tick_count' = (tick_count + 1) % Period
    BY <1>4 DEF Console!Tick
  <2>3. lazarus_blink' = (tick_count' < Period \div 2) \/ lazarus_blink' = lazarus_blink
    BY <1>4, Zenon DEF Console!Tick
  <2>4. lazarus_blink' \in BOOLEAN
    <3>1. (tick_count' < Period \div 2) \in BOOLEAN
      OBVIOUS
    <3>2. CASE lazarus_blink' = (tick_count' < Period \div 2)
      BY <3>1, <3>2, Zenon
    <3>3. CASE lazarus_blink' = lazarus_blink
      BY <1>1, <3>3, Zenon
    <3> QED
      BY <2>3, <3>2, <3>3
  <2>5. tick_count' \in 0 .. Period - 1
    BY <1>1, <2>2, ConsoleSizes
  <2>6. phase' \in {"draw", "poll", "tick"} /\ phase' # "poll"
    BY <2>2
  <2> QED
    BY <1>2, <2>1, <2>4, <2>5, <2>6, ConsolePartsNext, Zenon
<1>5. CASE Console!NoKey
  <2>1. UNCHANGED <<mode, panel, input, running, key_loaded, messages,
                    messages_sent, outgoing_queue, typed, kept>>
    BY <1>5, Zenon DEF Console!NoKey
  <2>2. phase' = "tick" /\ tick_count' = tick_count /\ lazarus_blink' = lazarus_blink
    BY <1>5, Zenon DEF Console!NoKey
  <2>3. phase' \in {"draw", "poll", "tick"} /\ phase' # "poll"
    BY <2>2
  <2> QED
    BY <1>1, <1>2, <2>1, <2>2, <2>3, ConsolePartsNext, Zenon
<1>6. CASE Console!HandleKey
  <2>1. phase' = "tick" /\ tick_count' = tick_count /\ lazarus_blink' = lazarus_blink
    BY <1>6, Zenon DEF Console!HandleKey
  <2>2. phase' \in {"draw", "poll", "tick"} /\ phase' # "poll"
    BY <2>1
  <2>3. kept' = IF mode' # "Lazarus" THEN <<>> ELSE IF mode = mode' THEN kept ELSE input'
    BY <1>6, Zenon DEF Console!HandleKey
  <2>4. /\ Terminal' /\ Conversation'
        /\ mode = "Lazarus" => input' = input
    <3>1. CASE Console!Shortcut
      BY <1>1, <3>1, ShortcutKeeps
    <3>2. CASE Console!Ignored
      BY <1>1, <3>2, IgnoredKeeps
    <3>3. CASE Console!Listening /\ Console!Enter
      <4>1. mode # "Lazarus"
        BY <3>3 DEF Console!Listening
      <4> QED
        BY <1>1, <3>3, <4>1, EnterKeeps
    <3>4. CASE Console!Listening /\ (Console!Backspace \/ \E c \in Letters : Console!Type(c))
      <4>1. mode # "Lazarus"
        BY <3>4 DEF Console!Listening
      <4> QED
        BY <1>1, <3>4, <4>1, EditKeeps
    <3> QED
      BY <1>6, <3>1, <3>2, <3>3, <3>4, Zenon DEF Console!HandleKey
  <2>5. mode' = "Lazarus" => input' = kept'
    BY <1>1, <2>3, <2>4, Zenon
  <2> QED
    BY <1>1, <2>1, <2>2, <2>4, <2>5, ConsolePartsNext, Zenon
<1>7. CASE UNCHANGED Console!consoleVars
  BY <1>7, Zenon DEF Console!consoleVars, ConsoleInv, Console!ConsoleFaithful
<1> QED
  BY <1>3, <1>4, <1>5, <1>6, <1>7, Zenon DEF Console!Next

(* While a key can be pressed the screen shows the mode it acts in; what   *)
(* was typed and sealed is queued once and in order, never a command; and  *)
(* a draft survives the blank screen: for every alphabet, draft length and *)
(* number of messages (main.rs 185-279, 582-703).                          *)
THEOREM ConsoleIsFaithful == Console!Spec => []ConsoleInv
<1>1. Console!Init => ConsoleInv
  <2> SUFFICES ASSUME Console!Init PROVE ConsoleInv
    OBVIOUS
  <2>1. /\ phase = "draw" /\ mode = "Normal" /\ panel = "Chat" /\ input = <<>>
        /\ tick_count = 0 /\ messages = {} /\ messages_sent = 0
        /\ outgoing_queue = <<>> /\ typed = <<>>
    BY DEF Console!Init
  <2>2. running \in BOOLEAN /\ lazarus_blink \in BOOLEAN /\ key_loaded \in BOOLEAN
    BY Zenon DEF Console!Init
  <2>3. /\ mode \in Console!Modes /\ panel \in Console!Panels
        /\ messages \subseteq {"SYSTEM", "YOU"} /\ messages_sent \in 0 .. MaxTyped
        /\ tick_count \in 0 .. Period - 1
        /\ phase \in {"draw", "poll", "tick"} /\ phase # "poll" /\ mode # "Lazarus"
    BY <2>1, ConsoleSizes DEF Console!Modes, Console!Panels
  <2>4. Conversation
    BY <2>1, ConsoleSizes DEF Conversation
  <2> QED
    BY <2>2, <2>3, <2>4, ConsoleParts, Zenon DEF Terminal
<1> QED
  BY <1>1, ConsoleStep, PTL DEF Console!Spec

-----------------------------------------------------------------------------

(* Quotients and remainders of the numbers an epoch or a counter wraps at. *)
LEMMA DivMod ==
  ASSUME NEW m \in Nat \ {0}, NEW a \in Nat
  PROVE  a \div m \in Nat /\ a % m \in 0 .. m - 1 /\ a = m * (a \div m) + (a % m)
OBVIOUS

LEMMA MultipleStep ==
  ASSUME NEW m \in Nat \ {0}, NEW p \in Int, NEW q \in Int, p < q
  PROVE  m * p + m <= m * q
<1>1. m * q = m * p + m * (q - p)
  OBVIOUS
<1>2. q - p >= 1 => m * (q - p) >= m
  OBVIOUS
<1> QED
  BY <1>1, <1>2

LEMMA DivModOrder ==
  ASSUME NEW m \in Nat \ {0}, NEW a \in Nat, NEW b \in Nat, a <= b
  PROVE  /\ a \div m <= b \div m
         /\ a \div m = b \div m => b - a < m
         /\ a < b /\ a % m = b % m => b - a >= m
<1> DEFINE p == a \div m
           q == b \div m
           r == a % m
           s == b % m
           x == m * p
           y == m * q
<1>1. p \in Nat /\ r \in 0 .. m - 1 /\ a = x + r
  BY DivMod
<1>2. q \in Nat /\ s \in 0 .. m - 1 /\ b = y + s
  BY DivMod
<1>3. (q < p => y + m <= x) /\ (p < q => x + m <= y)
  BY <1>1, <1>2, MultipleStep
<1>4. p = q => x = y
  OBVIOUS
<1>5. x \in Int /\ y \in Int
  BY <1>1, <1>2
<1> HIDE DEF p, q, r, s, x, y
<1>6. p <= q
  BY <1>1, <1>2, <1>3, <1>5
<1>7. p = q => b - a < m
  BY <1>1, <1>2, <1>4, <1>5
<1>8. a < b /\ r = s => b - a >= m
  BY <1>1, <1>2, <1>3, <1>4, <1>5, <1>6
<1> QED
  BY <1>6, <1>7, <1>8 DEF p, q, r, s

-----------------------------------------------------------------------------

(* The sentry.  A signal carries the epoch in which it was put, and a scan *)
(* asks for the epoch of the device's clock.                               *)
Signal == [peer : Peers, epoch : Nat, at : Nat]

Posted(signals, time) ==
  \A s \in signals : s.at <= time /\ s.epoch = s.at \div EpochTicks

WatchInv ==
  /\ sentry_mode \in Watch!Modes /\ time_drift_warned \in BOOLEAN
  /\ now \in 0 .. MaxTime /\ drift \in Drifts /\ lastScan \in 0 .. now
  /\ dht \subseteq Signal /\ Posted(dht, now)
  /\ \A w \in awake : w.at >= w.signal.at /\ w.at - w.signal.at < EpochTicks /\ drift = 0
  /\ time_drift_warned => drift > MaxDrift

LEMMA WatchSizes ==
  /\ EpochTicks \in Nat \ {0} /\ MaxDrift \in Nat /\ MaxTime \in Nat
  /\ Drifts \subseteq Nat
BY ServicesSizes DEF Watch!SentryConstants

LEMMA PollNotices ==
  ASSUME WatchInv, NEW s \in Watch!EpochScan(Watch!DeviceEpoch)
  PROVE  now >= s.at /\ now - s.at < EpochTicks /\ drift = 0
<1>1. /\ now \in Nat /\ drift \in Nat /\ s.at \in Nat /\ s.epoch \in Nat
      /\ s.at <= now /\ s.epoch = s.at \div EpochTicks
      /\ s.epoch = now \div EpochTicks + drift
  <2>1. /\ now \in 0 .. MaxTime /\ drift \in Drifts
        /\ dht \subseteq Signal /\ Posted(dht, now)
    BY Zenon DEF WatchInv
  <2>2. now \in Nat /\ drift \in Nat
    BY <2>1, WatchSizes
  <2>3. s \in dht /\ s.epoch = now \div EpochTicks + drift
    BY DEF Watch!EpochScan, Watch!DeviceEpoch
  <2>4. s.at \in Nat /\ s.epoch \in Nat
    BY <2>1, <2>3 DEF Signal
  <2>5. s.at <= now /\ s.epoch = s.at \div EpochTicks
    BY <2>1, <2>3, Zenon DEF Posted
  <2> QED
    BY <2>2, <2>3, <2>4, <2>5
<1>2. s.at \div EpochTicks <= now \div EpochTicks
      /\ (s.at \div EpochTicks = now \div EpochTicks => now - s.at < EpochTicks)
  BY <1>1, WatchSizes, DivModOrder
<1>3. now \div EpochTicks \in Nat
  BY <1>1, WatchSizes, DivMod
<1> DEFINE here == now \div EpochTicks
<1> HIDE DEF here
<1>4. s.epoch <= here /\ (s.epoch = here => now - s.at < EpochTicks)
      /\ s.epoch = here + drift /\ here \in Nat
  BY <1>1, <1>2, <1>3 DEF here
<1>5. now \in Nat /\ s.at \in Nat /\ s.at <= now /\ drift \in Nat
  BY <1>1
<1>6. drift = 0 /\ s.epoch = here
  BY <1>4, <1>5
<1> QED
  BY <1>4, <1>5, <1>6

LEMMA WatchStep == WatchInv /\ [Watch!Next]_(Watch!sentryVars) => WatchInv'
<1> SUFFICES ASSUME WatchInv, [Watch!Next]_(Watch!sentryVars) PROVE WatchInv'
  OBVIOUS
<1> USE WatchSizes
<1>1. /\ sentry_mode \in Watch!Modes
      /\ now \in 0 .. MaxTime /\ drift \in Drifts /\ lastScan \in 0 .. now
      /\ dht \subseteq Signal /\ Posted(dht, now)
      /\ \A w \in awake : w.at >= w.signal.at /\ w.at - w.signal.at < EpochTicks /\ drift = 0
  BY DEF WatchInv
<1>2. time_drift_warned \in BOOLEAN /\ (time_drift_warned => drift > MaxDrift)
  BY Zenon DEF WatchInv
<1>3. CASE UNCHANGED Watch!sentryVars
  BY <1>3, Zenon DEF Watch!sentryVars, WatchInv, Posted
<1>4. CASE Watch!Check
  <2>1. UNCHANGED <<sentry_mode, now, drift, lastScan, dht, awake>>
    BY <1>4, Zenon DEF Watch!Check
  <2>2. time_drift_warned' = ~(drift <= MaxDrift)
    BY <1>4, Zenon DEF Watch!Check, Watch!CheckTimeDrift
  <2>3. ~(drift <= MaxDrift) <=> drift > MaxDrift
    <3>1. drift \in Nat
      BY <1>1
    <3> QED
      BY <3>1
  <2>4. time_drift_warned' \in BOOLEAN /\ (time_drift_warned' => drift' > MaxDrift)
    BY <2>1, <2>2, <2>3, Zenon
  <2> QED
    BY <1>1, <2>1, <2>4, Zenon DEF WatchInv, Posted
<1>5. ASSUME NEW m \in Watch!Modes, Watch!SetMode(m) PROVE WatchInv'
  <2>1. UNCHANGED <<time_drift_warned, now, drift, lastScan, dht, awake>> /\ sentry_mode' = m
    BY <1>5, Zenon DEF Watch!SetMode
  <2> QED
    BY <1>1, <1>2, <1>5, <2>1, Zenon DEF WatchInv, Posted
<1>6. ASSUME NEW p \in Peers, Watch!Put(p) PROVE WatchInv'
  <2>1. UNCHANGED <<sentry_mode, time_drift_warned, now, drift, lastScan, awake>>
    BY <1>6, Zenon DEF Watch!Put
  <2>2. dht' = dht \cup {[peer |-> p, epoch |-> now \div EpochTicks, at |-> now]}
    BY <1>6 DEF Watch!Put, Watch!PeerEpoch
  <2>3. now \in Nat /\ now \div EpochTicks \in Nat
    <3>1. now \in Nat
      BY <1>1
    <3> QED
      BY <3>1, DivMod
  <2>4. dht' \subseteq Signal
    BY <1>1, <2>2, <2>3 DEF Signal
  <2>5. Posted(dht', now)
    BY <1>1, <2>2, <2>3 DEF Posted
  <2> QED
    BY <1>1, <1>2, <2>1, <2>4, <2>5, Zenon DEF WatchInv, Posted
<1>7. CASE Watch!Tick
  <2>1. UNCHANGED <<sentry_mode, time_drift_warned, drift, lastScan, dht, awake>>
    BY <1>7, Zenon DEF Watch!Tick
  <2>2. now < MaxTime /\ now' = now + 1
    BY <1>7 DEF Watch!Tick
  <2>3. now' \in 0 .. MaxTime /\ lastScan \in 0 .. now'
    BY <1>1, <2>2
  <2>4. Posted(dht, now')
    BY <1>1, <2>2 DEF Posted, Signal
  <2> QED
    BY <1>1, <1>2, <2>1, <2>3, <2>4, Zenon DEF WatchInv, Posted
<1>8. CASE Watch!Poll
  <2>1. UNCHANGED <<sentry_mode, time_drift_warned, now, drift, dht>> /\ lastScan' = now
    BY <1>8, Zenon DEF Watch!Poll
  <2>2. \/ awake' = awake
        \/ awake' = awake \cup {[signal |-> s, at |-> now] : s \in Watch!EpochScan(Watch!DeviceEpoch)}
    BY <1>8, Zenon DEF Watch!Poll
  <2>3. \A w \in awake' : w.at >= w.signal.at /\ w.at - w.signal.at < EpochTicks /\ drift = 0
    BY <1>1, <2>2, PollNotices
  <2>4. lastScan' \in 0 .. now
    BY <1>1, <2>1
  <2> QED
    BY <1>1, <1>2, <2>1, <2>3, <2>4, Zenon DEF WatchInv, Posted
<1> QED
  BY <1>3, <1>4, <1>5, <1>6, <1>7, <1>8, Zenon DEF Watch!Next

(* A signal is noticed only in its own epoch, after it was put, and never  *)
(* by a device whose clock is an epoch or more ahead: for every length of  *)
(* an epoch and every drift (titan_dht 60-106, titan_sentry 60-85).        *)
THEOREM SignalsNoticedInTime == Watch!Spec => []WatchInv
<1>1. Watch!Init => WatchInv
  <2> SUFFICES ASSUME Watch!Init PROVE WatchInv
    OBVIOUS
  <2>1. /\ sentry_mode = "Foreground" /\ now = 0 /\ drift \in Drifts /\ lastScan = 0
        /\ dht = {} /\ awake = {}
    BY DEF Watch!Init
  <2>2. time_drift_warned \in BOOLEAN /\ ~time_drift_warned
    BY Zenon DEF Watch!Init
  <2>3. /\ sentry_mode \in Watch!Modes /\ now \in 0 .. MaxTime /\ drift \in Drifts
        /\ lastScan \in 0 .. now /\ dht \subseteq Signal /\ Posted(dht, now)
        /\ \A w \in awake : w.at >= w.signal.at /\ w.at - w.signal.at < EpochTicks /\ drift = 0
    BY <2>1, WatchSizes DEF Watch!Modes, Posted
  <2> QED
    BY <2>2, <2>3, Zenon DEF WatchInv
<1> QED
  BY <1>1, WatchStep, PTL DEF Watch!Spec

-----------------------------------------------------------------------------

(* The bridge to the device.  Requests reach the device in the order of    *)
(* the calls, each at most once; a call that is over left one result.      *)
Request == [op : Bridge!Ops, call : Nat, seq : Nat, counter : Nat]
Source == [op : Bridge!Ops, call : Nat] \cup {Bridge!None}
Outcome == [op : Bridge!Ops, call : Nat, ok : BOOLEAN, of : Source]

Answered(d) == d.ok /\ d.op = "heartbeat"
Heartbeats(results) == {i \in DOMAIN results : Answered(results[i])}

RightKind(d) ==
  d.ok /\ d.op \in {"encrypt", "decrypt", "heartbeat"} => d.of.op = d.op

Ordered(requests, n) ==
  /\ \A i \in 1 .. Len(requests) :
       requests[i].seq = requests[i].call % (DeviceMaxSeq + 1) /\ requests[i].call < n
  /\ \A i, j \in 1 .. Len(requests) : i < j => requests[i].call < requests[j].call

Waits == request # Bridge!None
Due == IF Waits THEN 1 ELSE 0

BridgeInv ==
  /\ sim_mode \in BOOLEAN /\ connected \in BOOLEAN
  /\ heartbeat_counter \in Nat /\ calls \in Nat
  /\ device \in Seq(Request) /\ done \in Seq(Outcome)
  /\ Waits => /\ request \in Request /\ request.call = calls - 1
              /\ request.seq = request.call % (DeviceMaxSeq + 1)
              /\ Len(done) < MaxCalls
  /\ Ordered(device, calls - Due)
  /\ Len(device) + Due <= calls /\ calls <= Len(done) + Due /\ Len(done) <= MaxCalls
  /\ \A i \in 1 .. Len(done) : RightKind(done[i])
  /\ heartbeat_counter = Cardinality(Heartbeats(done))

LEMMA BridgeSizes == DeviceMaxSeq \in Nat /\ MaxCalls \in Nat
BY ServicesSizes DEF Bridge!BridgeConstants

(* The instances count with the Cardinality they were given.               *)
LEMMA SameCount ==
  ASSUME NEW S
  PROVE  /\ Bridge!Cardinality(S) = Cardinality(S)
         /\ Ends!Cardinality(S) = Cardinality(S)
         /\ Pair!Cardinality(S) = Cardinality(S)
         /\ Drops!Cardinality(S) = Cardinality(S)
BY DEF Bridge!Cardinality, Ends!Cardinality, Pair!Cardinality, Drops!Cardinality, Cardinality

LEMMA NoneIsNoRequest == Bridge!None \notin Request
<1>1. DOMAIN Bridge!None = {"op"}
  BY DEF Bridge!None
<1>2. \A r \in Request : DOMAIN r = {"op", "call", "seq", "counter"}
  BY DEF Request
<1>3. {"op"} # {"op", "call", "seq", "counter"}
  OBVIOUS
<1> QED
  BY <1>1, <1>2, <1>3

(* One more result is one more heartbeat answered, or none.                *)
LEMMA CountResult ==
  ASSUME NEW results \in Seq(Outcome), NEW d \in Outcome
  PROVE  /\ IsFiniteSet(Heartbeats(results)) /\ Cardinality(Heartbeats(results)) \in Nat
         /\ Cardinality(Heartbeats(results)) <= Len(results)
         /\ Answered(d) => Cardinality(Heartbeats(Append(results, d)))
                             = Cardinality(Heartbeats(results)) + 1
         /\ ~Answered(d) => Heartbeats(Append(results, d)) = Heartbeats(results)
<1> DEFINE n == Len(results)
<1>1. n \in Nat /\ DOMAIN results = 1 .. n
  BY LenProperties
<1>2. IsFiniteSet(1 .. n) /\ Cardinality(1 .. n) = n
  BY <1>1, FS_Interval
<1>3. Heartbeats(results) \subseteq 1 .. n
  BY <1>1 DEF Heartbeats
<1>4. IsFiniteSet(Heartbeats(results))
      /\ Cardinality(Heartbeats(results)) <= n /\ Cardinality(Heartbeats(results)) \in Nat
  BY <1>1, <1>2, <1>3, FS_Subset, FS_CardinalityType
<1>5. /\ Append(results, d) \in Seq(Outcome) /\ Len(Append(results, d)) = n + 1
      /\ \A i \in 1 .. n : Append(results, d)[i] = results[i]
      /\ Append(results, d)[n + 1] = d
  BY AppendProperties
<1>6. DOMAIN Append(results, d) = 1 .. n + 1
  BY <1>5, LenProperties
<1>7. n + 1 \notin 1 .. n /\ 1 .. n + 1 = 1 .. n \cup {n + 1}
  BY <1>1
<1> DEFINE longer == Append(results, d)
<1> HIDE DEF longer
<1>8. ASSUME Answered(d) PROVE Heartbeats(longer) = Heartbeats(results) \cup {n + 1}
  BY <1>1, <1>5, <1>6, <1>7, <1>8, Zenon DEF Heartbeats, longer
<1>9. ASSUME ~Answered(d) PROVE Heartbeats(longer) = Heartbeats(results)
  BY <1>1, <1>5, <1>6, <1>7, <1>9, Zenon DEF Heartbeats, longer
<1>10. n + 1 \notin Heartbeats(results)
  BY <1>3, <1>7
<1>11. Cardinality(Heartbeats(results) \cup {n + 1}) = Cardinality(Heartbeats(results)) + 1
  BY <1>4, <1>10, FS_AddElement
<1> QED
  BY <1>4, <1>8, <1>9, <1>11, Zenon DEF longer

(* The device's answer to a request of this kind is believed for a request *)
(* of this kind only.                                                      *)
LEMMA AcceptedKind ==
  ASSUME NEW op \in {"encrypt", "decrypt", "heartbeat"}, NEW answered,
         answered.op \in Bridge!Ops, NEW long, Bridge!Accepts(op, answered, long)
  PROVE  answered.op = op
<1>1. CASE op \in {"encrypt", "decrypt"}
  <2>1. Bridge!ResponseTo[answered.op] = Bridge!ResponseTo[op]
    BY <1>1 DEF Bridge!Accepts
  <2> QED
    BY <1>1, <2>1 DEF Bridge!ResponseTo, Bridge!Ops
<1>2. CASE op = "heartbeat"
  <2>1. Bridge!ResponseTo[answered.op] = "HeartbeatAck"
    BY <1>2 DEF Bridge!Accepts
  <2> QED
    BY <1>2, <2>1 DEF Bridge!ResponseTo, Bridge!Ops
<1> QED
  BY <1>1, <1>2

LEMMA BridgeFacts ==
  ASSUME BridgeInv
  PROVE  /\ heartbeat_counter \in Nat /\ calls \in Nat
         /\ device \in Seq(Request) /\ done \in Seq(Outcome)
         /\ Len(device) \in Nat /\ Len(done) \in Nat /\ Due \in {0, 1}
         /\ Ordered(device, calls - Due)
         /\ Len(device) + Due <= calls /\ calls <= Len(done) + Due /\ Len(done) <= MaxCalls
         /\ \A i \in 1 .. Len(done) : RightKind(done[i])
         /\ heartbeat_counter = Cardinality(Heartbeats(done))
<1>1. /\ heartbeat_counter \in Nat /\ calls \in Nat
      /\ device \in Seq(Request) /\ done \in Seq(Outcome)
      /\ Ordered(device, calls - Due)
      /\ Len(device) + Due <= calls /\ calls <= Len(done) + Due /\ Len(done) <= MaxCalls
      /\ \A i \in 1 .. Len(done) : RightKind(done[i])
      /\ heartbeat_counter = Cardinality(Heartbeats(done))
  BY Zenon DEF BridgeInv
<1>2. Due \in {0, 1}
  BY DEF Due
<1>3. Len(device) \in Nat /\ Len(done) \in Nat
  BY <1>1, LenProperties
<1> QED
  BY <1>1, <1>2, <1>3

(* What a new result needs.                                                *)
LEMMA ResultKeeps ==
  ASSUME BridgeInv, NEW d \in Outcome, done' = Append(done, d), RightKind(d),
         Answered(d) => heartbeat_counter' = heartbeat_counter + 1,
         ~Answered(d) => heartbeat_counter' = heartbeat_counter
  PROVE  /\ done' \in Seq(Outcome) /\ Len(done') = Len(done) + 1
         /\ \A i \in 1 .. Len(done') : RightKind(done'[i])
         /\ heartbeat_counter' \in Nat
         /\ heartbeat_counter' = Cardinality(Heartbeats(done'))
<1>1. /\ done \in Seq(Outcome) /\ Len(done) \in Nat
      /\ \A i \in 1 .. Len(done) : RightKind(done[i])
      /\ heartbeat_counter \in Nat /\ heartbeat_counter = Cardinality(Heartbeats(done))
  BY BridgeFacts, Zenon
<1>2. /\ done' \in Seq(Outcome) /\ Len(done') = Len(done) + 1
      /\ \A i \in 1 .. Len(done) : done'[i] = done[i]
      /\ done'[Len(done) + 1] = d
  BY <1>1, AppendProperties
<1>3. \A i \in 1 .. Len(done') : i \in 1 .. Len(done) \/ i = Len(done) + 1
  BY <1>1, <1>2
<1>4. \A i \in 1 .. Len(done') : RightKind(done'[i])
  BY <1>1, <1>2, <1>3, Zenon
<1>5. heartbeat_counter' = Cardinality(Heartbeats(done'))
  <2>1. CASE Answered(d)
    <3>1. Cardinality(Heartbeats(Append(done, d))) = Cardinality(Heartbeats(done)) + 1
      BY <1>1, <2>1, CountResult, Zenon
    <3> QED
      BY <1>1, <2>1, <3>1, Zenon
  <2>2. CASE ~Answered(d)
    <3>1. Heartbeats(Append(done, d)) = Heartbeats(done)
      BY <1>1, <2>2, CountResult, Zenon
    <3> QED
      BY <1>1, <2>2, <3>1, Zenon
  <2> QED
    BY <2>1, <2>2, Zenon
<1>6. heartbeat_counter' = heartbeat_counter + 1 \/ heartbeat_counter' = heartbeat_counter
  BY Zenon
<1>7. heartbeat_counter' \in Nat
  BY <1>1, <1>6
<1> QED
  BY <1>2, <1>4, <1>5, <1>7, Zenon

(* A call that ends has sent its request at most once, behind the others.  *)
LEMMA DeviceKeeps ==
  ASSUME BridgeInv, Waits, device' = device \/ device' = Append(device, request)
  PROVE  /\ device' \in Seq(Request) /\ Len(device') <= calls
         /\ Ordered(device', calls)
<1>1. /\ device \in Seq(Request) /\ Len(device) \in Nat /\ calls \in Nat
      /\ Ordered(device, calls - Due) /\ Len(device) + Due <= calls
  BY BridgeFacts, Zenon
<1>2. /\ request \in Request /\ request.call = calls - 1
      /\ request.seq = request.call % (DeviceMaxSeq + 1) /\ Due = 1
  BY Zenon DEF BridgeInv, Due
<1>3. Len(device) + 1 <= calls /\ Ordered(device, calls - 1)
  BY <1>1, <1>2, Zenon
<1>4. \A i \in 1 .. Len(device) : device[i].call \in Nat
  <2>1. \A i \in 1 .. Len(device) : device[i] \in Request
    BY <1>1, ElementOfSeq
  <2> QED
    BY <2>1 DEF Request
<1>5. CASE device' = device
  <2>1. Ordered(device, calls)
    BY <1>1, <1>3, <1>4 DEF Ordered
  <2> QED
    BY <1>1, <1>3, <1>5, <2>1
<1>6. CASE device' = Append(device, request)
  <2>1. /\ device' \in Seq(Request) /\ Len(device') = Len(device) + 1
        /\ \A i \in 1 .. Len(device) : device'[i] = device[i]
        /\ device'[Len(device) + 1] = request
    BY <1>1, <1>2, <1>6, AppendProperties
  <2>2. \A i \in 1 .. Len(device') : i \in 1 .. Len(device) \/ i = Len(device) + 1
    BY <1>1, <2>1
  <2>3. \A i \in 1 .. Len(device') :
          device'[i].seq = device'[i].call % (DeviceMaxSeq + 1) /\ device'[i].call < calls
    <3> SUFFICES ASSUME NEW i \in 1 .. Len(device')
                 PROVE  device'[i].seq = device'[i].call % (DeviceMaxSeq + 1)
                        /\ device'[i].call < calls
      OBVIOUS
    <3>1. CASE i \in 1 .. Len(device)
      <4>1. device'[i] = device[i] /\ device[i].call < calls - 1 /\ device[i].call \in Nat
            /\ device[i].seq = device[i].call % (DeviceMaxSeq + 1)
        BY <1>3, <1>4, <2>1, <3>1, Zenon DEF Ordered
      <4>2. device[i].call < calls
        BY <1>1, <4>1
      <4> QED
        BY <4>1, <4>2, Zenon
    <3>2. CASE i = Len(device) + 1
      <4>1. calls - 1 < calls
        BY <1>1
      <4> QED
        BY <1>2, <2>1, <3>2, <4>1, Zenon
    <3> QED
      BY <2>2, <3>1, <3>2
  <2>4. \A i, j \in 1 .. Len(device') : i < j => device'[i].call < device'[j].call
    <3> SUFFICES ASSUME NEW i \in 1 .. Len(device'), NEW j \in 1 .. Len(device'), i < j
                 PROVE  device'[i].call < device'[j].call
      OBVIOUS
    <3>1. i \in 1 .. Len(device) /\ device'[i] = device[i]
      BY <1>1, <2>1, <2>2
    <3>2. CASE j \in 1 .. Len(device)
      BY <1>3, <2>1, <3>1, <3>2, Zenon DEF Ordered
    <3>3. CASE j = Len(device) + 1
      BY <1>2, <1>3, <2>1, <3>1, <3>3, Zenon DEF Ordered
    <3> QED
      BY <2>2, <3>2, <3>3
  <2>5. Ordered(device', calls)
    BY <2>3, <2>4, Zenon DEF Ordered
  <2> QED
    BY <1>1, <1>3, <2>1, <2>5
<1> QED
  BY <1>5, <1>6

LEMMA FinishKeeps ==
  ASSUME BridgeInv, Waits, NEW ok, ok = TRUE \/ ok = FALSE, NEW of \in Source,
         Bridge!Finish(ok, of), ok => RightKind([op |-> request.op, call |-> request.call,
                                                 ok |-> TRUE, of |-> of]),
         device' = device \/ device' = Append(device, request)
  PROVE  BridgeInv'
<1>1. /\ request \in Request /\ Len(done) < MaxCalls
  BY Zenon DEF BridgeInv
<1>2. /\ heartbeat_counter \in Nat /\ calls \in Nat /\ done \in Seq(Outcome)
      /\ Len(done) \in Nat /\ calls <= Len(done) + Due /\ Due = 1
  BY BridgeFacts, Zenon DEF Due
<1>3. request' = Bridge!None /\ calls' = calls
  BY DEF Bridge!Finish
<1>4. sim_mode' \in BOOLEAN /\ connected' \in BOOLEAN
  <2>1. sim_mode' = sim_mode /\ connected' = connected
    BY Zenon DEF Bridge!Finish
  <2> QED
    BY <2>1, Zenon DEF BridgeInv
<1>5. ~Waits' /\ Due' = 0
  BY <1>3, Zenon DEF Waits, Due
<1>6. request.op \in Bridge!Ops /\ request.call \in Nat
  BY <1>1 DEF Request
<1>7. /\ done' \in Seq(Outcome) /\ Len(done') = Len(done) + 1
      /\ \A i \in 1 .. Len(done') : RightKind(done'[i])
      /\ heartbeat_counter' \in Nat
      /\ heartbeat_counter' = Cardinality(Heartbeats(done'))
  <2>1. CASE ok = TRUE
    <3> DEFINE d == [op |-> request.op, call |-> request.call, ok |-> TRUE, of |-> of]
    <3>1. d \in Outcome
      BY <1>6 DEF Outcome
    <3>2. done' = Append(done, d)
      BY <2>1, Zenon DEF Bridge!Finish
    <3>3. RightKind(d)
      BY <2>1, Zenon
    <3>4. Answered(d) <=> request.op = "heartbeat"
      BY Zenon DEF Answered
    <3>5. heartbeat_counter' = heartbeat_counter + (IF request.op = "heartbeat" THEN 1 ELSE 0)
      BY <2>1, Zenon DEF Bridge!Finish
    <3>6. /\ Answered(d) => heartbeat_counter' = heartbeat_counter + 1
          /\ ~Answered(d) => heartbeat_counter' = heartbeat_counter
      BY <1>2, <3>4, <3>5
    <3> HIDE DEF d
    <3> QED
      BY <3>1, <3>2, <3>3, <3>6, ResultKeeps
  <2>2. CASE ok = FALSE
    <3> DEFINE d == [op |-> request.op, call |-> request.call, ok |-> FALSE, of |-> of]
    <3>1. d \in Outcome
      BY <1>6 DEF Outcome
    <3>2. done' = Append(done, d)
      BY <2>2, Zenon DEF Bridge!Finish
    <3>3. RightKind(d) /\ ~Answered(d)
      BY Zenon DEF RightKind, Answered
    <3>4. heartbeat_counter' = heartbeat_counter + 0
      BY <2>2, Zenon DEF Bridge!Finish
    <3>5. heartbeat_counter' = heartbeat_counter
      BY <1>2, <3>4
    <3> HIDE DEF d
    <3> QED
      BY <3>1, <3>2, <3>3, <3>5, ResultKeeps
  <2> QED
    BY <2>1, <2>2, Zenon
<1>8. /\ device' \in Seq(Request) /\ Len(device') <= calls /\ Ordered(device', calls)
  BY DeviceKeeps
<1>9. /\ Len(device') + 0 <= calls' /\ calls' <= Len(done') + 0 /\ Len(done') <= MaxCalls
      /\ calls' - 0 = calls /\ calls' \in Nat
  <2>1. Len(device') \in Nat
    BY <1>8, LenProperties
  <2> QED
    BY <1>1, <1>2, <1>3, <1>7, <1>8, <2>1, BridgeSizes
<1> QED
  BY <1>4, <1>5, <1>7, <1>8, <1>9, Zenon DEF BridgeInv

LEMMA BridgeStep == BridgeInv /\ [Bridge!Next]_(Bridge!bridgeVars) => BridgeInv'
<1> SUFFICES ASSUME BridgeInv, [Bridge!Next]_(Bridge!bridgeVars) PROVE BridgeInv'
  OBVIOUS
<1>1. /\ heartbeat_counter \in Nat /\ calls \in Nat
      /\ device \in Seq(Request) /\ done \in Seq(Outcome)
      /\ Len(device) \in Nat /\ Len(done) \in Nat /\ Due \in {0, 1}
      /\ Ordered(device, calls - Due)
      /\ Len(device) + Due <= calls /\ calls <= Len(done) + Due /\ Len(done) <= MaxCalls
      /\ \A i \in 1 .. Len(done) : RightKind(done[i])
      /\ heartbeat_counter = Cardinality(Heartbeats(done))
  BY BridgeFacts
<1>2. sim_mode \in BOOLEAN /\ connected \in BOOLEAN
  BY Zenon DEF BridgeInv
<1>3. CASE UNCHANGED Bridge!bridgeVars
  BY <1>3, Zenon DEF BridgeInv, Bridge!bridgeVars, Waits, Due
<1>4. CASE Bridge!Connect
  <2>1. UNCHANGED <<sim_mode, heartbeat_counter, calls, request, device, done>>
    BY <1>4, Zenon DEF Bridge!Connect
  <2>2. connected' \in BOOLEAN
    BY <1>4, Zenon DEF Bridge!Connect
  <2> QED
    BY <2>1, <2>2, Zenon DEF BridgeInv, Waits, Due
<1>5. ASSUME NEW op \in Bridge!Ops, Bridge!SimCall(op) PROVE BridgeInv'
  <2> DEFINE d == [op |-> op, call |-> calls, ok |-> TRUE, of |-> [op |-> op, call |-> calls]]
  <2>1. /\ sim_mode' = sim_mode /\ connected' = connected
        /\ request' = request /\ device' = device /\ ~Waits
    BY <1>5, Zenon DEF Bridge!SimCall, Bridge!Idle, Waits
  <2>2. Len(done) < MaxCalls
    BY <1>5 DEF Bridge!SimCall, Bridge!Idle
  <2>3. done' = Append(done, d)
    BY <1>5, Zenon DEF Bridge!SimCall, Bridge!Result
  <2>4. d \in Outcome
    BY <1>1 DEF Outcome, Source
  <2>5. RightKind(d) /\ (Answered(d) <=> op = "heartbeat")
    BY Zenon DEF RightKind, Answered
  <2>6. heartbeat_counter' = heartbeat_counter + (IF op = "heartbeat" THEN 1 ELSE 0)
    BY <1>5, Zenon DEF Bridge!SimCall
  <2>7. /\ Answered(d) => heartbeat_counter' = heartbeat_counter + 1
        /\ ~Answered(d) => heartbeat_counter' = heartbeat_counter
    BY <1>1, <2>5, <2>6
  <2> HIDE DEF d
  <2>8. /\ done' \in Seq(Outcome) /\ Len(done') = Len(done) + 1
        /\ \A i \in 1 .. Len(done') : RightKind(done'[i])
        /\ heartbeat_counter' \in Nat
        /\ heartbeat_counter' = Cardinality(Heartbeats(done'))
    BY <2>3, <2>4, <2>5, <2>7, ResultKeeps
  <2>9. calls' = calls \/ calls' = calls + 1
    BY <1>5, Zenon DEF Bridge!SimCall, Bridge!NextSeq
  <2>10. Due = 0 /\ Due' = 0 /\ ~Waits'
    BY <2>1, Zenon DEF Waits, Due
  <2>11. /\ calls' \in Nat /\ Len(device) + 0 <= calls' /\ calls' <= Len(done') + 0
         /\ Len(done') <= MaxCalls
    BY <1>1, <2>2, <2>8, <2>9, <2>10, BridgeSizes
  <2>12. Ordered(device, calls' - 0)
    <3>1. Ordered(device, calls)
      <4>1. calls - 0 = calls
        BY <1>1
      <4> QED
        BY <1>1, <2>10, <4>1, Zenon
    <3>2. \A i \in 1 .. Len(device) : device[i].call \in Nat
      <4>1. \A i \in 1 .. Len(device) : device[i] \in Request
        BY <1>1, ElementOfSeq
      <4> QED
        BY <4>1 DEF Request
    <3> QED
      BY <1>1, <2>9, <3>1, <3>2 DEF Ordered
  <2> QED
    BY <1>1, <1>2, <2>1, <2>8, <2>10, <2>11, <2>12, Zenon DEF BridgeInv
<1>6. ASSUME NEW op \in Bridge!Ops, Bridge!Call(op) PROVE BridgeInv'
  <2>1. /\ sim_mode' = sim_mode /\ connected' = connected /\ ~Waits
        /\ heartbeat_counter' = heartbeat_counter /\ device' = device /\ done' = done
        /\ ~sim_mode
    BY <1>6, Zenon DEF Bridge!Call, Bridge!Idle, Waits
  <2>2. Len(done) < MaxCalls
    BY <1>6 DEF Bridge!Call, Bridge!Idle
  <2>3. request' = [op |-> op, call |-> calls, seq |-> calls % (DeviceMaxSeq + 1),
                    counter |-> heartbeat_counter]
    BY <1>6, Zenon DEF Bridge!Call
  <2>4. calls' = calls + 1
    <3>1. calls' = Bridge!NextSeq(op)
      BY <1>6, Zenon DEF Bridge!Call
    <3> QED
      BY <2>1, <3>1, Zenon DEF Bridge!NextSeq
  <2>5. calls % (DeviceMaxSeq + 1) \in Nat
    BY <1>1, BridgeSizes
  <2>6. /\ request' \in Request /\ request'.call = calls' - 1
        /\ request'.seq = request'.call % (DeviceMaxSeq + 1)
    BY <1>1, <2>3, <2>4, <2>5 DEF Request
  <2>7. Due = 0 /\ Waits' /\ Due' = 1
    <3>1. request' # Bridge!None
      BY <2>6, NoneIsNoRequest
    <3> QED
      BY <2>1, <3>1, Zenon DEF Waits, Due
  <2>8. /\ calls' \in Nat /\ Len(device) + 1 <= calls' /\ calls' <= Len(done) + 1
        /\ calls' - 1 = calls - Due
    BY <1>1, <2>4, <2>7
  <2> QED
    BY <1>1, <1>2, <2>1, <2>2, <2>6, <2>7, <2>8, Zenon DEF BridgeInv
<1>7. CASE Bridge!TransferFails \/ Bridge!ReadFails
  <2>1. /\ Waits /\ Bridge!Finish(request.op = "kill", Bridge!None)
        /\ device' = device \/ device' = Append(device, request)
    BY <1>7, Zenon DEF Bridge!TransferFails, Bridge!ReadFails, Waits
  <2>2. Bridge!None \in Source
    BY DEF Source
  <2>3. (request.op = "kill") = TRUE \/ (request.op = "kill") = FALSE
    OBVIOUS
  <2>4. request.op = "kill" => RightKind([op |-> request.op, call |-> request.call,
                                          ok |-> TRUE, of |-> Bridge!None])
    BY DEF RightKind
  <2> QED
    BY <2>1, <2>2, <2>3, <2>4, FinishKeeps
<1>8. ASSUME NEW i \in 1 .. Len(device) + 1, NEW long \in BOOLEAN,
             Bridge!ReadResponse(i, long)
      PROVE  BridgeInv'
  <2> DEFINE answered == device'[i]
             of == [op |-> answered.op, call |-> answered.call]
  <2>1. Waits /\ device' = Append(device, request)
    BY <1>8, Zenon DEF Bridge!ReadResponse, Waits
  <2>2. \/ Bridge!Accepts(request.op, answered, long) /\ Bridge!Finish(TRUE, of)
        \/ Bridge!Finish(FALSE, Bridge!None)
    BY <1>8, Zenon DEF Bridge!ReadResponse
  <2>3. device' \in Seq(Request) /\ Len(device') = Len(device) + 1
    <3>1. request \in Request
      BY <2>1, Zenon DEF BridgeInv
    <3> QED
      BY <1>1, <2>1, <3>1, AppendProperties
  <2>4. answered \in Request
    BY <2>3, ElementOfSeq
  <2>5. answered.op \in Bridge!Ops /\ of \in Source
    BY <2>4 DEF Request, Source
  <2>6. Bridge!None \in Source
    BY DEF Source
  <2>7. CASE Bridge!Accepts(request.op, answered, long) /\ Bridge!Finish(TRUE, of)
    <3>1. request.op \in {"encrypt", "decrypt", "heartbeat"} => of.op = request.op
      BY <2>5, <2>7, AcceptedKind
    <3>2. RightKind([op |-> request.op, call |-> request.call, ok |-> TRUE, of |-> of])
      BY <3>1, Zenon DEF RightKind
    <3> HIDE DEF of
    <3> QED
      BY <2>1, <2>5, <2>7, <3>2, FinishKeeps, Zenon
  <2>8. CASE Bridge!Finish(FALSE, Bridge!None)
    BY <2>1, <2>6, <2>8, FinishKeeps, Zenon
  <2> QED
    BY <2>2, <2>7, <2>8
<1> QED
  BY <1>3, <1>4, <1>5, <1>6, <1>7, <1>8, Zenon DEF Bridge!Next

(* Two requests of the same number are a whole range of calls apart.       *)
LEMMA NumbersApart ==
  BridgeInv => \A i, j \in 1 .. Len(device) :
                 i < j /\ device[i].seq = device[j].seq
                   => device[j].call - device[i].call > DeviceMaxSeq
<1> SUFFICES ASSUME BridgeInv, NEW i \in 1 .. Len(device), NEW j \in 1 .. Len(device),
                    i < j, device[i].seq = device[j].seq
             PROVE  device[j].call - device[i].call > DeviceMaxSeq
  OBVIOUS
<1>1. device \in Seq(Request) /\ Ordered(device, calls - Due)
  BY BridgeFacts
<1>2. device[i] \in Request /\ device[j] \in Request
  BY <1>1, ElementOfSeq
<1> DEFINE a == device[i].call
           b == device[j].call
           m == DeviceMaxSeq + 1
<1>3. a \in Nat /\ b \in Nat
  BY <1>2 DEF Request
<1>4. a < b /\ a % m = b % m
  BY <1>1 DEF Ordered
<1>5. m \in Nat \ {0}
  BY BridgeSizes
<1> HIDE DEF a, b, m
<1>6. b - a >= m
  <2>1. a <= b
    BY <1>3, <1>4
  <2> QED
    BY <1>3, <1>4, <1>5, <2>1, DivModOrder
<1> QED
  BY <1>3, <1>6, BridgeSizes DEF a, b, m

LEMMA BridgeInvariant == Bridge!Spec => []BridgeInv
<1>1. Bridge!Init => BridgeInv
  <2> SUFFICES ASSUME Bridge!Init PROVE BridgeInv
    OBVIOUS
  <2>1. /\ heartbeat_counter = 0 /\ calls = 0 /\ request = Bridge!None
        /\ device = <<>> /\ done = <<>>
    BY DEF Bridge!Init
  <2>2. sim_mode \in BOOLEAN /\ connected \in BOOLEAN
    BY Zenon DEF Bridge!Init
  <2>3. ~Waits /\ Due = 0
    BY <2>1 DEF Waits, Due
  <2>4. /\ device \in Seq(Request) /\ done \in Seq(Outcome)
        /\ Len(device) = 0 /\ Len(done) = 0
    BY <2>1
  <2>5. /\ Ordered(device, calls - Due)
        /\ Len(device) + Due <= calls /\ calls <= Len(done) + Due /\ Len(done) <= MaxCalls
        /\ \A i \in 1 .. Len(done) : RightKind(done[i])
        /\ heartbeat_counter \in Nat /\ calls \in Nat
    BY <2>1, <2>3, <2>4, BridgeSizes DEF Ordered
  <2>6. Heartbeats(done) = {}
    BY <2>1 DEF Heartbeats
  <2>7. heartbeat_counter = Cardinality(Heartbeats(done))
    BY <2>1, <2>6, FS_EmptySet
  <2> QED
    BY <2>2, <2>3, <2>4, <2>5, <2>7, Zenon DEF BridgeInv
<1> QED
  BY <1>1, BridgeStep, PTL DEF Bridge!Spec

(* The bridge believes an answer only of the kind it asked for, counts the *)
(* heartbeats answered, and repeats a sequence number only after the whole *)
(* range: for every range and number of calls, whatever fails, comes late  *)
(* or answers an earlier request (titan_spi.rs 181-307, 473).              *)
THEOREM BridgeBelievesRightly == Bridge!Spec => []Bridge!AnswersBelieved
<1>1. BridgeInv => Bridge!AnswersBelieved
  <2> SUFFICES ASSUME BridgeInv PROVE Bridge!AnswersBelieved
    OBVIOUS
  <2>1. \A i \in 1 .. Len(done) : RightKind(done[i])
    BY BridgeFacts
  <2>2. heartbeat_counter = Cardinality(Heartbeats(done))
    BY BridgeFacts
  <2>3. Heartbeats(done) = {i \in DOMAIN done : done[i].ok /\ done[i].op = "heartbeat"}
    BY Zenon DEF Heartbeats, Answered
  <2>4. \A i \in 1 .. Len(done) :
          done[i].ok /\ done[i].op \in {"encrypt", "decrypt", "heartbeat"}
            => done[i].of.op = done[i].op
    BY <2>1, Zenon DEF RightKind
  <2>5. heartbeat_counter =
          Bridge!Cardinality({i \in DOMAIN done : done[i].ok /\ done[i].op = "heartbeat"})
    BY <2>2, <2>3, SameCount, Zenon
  <2>6. \A i, j \in 1 .. Len(device) :
          i < j /\ device[i].seq = device[j].seq
            => device[j].call - device[i].call > DeviceMaxSeq
    BY NumbersApart
  <2> QED
    BY <2>4, <2>5, <2>6, Zenon DEF Bridge!AnswersBelieved
<1> QED
  BY <1>1, BridgeInvariant, PTL

-----------------------------------------------------------------------------

(* Two devices that share a session.  What one device keeps is an account  *)
(* of six figures and sets, and every step of it moves them together.      *)
Ratchet == [number : Nat, skipped : SUBSET Nat]
Entries == [layer0 : Nat, layer1 : Nat, replay : Nat]
OpenedIn(o) == {w \in Pair!Wire : o[w] > 0}
Own(d) == {w \in wires : w.from = d}

(* The receive ratchet r and the messages o opened with it, w wasted keys.  *)
Honoured(r, o, wasted) ==
  /\ r.skipped \subseteq 0 .. r.number - 1
  /\ \A w \in OpenedIn(o) : o[w] = 1 /\ w.n < r.number /\ w.n \notin r.skipped
  /\ \A w, x \in OpenedIn(o) : w.n = x.n => w = x
  /\ IsFiniteSet(OpenedIn(o))
  /\ r.number = Cardinality(OpenedIn(o)) + Cardinality(r.skipped) + wasted

(* The messages recorded, those of a device on the network, and the rest.  *)
Accounted(n, next, own, o, a, u) ==
  /\ \A w \in own : w.n < next
  /\ IsFiniteSet(own)
  /\ n = Cardinality(own) + Cardinality(OpenedIn(o)) + a.layer0 + a.layer1 + a.replay + u

DeviceTypes ==
  /\ recorded \in [Devices -> Nat] /\ send_number \in [Devices -> Nat]
  /\ recv \in [Devices -> Ratchet] /\ wires \subseteq Pair!Wire
  /\ opened \in [Devices -> [Pair!Wire -> Nat]]
  /\ audit \in [Devices -> Entries] /\ unlogged \in [Devices -> Nat]

DeviceInv ==
  /\ DeviceTypes
  /\ \A d \in Devices :
       /\ Honoured(recv[d], opened[d], audit[d].layer1)
       /\ Accounted(recorded[d], send_number[d], Own(d), opened[d], audit[d], unlogged[d])

LEMMA DeviceSizes == DeviceMessages \in Nat /\ MaxSkip \in Nat /\ MaxNumber \in Nat
BY ServicesSizes DEF Pair!DeviceConstants

(* One key less to come: the number moves by the keys skipped and the one  *)
(* handed out, which is never handed out again (ratchet.rs 388-455).       *)
LEMMA KeyForCounts ==
  ASSUME NEW r \in Ratchet, r.skipped \subseteq 0 .. r.number - 1,
         NEW seq \in Nat, Pair!HasKey(r, seq)
  PROVE  LET s == Pair!KeyFor(r, seq) IN
         /\ s \in Ratchet /\ s.skipped \subseteq 0 .. s.number - 1
         /\ s.number = r.number + Cardinality(s.skipped) - Cardinality(r.skipped) + 1
         /\ Cardinality(s.skipped) \in Nat /\ Cardinality(r.skipped) \in Nat
         /\ seq < s.number /\ seq \notin s.skipped
         /\ \A k \in Nat : k < r.number /\ k \notin r.skipped
                             => k < s.number /\ k \notin s.skipped
<1> DEFINE s == Pair!KeyFor(r, seq)
           n == r.number
           K == r.skipped
<1>1. n \in Nat /\ K \subseteq 0 .. n - 1 /\ r = [number |-> n, skipped |-> K]
  BY DEF Ratchet
<1>2. seq \in K \/ seq \in n .. n + MaxSkip
  BY Zenon DEF Pair!HasKey
<1>3. IsFiniteSet(0 .. n - 1)
  <2>1. 0 \in Int /\ n - 1 \in Int
    BY <1>1
  <2> QED
    BY <2>1, FS_Interval
<1>4. IsFiniteSet(K) /\ Cardinality(K) \in Nat
  BY <1>1, <1>3, FS_Subset, FS_CardinalityType
<1>5. CASE seq \in K
  <2>1. s = [number |-> n, skipped |-> K \ {seq}]
    BY <1>1, <1>5 DEF Pair!KeyFor
  <2>2. s.number = n /\ s.skipped = K \ {seq}
    BY <2>1
  <2>3. Cardinality(K \ {seq}) = Cardinality(K) - 1 /\ IsFiniteSet(K \ {seq})
    BY <1>4, <1>5, FS_RemoveElement
  <2>4. Cardinality(K \ {seq}) \in Nat
    BY <2>3, FS_CardinalityType
  <2>5. seq < n /\ K \ {seq} \subseteq 0 .. n - 1
    BY <1>1, <1>5
  <2>6. s \in Ratchet
    BY <1>1, <2>1 DEF Ratchet
  <2>7. s.number = r.number + Cardinality(s.skipped) - Cardinality(r.skipped) + 1
    BY <1>1, <1>4, <2>2, <2>3, <2>4
  <2>8. s.skipped \subseteq 0 .. s.number - 1 /\ seq < s.number /\ seq \notin s.skipped
    BY <2>2, <2>5
  <2>9. \A k \in Nat : k < r.number /\ k \notin r.skipped
                         => k < s.number /\ k \notin s.skipped
    BY <2>2
  <2>10. Cardinality(s.skipped) \in Nat /\ Cardinality(r.skipped) \in Nat
    BY <1>4, <2>2, <2>4
  <2> QED
    BY <2>6, <2>7, <2>8, <2>9, <2>10
<1>6. CASE seq \notin K
  <2> DEFINE L == n .. seq - 1
  <2>1. seq >= n
    BY <1>1, <1>2, <1>6, DeviceSizes
  <2>2. s = [number |-> seq + 1, skipped |-> K \cup L]
    BY <1>6 DEF Pair!KeyFor
  <2>3. s.number = seq + 1 /\ s.skipped = K \cup L
    BY <2>2
  <2>4. IsFiniteSet(L) /\ Cardinality(L) = seq - n
    <3>1. /\ IsFiniteSet(n .. seq - 1)
          /\ Cardinality(n .. seq - 1) = IF n > seq - 1 THEN 0 ELSE (seq - 1) - n + 1
      BY <1>1, FS_Interval
    <3> QED
      BY <1>1, <2>1, <3>1
  <2>5. K \cap L = {}
    BY <1>1
  <2>6. /\ IsFiniteSet(K \cup L)
        /\ Cardinality(K \cup L) = Cardinality(K) + Cardinality(L) - Cardinality(K \cap L)
    BY <1>4, <2>4, FS_Union
  <2>7. Cardinality(K \cap L) = 0
    BY <2>5, FS_EmptySet
  <2>8. Cardinality(K \cup L) = Cardinality(K) + (seq - n)
    BY <1>1, <1>4, <2>1, <2>4, <2>6, <2>7
  <2>9. Cardinality(K \cup L) \in Nat
    BY <2>6, FS_CardinalityType
  <2>10. K \cup L \subseteq 0 .. seq /\ seq \notin K \cup L /\ K \cup L \subseteq Nat
    BY <1>1, <1>6, <2>1
  <2>11. s \in Ratchet
    BY <2>2, <2>10 DEF Ratchet
  <2>12. s.number = r.number + Cardinality(s.skipped) - Cardinality(r.skipped) + 1
    BY <1>1, <1>4, <2>3, <2>8, <2>9
  <2>13. s.skipped \subseteq 0 .. s.number - 1 /\ seq < s.number /\ seq \notin s.skipped
    BY <2>3, <2>10
  <2>14. \A k \in Nat : k < r.number /\ k \notin r.skipped
                          => k < s.number /\ k \notin s.skipped
    BY <1>1, <2>1, <2>3
  <2>15. Cardinality(s.skipped) \in Nat /\ Cardinality(r.skipped) \in Nat
    BY <1>4, <2>3, <2>9
  <2> QED
    BY <2>11, <2>12, <2>13, <2>14, <2>15
<1> QED
  BY <1>5, <1>6

(* A key used up for nothing.                                              *)
LEMMA WastedKey ==
  ASSUME NEW r \in Ratchet, NEW o \in [Pair!Wire -> Nat], NEW wasted \in Nat,
         Honoured(r, o, wasted), NEW seq \in Nat, Pair!HasKey(r, seq)
  PROVE  Pair!KeyFor(r, seq) \in Ratchet /\ Honoured(Pair!KeyFor(r, seq), o, wasted + 1)
<1> DEFINE s == Pair!KeyFor(r, seq)
           O == OpenedIn(o)
<1>1. /\ r.skipped \subseteq 0 .. r.number - 1
      /\ \A w \in O : o[w] = 1 /\ w.n < r.number /\ w.n \notin r.skipped
      /\ \A w, x \in O : w.n = x.n => w = x
      /\ IsFiniteSet(O)
      /\ r.number = Cardinality(O) + Cardinality(r.skipped) + wasted
  BY Zenon DEF Honoured
<1>2. /\ s \in Ratchet /\ s.skipped \subseteq 0 .. s.number - 1
      /\ s.number = r.number + Cardinality(s.skipped) - Cardinality(r.skipped) + 1
      /\ Cardinality(s.skipped) \in Nat /\ Cardinality(r.skipped) \in Nat
      /\ \A k \in Nat : k < r.number /\ k \notin r.skipped
                          => k < s.number /\ k \notin s.skipped
  BY <1>1, KeyForCounts
<1>3. Cardinality(O) \in Nat
  BY <1>1, FS_CardinalityType
<1>4. \A w \in O : w.n \in Nat
  BY DeviceSizes DEF OpenedIn, Pair!Wire, Pair!Numbers
<1> HIDE DEF s, O
<1>5. s.number = Cardinality(O) + Cardinality(s.skipped) + (wasted + 1)
  BY <1>1, <1>2, <1>3
<1>6. \A w \in O : o[w] = 1 /\ w.n < s.number /\ w.n \notin s.skipped
  BY <1>1, <1>2, <1>4, Zenon
<1> QED
  BY <1>1, <1>2, <1>5, <1>6, Zenon DEF Honoured, s, O

(* A key that opens a message, which no other message can then use.        *)
LEMMA OpeningKey ==
  ASSUME NEW r \in Ratchet, NEW o \in [Pair!Wire -> Nat], NEW wasted \in Nat,
         Honoured(r, o, wasted), NEW w \in Pair!Wire, Pair!HasKey(r, w.n)
  PROVE  LET p == [o EXCEPT ![w] = @ + 1] IN
         /\ p \in [Pair!Wire -> Nat] /\ Pair!KeyFor(r, w.n) \in Ratchet
         /\ Honoured(Pair!KeyFor(r, w.n), p, wasted)
         /\ Cardinality(OpenedIn(o)) \in Nat
         /\ Cardinality(OpenedIn(p)) = Cardinality(OpenedIn(o)) + 1
<1> DEFINE s == Pair!KeyFor(r, w.n)
           p == [o EXCEPT ![w] = @ + 1]
           O == OpenedIn(o)
           P == OpenedIn(p)
<1>1. /\ r.skipped \subseteq 0 .. r.number - 1
      /\ \A x \in O : o[x] = 1 /\ x.n < r.number /\ x.n \notin r.skipped
      /\ \A x, y \in O : x.n = y.n => x = y
      /\ IsFiniteSet(O)
      /\ r.number = Cardinality(O) + Cardinality(r.skipped) + wasted
  BY Zenon DEF Honoured
<1>2. \A x \in Pair!Wire : x.n \in Nat
  BY DeviceSizes DEF Pair!Wire, Pair!Numbers
<1>3. /\ s \in Ratchet /\ s.skipped \subseteq 0 .. s.number - 1
      /\ s.number = r.number + Cardinality(s.skipped) - Cardinality(r.skipped) + 1
      /\ Cardinality(s.skipped) \in Nat /\ Cardinality(r.skipped) \in Nat
      /\ w.n < s.number /\ w.n \notin s.skipped
      /\ \A k \in Nat : k < r.number /\ k \notin r.skipped
                          => k < s.number /\ k \notin s.skipped
  BY <1>1, <1>2, KeyForCounts
<1>4. Cardinality(O) \in Nat
  BY <1>1, FS_CardinalityType
<1>5. w \notin O /\ \A x \in O : x.n # w.n
  <2>1. w.n \in r.skipped \/ w.n >= r.number
    <3>1. w.n \in r.skipped \/ w.n \in r.number .. r.number + MaxSkip
      BY Zenon DEF Pair!HasKey
    <3>2. r.number \in Nat /\ w.n \in Nat
      BY <1>2 DEF Ratchet
    <3> QED
      BY <3>1, <3>2, DeviceSizes
  <2>2. r.number \in Nat /\ w.n \in Nat
    BY <1>2 DEF Ratchet
  <2>3. \A x \in O : x.n # w.n
    <3> SUFFICES ASSUME NEW x \in O, x.n = w.n PROVE FALSE
      OBVIOUS
    <3>1. w.n < r.number /\ w.n \notin r.skipped
      BY <1>1
    <3> QED
      BY <2>1, <2>2, <3>1
  <2> QED
    BY <2>3
<1>6. p \in [Pair!Wire -> Nat] /\ p[w] = o[w] + 1 /\ \A x \in Pair!Wire : x # w => p[x] = o[x]
  OBVIOUS
<1>7. P = O \cup {w}
  BY <1>6 DEF OpenedIn
<1>8. IsFiniteSet(P) /\ Cardinality(P) = Cardinality(O) + 1
  <2> HIDE DEF O, P
  <2>1. IsFiniteSet(O) /\ w \notin O
    BY <1>1, <1>5
  <2> QED
    BY <1>7, <2>1, FS_AddElement
<1>9. o[w] = 0 /\ p[w] = 1
  BY <1>5, <1>6 DEF OpenedIn
<1>10. O \subseteq Pair!Wire
  BY DEF OpenedIn
<1> HIDE DEF s, p, O, P
<1>11. \A x \in P : p[x] = 1 /\ x.n < s.number /\ x.n \notin s.skipped
  <2> SUFFICES ASSUME NEW x \in P
               PROVE  p[x] = 1 /\ x.n < s.number /\ x.n \notin s.skipped
    OBVIOUS
  <2>1. CASE x = w
    BY <1>3, <1>9, <2>1, Zenon
  <2>2. CASE x # w
    <3>1. x \in O /\ x \in Pair!Wire
      BY <1>7, <1>10, <2>2, Zenon
    <3>2. o[x] = 1 /\ x.n < r.number /\ x.n \notin r.skipped /\ x.n \in Nat
      BY <1>1, <1>2, <3>1, Zenon
    <3>3. x.n < s.number /\ x.n \notin s.skipped
      BY <1>3, <3>2, Zenon
    <3> QED
      BY <1>6, <2>2, <3>1, <3>2, <3>3, Zenon
  <2> QED
    BY <2>1, <2>2
<1>12. \A x, y \in P : x.n = y.n => x = y
  BY <1>1, <1>5, <1>7, Zenon
<1>13. s.number = Cardinality(P) + Cardinality(s.skipped) + wasted
  BY <1>1, <1>3, <1>4, <1>8
<1>14. Honoured(s, p, wasted)
  BY <1>3, <1>8, <1>11, <1>12, <1>13, Zenon DEF Honoured, P
<1> QED
  BY <1>3, <1>4, <1>6, <1>8, <1>14, Zenon DEF s, p, O, P

(* One call more, which spends a figure of the rest of the account.        *)
LEMMA AccountSpent ==
  ASSUME NEW n \in Nat, NEW m \in Nat, NEW next \in Nat, m <= next,
         NEW own \in SUBSET Pair!Wire, NEW o \in [Pair!Wire -> Nat],
         IsFiniteSet(OpenedIn(o)), NEW a \in Entries, NEW b \in Entries,
         NEW u \in Nat, NEW v \in Nat, Accounted(n, m, own, o, a, u),
         b.layer0 + b.layer1 + b.replay + v = a.layer0 + a.layer1 + a.replay + u + 1
  PROVE  Accounted(n + 1, next, own, o, b, v)
<1>1. /\ \A w \in own : w.n < m
      /\ IsFiniteSet(own)
      /\ n = Cardinality(own) + Cardinality(OpenedIn(o)) + a.layer0 + a.layer1 + a.replay + u
  BY Zenon DEF Accounted
<1>2. Cardinality(own) \in Nat /\ Cardinality(OpenedIn(o)) \in Nat
  BY <1>1, FS_CardinalityType
<1>3. /\ a.layer0 \in Nat /\ a.layer1 \in Nat /\ a.replay \in Nat
      /\ b.layer0 \in Nat /\ b.layer1 \in Nat /\ b.replay \in Nat
  BY DEF Entries
<1>4. \A w \in own : w.n < next
  <2>1. \A w \in own : w.n \in Nat
    BY DeviceSizes DEF Pair!Wire, Pair!Numbers
  <2> QED
    BY <1>1, <2>1
<1>5. n + 1 = Cardinality(own) + Cardinality(OpenedIn(o)) + b.layer0 + b.layer1 + b.replay + v
  BY <1>1, <1>2, <1>3
<1> QED
  BY <1>1, <1>4, <1>5, Zenon DEF Accounted

(* One call more, which puts a message on the network.                     *)
LEMMA AccountSent ==
  ASSUME NEW n \in Nat, NEW m \in Nat, NEW own \in SUBSET Pair!Wire,
         NEW o \in [Pair!Wire -> Nat], IsFiniteSet(OpenedIn(o)),
         NEW a \in Entries, NEW u \in Nat, Accounted(n, m, own, o, a, u),
         NEW w \in Pair!Wire, w.n = m
  PROVE  Accounted(n + 1, m + 1, own \cup {w}, o, a, u)
<1>1. /\ \A x \in own : x.n < m
      /\ IsFiniteSet(own)
      /\ n = Cardinality(own) + Cardinality(OpenedIn(o)) + a.layer0 + a.layer1 + a.replay + u
  BY Zenon DEF Accounted
<1>2. w \notin own
  BY <1>1
<1>3. IsFiniteSet(own \cup {w}) /\ Cardinality(own \cup {w}) = Cardinality(own) + 1
  BY <1>1, <1>2, FS_AddElement
<1>4. Cardinality(own) \in Nat /\ Cardinality(OpenedIn(o)) \in Nat
  BY <1>1, FS_CardinalityType
<1>5. a.layer0 \in Nat /\ a.layer1 \in Nat /\ a.replay \in Nat
  BY DEF Entries
<1>6. \A x \in own \cup {w} : x.n < m + 1
  <2>1. \A x \in own : x.n \in Nat
    BY DeviceSizes DEF Pair!Wire, Pair!Numbers
  <2> QED
    BY <1>1, <2>1
<1>7. n + 1 = Cardinality(own \cup {w}) + Cardinality(OpenedIn(o))
              + a.layer0 + a.layer1 + a.replay + u
  BY <1>1, <1>3, <1>4, <1>5
<1> QED
  BY <1>3, <1>6, <1>7, Zenon DEF Accounted

(* One call more, which opens a message.                                   *)
LEMMA AccountOpened ==
  ASSUME NEW n \in Nat, NEW m \in Nat, NEW own \in SUBSET Pair!Wire,
         NEW o \in [Pair!Wire -> Nat], NEW p \in [Pair!Wire -> Nat],
         NEW a \in Entries, NEW u \in Nat, Accounted(n, m, own, o, a, u),
         Cardinality(OpenedIn(o)) \in Nat,
         Cardinality(OpenedIn(p)) = Cardinality(OpenedIn(o)) + 1
  PROVE  Accounted(n + 1, m, own, p, a, u)
<1>1. /\ \A w \in own : w.n < m
      /\ IsFiniteSet(own)
      /\ n = Cardinality(own) + Cardinality(OpenedIn(o)) + a.layer0 + a.layer1 + a.replay + u
  BY Zenon DEF Accounted
<1>2. Cardinality(own) \in Nat
  BY <1>1, FS_CardinalityType
<1>3. a.layer0 \in Nat /\ a.layer1 \in Nat /\ a.replay \in Nat
  BY DEF Entries
<1>4. n + 1 = Cardinality(own) + Cardinality(OpenedIn(p)) + a.layer0 + a.layer1 + a.replay + u
  BY <1>1, <1>2, <1>3
<1> QED
  BY <1>1, <1>4, Zenon DEF Accounted

Figures(d) ==
  /\ Honoured(recv[d], opened[d], audit[d].layer1)
  /\ Accounted(recorded[d], send_number[d], Own(d), opened[d], audit[d], unlogged[d])

(* A step of one device leaves the account of the other as it was.         *)
LEMMA OtherFigures ==
  ASSUME DeviceInv, NEW e \in Devices,
         recorded'[e] = recorded[e], send_number'[e] = send_number[e],
         recv'[e] = recv[e], opened'[e] = opened[e], audit'[e] = audit[e],
         unlogged'[e] = unlogged[e], Own(e)' = Own(e)
  PROVE  Figures(e)'
BY Zenon DEF DeviceInv, Figures

LEMMA DeviceParts ==
  ASSUME DeviceInv, NEW d \in Devices
  PROVE  /\ Figures(d) /\ Honoured(recv[d], opened[d], audit[d].layer1)
         /\ Accounted(recorded[d], send_number[d], Own(d), opened[d], audit[d], unlogged[d])
         /\ recorded[d] \in Nat /\ send_number[d] \in Nat /\ recv[d] \in Ratchet
         /\ opened[d] \in [Pair!Wire -> Nat] /\ audit[d] \in Entries /\ unlogged[d] \in Nat
         /\ audit[d].layer0 \in Nat /\ audit[d].layer1 \in Nat /\ audit[d].replay \in Nat
         /\ Own(d) \in SUBSET Pair!Wire /\ IsFiniteSet(OpenedIn(opened[d]))
<1>1. DeviceTypes /\ Figures(d)
  BY Zenon DEF DeviceInv, Figures
<1>2. /\ recorded[d] \in Nat /\ send_number[d] \in Nat /\ recv[d] \in Ratchet
      /\ opened[d] \in [Pair!Wire -> Nat] /\ audit[d] \in Entries /\ unlogged[d] \in Nat
      /\ Own(d) \in SUBSET Pair!Wire
  BY <1>1 DEF DeviceTypes, Own
<1>3. audit[d].layer0 \in Nat /\ audit[d].layer1 \in Nat /\ audit[d].replay \in Nat
  BY <1>2 DEF Entries
<1> QED
  BY <1>1, <1>2, <1>3, Zenon DEF Figures, Honoured

(* Each way a call ends, one by one: what the step moves of device d.      *)
LEMMA Logged ==
  ASSUME DeviceInv, NEW d \in Devices, NEW entry \in {"layer0", "layer1", "replay"},
         Pair!Log(d, entry)
  PROVE  /\ audit' \in [Devices -> Entries]
         /\ \A e \in Devices : e # d => audit'[e] = audit[e]
         /\ audit'[d].layer0 + audit'[d].layer1 + audit'[d].replay
              = audit[d].layer0 + audit[d].layer1 + audit[d].replay + 1
         /\ audit'[d].layer1 = audit[d].layer1 + (IF entry = "layer1" THEN 1 ELSE 0)
<1>1. audit \in [Devices -> Entries] /\ audit[d] \in Entries
  BY DeviceParts DEF DeviceInv, DeviceTypes
<1>2. audit' = [audit EXCEPT ![d] = [audit[d] EXCEPT ![entry] = audit[d][entry] + 1]]
  BY DEF Pair!Log
<1> DEFINE a == audit[d]
           b == [a EXCEPT ![entry] = @ + 1]
<1>3. a = [layer0 |-> a.layer0, layer1 |-> a.layer1, replay |-> a.replay]
      /\ a.layer0 \in Nat /\ a.layer1 \in Nat /\ a.replay \in Nat
  BY <1>1 DEF Entries
<1>4. /\ b \in Entries
      /\ b.layer0 + b.layer1 + b.replay = a.layer0 + a.layer1 + a.replay + 1
      /\ b.layer1 = a.layer1 + (IF entry = "layer1" THEN 1 ELSE 0)
  <2>1. CASE entry = "layer0"
    <3>1. b = [layer0 |-> a.layer0 + 1, layer1 |-> a.layer1, replay |-> a.replay]
      BY <1>3, <2>1
    <3> QED
      BY <1>3, <2>1, <3>1 DEF Entries
  <2>2. CASE entry = "layer1"
    <3>1. b = [layer0 |-> a.layer0, layer1 |-> a.layer1 + 1, replay |-> a.replay]
      BY <1>3, <2>2
    <3> QED
      BY <1>3, <2>2, <3>1 DEF Entries
  <2>3. CASE entry = "replay"
    <3>1. b = [layer0 |-> a.layer0, layer1 |-> a.layer1, replay |-> a.replay + 1]
      BY <1>3, <2>3
    <3> QED
      BY <1>3, <2>3, <3>1 DEF Entries
  <2> QED
    BY <2>1, <2>2, <2>3
<1>5. audit' = [audit EXCEPT ![d] = b]
  BY <1>2, Zenon
<1> HIDE DEF b
<1>6. /\ audit' \in [Devices -> Entries] /\ audit'[d] = b
      /\ \A e \in Devices : e # d => audit'[e] = audit[e]
  BY <1>1, <1>4, <1>5
<1> QED
  BY <1>4, <1>6

LEMMA Recorded ==
  ASSUME DeviceInv, NEW d \in Devices, Pair!Record(d)
  PROVE  /\ recorded' \in [Devices -> Nat] /\ recorded'[d] = recorded[d] + 1
         /\ \A e \in Devices : e # d => recorded'[e] = recorded[e]
<1>1. recorded \in [Devices -> Nat] /\ recorded' = [recorded EXCEPT ![d] = recorded[d] + 1]
  BY Zenon DEF DeviceInv, DeviceTypes, Pair!Record
<1> QED
  BY <1>1

LEMMA SendCounts == ASSUME DeviceInv, NEW d \in Devices, Pair!Send(d) PROVE DeviceInv'
<1> DEFINE w == [from |-> d, n |-> send_number[d]]
<1>1. /\ send_number[d] \in Pair!Numbers /\ Pair!Record(d)
      /\ send_number' = [send_number EXCEPT ![d] = send_number[d] + 1]
      /\ wires' = wires \cup {w}
      /\ recv' = recv /\ opened' = opened /\ audit' = audit /\ unlogged' = unlogged
  BY Zenon DEF Pair!Send
<1>2. DeviceTypes
  BY Zenon DEF DeviceInv
<1>3. /\ recorded' \in [Devices -> Nat] /\ recorded'[d] = recorded[d] + 1
      /\ \A e \in Devices : e # d => recorded'[e] = recorded[e]
  BY <1>1, Recorded
<1>4. w \in Pair!Wire /\ w.n = send_number[d] /\ w.from = d
  BY <1>1 DEF Pair!Wire
<1> HIDE DEF w
<1>5. /\ send_number' \in [Devices -> Nat] /\ send_number'[d] = send_number[d] + 1
      /\ \A e \in Devices : e # d => send_number'[e] = send_number[e]
  BY <1>1, <1>2 DEF DeviceTypes
<1>6. DeviceTypes'
  BY <1>1, <1>2, <1>3, <1>4, <1>5 DEF DeviceTypes
<1>7. ASSUME NEW e \in Devices PROVE Figures(e)'
  <2>1. CASE e # d
    <3>1. Own(e)' = Own(e)
      BY <1>1, <1>4, <2>1, Zenon DEF Own
    <3>2. recv'[e] = recv[e] /\ opened'[e] = opened[e] /\ audit'[e] = audit[e]
          /\ unlogged'[e] = unlogged[e]
      BY <1>1, Zenon
    <3> QED
      BY <1>3, <1>5, <2>1, <3>1, <3>2, OtherFigures
  <2>2. CASE e = d
    <3>1. Own(d)' = Own(d) \cup {w}
      BY <1>1, <1>4, Zenon DEF Own
    <3>2. Accounted(recorded[d] + 1, send_number[d] + 1, Own(d) \cup {w}, opened[d],
                    audit[d], unlogged[d])
      <4> HIDE DEF DeviceInv
      <4>1. /\ Accounted(recorded[d], send_number[d], Own(d), opened[d], audit[d],
                         unlogged[d])
            /\ recorded[d] \in Nat /\ send_number[d] \in Nat
            /\ opened[d] \in [Pair!Wire -> Nat] /\ audit[d] \in Entries
            /\ unlogged[d] \in Nat
            /\ Own(d) \in SUBSET Pair!Wire /\ IsFiniteSet(OpenedIn(opened[d]))
        BY DeviceParts
      <4> QED
        BY <1>4, <4>1, AccountSent
    <3>3. Honoured(recv[d], opened[d], audit[d].layer1)
      BY DeviceParts
    <3> QED
      BY <1>1, <1>3, <1>5, <2>2, <3>1, <3>2, <3>3, Zenon DEF Figures
  <2> QED
    BY <2>1, <2>2
<1> QED
  BY <1>6, <1>7, Zenon DEF DeviceInv, Figures

(* What a call that puts nothing on the network and uses up no key leaves. *)
LEMMA FailureCounts ==
  ASSUME DeviceInv, NEW d \in Devices, Pair!Record(d),
         send_number' \in [Devices -> Nat], send_number[d] <= send_number'[d],
         \A e \in Devices : e # d => send_number'[e] = send_number[e],
         recv' = recv, wires' = wires, opened' = opened,
         \/ \E entry \in {"layer0", "replay"} : Pair!Log(d, entry) /\ unlogged' = unlogged
         \/ unlogged' = [unlogged EXCEPT ![d] = unlogged[d] + 1] /\ audit' = audit
  PROVE  DeviceInv'
<1>1. DeviceTypes
  BY Zenon DEF DeviceInv
<1>2. /\ recorded' \in [Devices -> Nat] /\ recorded'[d] = recorded[d] + 1
      /\ \A e \in Devices : e # d => recorded'[e] = recorded[e]
  BY Recorded
<1>3. /\ audit' \in [Devices -> Entries] /\ unlogged' \in [Devices -> Nat]
      /\ \A e \in Devices : e # d => audit'[e] = audit[e] /\ unlogged'[e] = unlogged[e]
      /\ audit'[d].layer1 = audit[d].layer1
      /\ audit'[d].layer0 + audit'[d].layer1 + audit'[d].replay + unlogged'[d]
           = audit[d].layer0 + audit[d].layer1 + audit[d].replay + unlogged[d] + 1
  <2>0. /\ audit[d].layer0 \in Nat /\ audit[d].layer1 \in Nat /\ audit[d].replay \in Nat
        /\ unlogged[d] \in Nat
    BY DeviceParts
  <2>1. CASE \E entry \in {"layer0", "replay"} :
                Pair!Log(d, entry) /\ unlogged' = unlogged
    <3>0. PICK entry \in {"layer0", "replay"} : Pair!Log(d, entry) /\ unlogged' = unlogged
      BY <2>1
    <3>1. entry \in {"layer0", "layer1", "replay"} /\ entry # "layer1"
      BY <3>0
    <3>2. /\ audit' \in [Devices -> Entries]
          /\ \A e \in Devices : e # d => audit'[e] = audit[e]
          /\ audit'[d].layer0 + audit'[d].layer1 + audit'[d].replay
               = audit[d].layer0 + audit[d].layer1 + audit[d].replay + 1
          /\ audit'[d].layer1 = audit[d].layer1 + (IF entry = "layer1" THEN 1 ELSE 0)
      BY <3>0, <3>1, Logged
    <3>3. audit'[d].layer1 = audit[d].layer1
      BY <2>0, <3>1, <3>2
    <3>4. unlogged' \in [Devices -> Nat] /\ \A e \in Devices : unlogged'[e] = unlogged[e]
      BY <1>1, <3>0 DEF DeviceTypes
    <3>5. audit'[d].layer0 \in Nat /\ audit'[d].layer1 \in Nat /\ audit'[d].replay \in Nat
      BY <3>2 DEF Entries
    <3>6. audit'[d].layer0 + audit'[d].layer1 + audit'[d].replay + unlogged'[d]
           = audit[d].layer0 + audit[d].layer1 + audit[d].replay + unlogged[d] + 1
      BY <2>0, <3>2, <3>4, <3>5
    <3> QED
      BY <3>2, <3>3, <3>4, <3>6
  <2>2. CASE unlogged' = [unlogged EXCEPT ![d] = unlogged[d] + 1] /\ audit' = audit
    <3>1. /\ unlogged' \in [Devices -> Nat] /\ unlogged'[d] = unlogged[d] + 1
          /\ \A e \in Devices : e # d => unlogged'[e] = unlogged[e]
      BY <1>1, <2>2 DEF DeviceTypes
    <3>2. audit' \in [Devices -> Entries] /\ \A e \in Devices : audit'[e] = audit[e]
      BY <1>1, <2>2, Zenon DEF DeviceTypes
    <3>3. audit'[d].layer0 + audit'[d].layer1 + audit'[d].replay + unlogged'[d]
           = audit[d].layer0 + audit[d].layer1 + audit[d].replay + unlogged[d] + 1
      <4>1. audit'[d] = audit[d]
        BY <3>2
      <4> QED
        BY <2>0, <3>1, <4>1
    <3> QED
      BY <3>1, <3>2, <3>3, Zenon
  <2> QED
    BY <2>1, <2>2
<1>4. DeviceTypes'
  BY <1>1, <1>2, <1>3 DEF DeviceTypes
<1>5. ASSUME NEW e \in Devices PROVE Figures(e)'
  <2>1. Own(e)' = Own(e) /\ recv'[e] = recv[e] /\ opened'[e] = opened[e]
    BY Zenon DEF Own
  <2>2. CASE e # d
    BY <1>2, <1>3, <2>1, <2>2, OtherFigures
  <2>3. CASE e = d
    <3>1. Honoured(recv[d], opened[d], audit[d].layer1)
      BY DeviceParts
    <3>2. /\ Accounted(recorded[d], send_number[d], Own(d), opened[d], audit[d],
                       unlogged[d])
          /\ recorded[d] \in Nat /\ send_number[d] \in Nat
          /\ opened[d] \in [Pair!Wire -> Nat] /\ audit[d] \in Entries
          /\ unlogged[d] \in Nat
          /\ Own(d) \in SUBSET Pair!Wire /\ IsFiniteSet(OpenedIn(opened[d]))
      BY DeviceParts
    <3>3. audit'[d] \in Entries /\ unlogged'[d] \in Nat /\ send_number'[d] \in Nat
      BY <1>3
    <3>4. Accounted(recorded[d] + 1, send_number'[d], Own(d), opened[d], audit'[d],
                    unlogged'[d])
      BY <1>3, <3>2, <3>3, AccountSpent
    <3> QED
      BY <1>2, <1>3, <2>1, <2>3, <3>1, <3>4, Zenon DEF Figures
  <2> QED
    BY <2>2, <2>3
<1> QED
  BY <1>4, <1>5, Zenon DEF DeviceInv, Figures

LEMMA MisnumberedCounts ==
  ASSUME DeviceInv, NEW d \in Devices, NEW w, NEW seq \in Pair!Numbers,
         Pair!Misnumbered(d, w, seq)
  PROVE  DeviceInv'
<1>1. /\ Pair!HasKey(recv[d], seq) /\ Pair!Record(d) /\ Pair!Log(d, "layer1")
      /\ recv' = [recv EXCEPT ![d] = Pair!KeyFor(recv[d], seq)]
      /\ send_number' = send_number /\ wires' = wires /\ opened' = opened
      /\ unlogged' = unlogged
  BY Zenon DEF Pair!Misnumbered
<1>2. DeviceTypes
  BY Zenon DEF DeviceInv
<1>3. /\ recorded' \in [Devices -> Nat] /\ recorded'[d] = recorded[d] + 1
      /\ \A e \in Devices : e # d => recorded'[e] = recorded[e]
  BY <1>1, Recorded
<1>4. /\ audit' \in [Devices -> Entries]
      /\ \A e \in Devices : e # d => audit'[e] = audit[e]
      /\ audit'[d].layer0 + audit'[d].layer1 + audit'[d].replay
           = audit[d].layer0 + audit[d].layer1 + audit[d].replay + 1
      /\ audit'[d].layer1 = audit[d].layer1 + 1
  BY <1>1, Logged
<1>5. seq \in Nat
  BY DeviceSizes DEF Pair!Numbers
<1>6. /\ Honoured(recv[d], opened[d], audit[d].layer1)
      /\ Accounted(recorded[d], send_number[d], Own(d), opened[d], audit[d], unlogged[d])
      /\ recorded[d] \in Nat /\ send_number[d] \in Nat /\ recv[d] \in Ratchet
      /\ opened[d] \in [Pair!Wire -> Nat] /\ audit[d] \in Entries /\ unlogged[d] \in Nat
      /\ audit[d].layer0 \in Nat /\ audit[d].layer1 \in Nat /\ audit[d].replay \in Nat
      /\ Own(d) \in SUBSET Pair!Wire /\ IsFiniteSet(OpenedIn(opened[d]))
  BY DeviceParts
<1>7. /\ Pair!KeyFor(recv[d], seq) \in Ratchet
      /\ Honoured(Pair!KeyFor(recv[d], seq), opened[d], audit[d].layer1 + 1)
  BY <1>1, <1>5, <1>6, WastedKey
<1>8. /\ recv' \in [Devices -> Ratchet] /\ recv'[d] = Pair!KeyFor(recv[d], seq)
      /\ \A e \in Devices : e # d => recv'[e] = recv[e]
  BY <1>1, <1>2, <1>7 DEF DeviceTypes
<1>9. DeviceTypes'
  BY <1>1, <1>2, <1>3, <1>4, <1>8 DEF DeviceTypes
<1>10. ASSUME NEW e \in Devices PROVE Figures(e)'
  <2>1. /\ Own(e)' = Own(e) /\ send_number'[e] = send_number[e]
        /\ opened'[e] = opened[e] /\ unlogged'[e] = unlogged[e]
    BY <1>1, Zenon DEF Own
  <2>2. CASE e # d
    BY <1>3, <1>4, <1>8, <2>1, <2>2, OtherFigures
  <2>3. CASE e = d
    <3>1. audit'[d] \in Entries
      BY <1>4
    <3>2. audit'[d].layer0 \in Nat /\ audit'[d].layer1 \in Nat /\ audit'[d].replay \in Nat
      BY <3>1 DEF Entries
    <3>3. audit'[d].layer0 + audit'[d].layer1 + audit'[d].replay + unlogged[d]
            = audit[d].layer0 + audit[d].layer1 + audit[d].replay + unlogged[d] + 1
      BY <1>4, <1>6, <3>2
    <3>4. send_number[d] <= send_number[d]
      BY <1>6
    <3>5. Accounted(recorded[d] + 1, send_number[d], Own(d), opened[d], audit'[d],
                    unlogged[d])
      BY <1>6, <3>1, <3>3, <3>4, AccountSpent
    <3> QED
      BY <1>3, <1>4, <1>7, <1>8, <2>1, <2>3, <3>5, Zenon DEF Figures
  <2> QED
    BY <2>2, <2>3
<1> QED
  BY <1>9, <1>10, Zenon DEF DeviceInv, Figures

LEMMA OpenedCounts ==
  ASSUME DeviceInv, NEW d \in Devices, NEW w \in wires, Pair!Opened(d, w)
  PROVE  DeviceInv'
<1> DEFINE p == [opened[d] EXCEPT ![w] = @ + 1]
<1>1. /\ Pair!HasKey(recv[d], w.n) /\ Pair!Record(d)
      /\ recv' = [recv EXCEPT ![d] = Pair!KeyFor(recv[d], w.n)]
      /\ send_number' = send_number /\ wires' = wires /\ audit' = audit
      /\ unlogged' = unlogged
  BY Zenon DEF Pair!Opened
<1>2. opened' = [opened EXCEPT ![d] = p]
  BY DEF Pair!Opened
<1>3. DeviceTypes
  BY Zenon DEF DeviceInv
<1>4. /\ recorded' \in [Devices -> Nat] /\ recorded'[d] = recorded[d] + 1
      /\ \A e \in Devices : e # d => recorded'[e] = recorded[e]
  BY <1>1, Recorded
<1>5. w \in Pair!Wire
  BY <1>3 DEF DeviceTypes
<1>6. /\ Honoured(recv[d], opened[d], audit[d].layer1)
      /\ Accounted(recorded[d], send_number[d], Own(d), opened[d], audit[d], unlogged[d])
      /\ recorded[d] \in Nat /\ send_number[d] \in Nat /\ recv[d] \in Ratchet
      /\ opened[d] \in [Pair!Wire -> Nat] /\ audit[d] \in Entries /\ unlogged[d] \in Nat
      /\ audit[d].layer1 \in Nat /\ Own(d) \in SUBSET Pair!Wire
  BY DeviceParts
<1>7. /\ p \in [Pair!Wire -> Nat] /\ Pair!KeyFor(recv[d], w.n) \in Ratchet
      /\ Honoured(Pair!KeyFor(recv[d], w.n), p, audit[d].layer1)
      /\ Cardinality(OpenedIn(opened[d])) \in Nat
      /\ Cardinality(OpenedIn(p)) = Cardinality(OpenedIn(opened[d])) + 1
  BY <1>1, <1>5, <1>6, OpeningKey
<1> HIDE DEF p
<1>8. /\ recv' \in [Devices -> Ratchet] /\ recv'[d] = Pair!KeyFor(recv[d], w.n)
      /\ \A e \in Devices : e # d => recv'[e] = recv[e]
  BY <1>1, <1>3, <1>7 DEF DeviceTypes
<1>9. /\ opened' \in [Devices -> [Pair!Wire -> Nat]] /\ opened'[d] = p
      /\ \A e \in Devices : e # d => opened'[e] = opened[e]
  BY <1>2, <1>3, <1>7 DEF DeviceTypes
<1>10. DeviceTypes'
  BY <1>1, <1>3, <1>4, <1>8, <1>9 DEF DeviceTypes
<1>11. ASSUME NEW e \in Devices PROVE Figures(e)'
  <2>1. /\ Own(e)' = Own(e) /\ send_number'[e] = send_number[e]
        /\ audit'[e] = audit[e] /\ unlogged'[e] = unlogged[e]
    BY <1>1, Zenon DEF Own
  <2>2. CASE e # d
    BY <1>4, <1>8, <1>9, <2>1, <2>2, OtherFigures
  <2>3. CASE e = d
    <3>1. Accounted(recorded[d] + 1, send_number[d], Own(d), p, audit[d], unlogged[d])
      BY <1>6, <1>7, AccountOpened
    <3> QED
      BY <1>4, <1>7, <1>8, <1>9, <2>1, <2>3, <3>1, Zenon DEF Figures
  <2> QED
    BY <2>2, <2>3
<1> QED
  BY <1>10, <1>11, Zenon DEF DeviceInv, Figures

LEMMA DevicesStep == DeviceInv /\ [Pair!Next]_(Pair!deviceVars) => DeviceInv'
<1> SUFFICES ASSUME DeviceInv, [Pair!Next]_(Pair!deviceVars) PROVE DeviceInv'
  OBVIOUS
<1>1. CASE UNCHANGED Pair!deviceVars
  BY <1>1, Zenon DEF Pair!deviceVars, DeviceInv, DeviceTypes, Own
<1>2. ASSUME NEW d \in Devices, Pair!Send(d) PROVE DeviceInv'
  BY <1>2, SendCounts
<1>3. ASSUME NEW d \in Devices, Pair!SendFails(d) PROVE DeviceInv'
  <2>1. /\ Pair!Record(d) /\ recv' = recv /\ wires' = wires /\ opened' = opened
        /\ unlogged' = [unlogged EXCEPT ![d] = unlogged[d] + 1] /\ audit' = audit
        /\ send_number' = [send_number EXCEPT ![d] = send_number[d] + 1]
    BY <1>3, Zenon DEF Pair!SendFails
  <2>2. send_number \in [Devices -> Nat]
    BY DEF DeviceInv, DeviceTypes
  <2>3. /\ send_number' \in [Devices -> Nat] /\ send_number[d] <= send_number'[d]
        /\ \A e \in Devices : e # d => send_number'[e] = send_number[e]
    BY <2>1, <2>2
  <2> QED
    BY <2>1, <2>3, FailureCounts
<1>4. ASSUME NEW d \in Devices,
             \/ Pair!Unparsed(d) \/ Pair!EnvelopeRefused(d)
             \/ \E seq \in Pair!Numbers : Pair!KeyRefused(d, seq)
      PROVE  DeviceInv'
  <2>1. /\ Pair!Record(d) /\ recv' = recv /\ wires' = wires /\ opened' = opened
        /\ send_number' = send_number
        /\ \/ \E entry \in {"layer0", "replay"} : Pair!Log(d, entry) /\ unlogged' = unlogged
           \/ unlogged' = [unlogged EXCEPT ![d] = unlogged[d] + 1] /\ audit' = audit
    BY <1>4, Zenon DEF Pair!Unparsed, Pair!EnvelopeRefused, Pair!KeyRefused
  <2>2. send_number \in [Devices -> Nat]
    BY DEF DeviceInv, DeviceTypes
  <2>3. /\ send_number' \in [Devices -> Nat] /\ send_number[d] <= send_number'[d]
        /\ \A e \in Devices : e # d => send_number'[e] = send_number[e]
    BY <2>1, <2>2
  <2> QED
    BY <2>1, <2>3, FailureCounts
<1>5. ASSUME NEW d \in Devices, NEW w \in wires, NEW seq \in Pair!Numbers,
             Pair!Misnumbered(d, w, seq)
      PROVE  DeviceInv'
  BY <1>5, MisnumberedCounts
<1>6. ASSUME NEW d \in Devices, NEW w \in wires, Pair!Opened(d, w) PROVE DeviceInv'
  BY <1>6, OpenedCounts
<1>7. ASSUME NEW d \in Devices, Pair!Expire(d) PROVE DeviceInv'
  BY <1>7, Zenon DEF Pair!Expire, DeviceInv, DeviceTypes, Own
<1> QED
  BY <1>1, <1>2, <1>3, <1>4, <1>5, <1>6, <1>7, Zenon DEF Pair!Next, Pair!Receive

(* Two devices of one session open no message twice and of two messages    *)
(* with one number only one, and what each counted adds up, for every      *)
(* number of messages, every gap allowed and whatever is lost, repeated,   *)
(* damaged or asked for by a wrong number (main.rs 182-278).               *)
THEOREM DevicesKeepCount == Pair!Spec => []Pair!DeviceKeepsCount
<1>1. Pair!Init => DeviceInv
  <2> SUFFICES ASSUME Pair!Init PROVE DeviceInv
    OBVIOUS
  <2>1. /\ recorded = [d \in Devices |-> 0] /\ send_number = [d \in Devices |-> 0]
        /\ recv = [d \in Devices |-> [number |-> 0, skipped |-> {}]] /\ wires = {}
        /\ opened = [d \in Devices |-> [w \in Pair!Wire |-> 0]]
        /\ audit = [d \in Devices |-> [layer0 |-> 0, layer1 |-> 0, replay |-> 0]]
        /\ unlogged = [d \in Devices |-> 0]
    BY Zenon DEF Pair!Init
  <2>2. DeviceTypes
    BY <2>1 DEF DeviceTypes, Ratchet, Entries
  <2>3. ASSUME NEW d \in Devices PROVE Figures(d)
    <3>1. /\ recorded[d] = 0 /\ send_number[d] = 0 /\ unlogged[d] = 0
          /\ recv[d] = [number |-> 0, skipped |-> {}]
          /\ audit[d] = [layer0 |-> 0, layer1 |-> 0, replay |-> 0]
          /\ opened[d] = [w \in Pair!Wire |-> 0]
      BY <2>1
    <3>2. recv[d].number = 0 /\ recv[d].skipped = {}
      BY <3>1
    <3>3. audit[d].layer0 = 0 /\ audit[d].layer1 = 0 /\ audit[d].replay = 0
      BY <3>1
    <3>4. OpenedIn(opened[d]) = {} /\ Own(d) = {}
      BY <2>1, <3>1 DEF OpenedIn, Own
    <3>5. IsFiniteSet({}) /\ Cardinality({}) = 0
      BY FS_EmptySet
    <3>6. Honoured(recv[d], opened[d], audit[d].layer1)
      BY <3>2, <3>3, <3>4, <3>5 DEF Honoured
    <3>7. Accounted(recorded[d], send_number[d], Own(d), opened[d], audit[d], unlogged[d])
      BY <3>1, <3>3, <3>4, <3>5 DEF Accounted
    <3> QED
      BY <3>6, <3>7, Zenon DEF Figures
  <2> QED
    BY <2>2, <2>3, Zenon DEF DeviceInv, Figures
<1>2. DeviceInv => Pair!DeviceKeepsCount
  <2> SUFFICES ASSUME DeviceInv PROVE Pair!DeviceKeepsCount
    OBVIOUS
  <2>1. ASSUME NEW d \in Devices
        PROVE  /\ Pair!OpenedBy(d) = OpenedIn(opened[d])
               /\ Pair!Cardinality(Pair!OpenedBy(d)) = Cardinality(OpenedIn(opened[d]))
               /\ Pair!Cardinality({w \in wires : w.from = d}) = Cardinality(Own(d))
               /\ Pair!Cardinality(recv[d].skipped) = Cardinality(recv[d].skipped)
    BY SameCount, Zenon DEF Pair!OpenedBy, OpenedIn, Own
  <2>2. ASSUME NEW d \in Devices
        PROVE  /\ Honoured(recv[d], opened[d], audit[d].layer1)
               /\ Accounted(recorded[d], send_number[d], Own(d), opened[d], audit[d],
                            unlogged[d])
    BY DeviceParts
  <2>3. Pair!HonouredOnce
    BY <2>1, <2>2, Zenon DEF Pair!HonouredOnce, Honoured
  <2>4. Pair!LedgersBalance
    BY <2>1, <2>2, Zenon DEF Pair!LedgersBalance, Honoured, Accounted
  <2> QED
    BY <2>3, <2>4, Zenon DEF Pair!DeviceKeepsCount
<1> QED
  BY <1>1, <1>2, DevicesStep, PTL DEF Pair!Spec

-----------------------------------------------------------------------------

(* The two ends of a titan-core conversation.  The keys on a dead drop are *)
(* counted per root and chain: those the sender made are those the         *)
(* receiver used up and those still waiting, unless a turn crossed them.   *)
Keys == [root : Nat, chain : Ends!Chains, step : Nat]
SealedIn(q, r, c) == {i \in DOMAIN q : q[i].chain = c /\ q[i].root = r}
Before(S, i) == {j \in S : j < i}
InOrder(q, r, c, base) ==
  \A i \in SealedIn(q, r, c) : q[i].step = base + Cardinality(Before(SealedIn(q, r, c), i))

Used(r, c) == IF r = root["bob"] THEN chain["bob"][c] ELSE 0
Made(r, c) == IF r = root["alice"] THEN chain["alice"][c] ELSE 0

KeyPassed(e, k) == k.root <= root[e] /\ (k.root = root[e] => k.step < chain[e][k.chain])

EndsTypes ==
  /\ root \in [Ends!Ends -> Nat] /\ chain \in [Ends!Ends -> [Ends!Chains -> Nat]]
  /\ drop \in Seq(Keys) /\ taken \in [Ends!Ends -> Seq(Keys)]

TakenOnce(e) ==
  /\ \A i \in 1 .. Len(taken[e]) : KeyPassed(e, taken[e][i])
  /\ \A i, j \in 1 .. Len(taken[e]) : i # j => taken[e][i] # taken[e][j]

KeysLineUp(r, c) ==
  r >= root["bob"] /\ <<r, c>> \notin crossed =>
    /\ InOrder(drop, r, c, Used(r, c))
    /\ r >= root["alice"] => Made(r, c) = Used(r, c) + Cardinality(SealedIn(drop, r, c))

EndsInv ==
  /\ EndsTypes
  /\ \A e \in Ends!Ends : TakenOnce(e)
  /\ \A r \in Nat, c \in Ends!Chains : KeysLineUp(r, c)

(* The indices of a sequence without its head are one lower, and as many.  *)
LEMMA ShiftDown ==
  ASSUME NEW n \in Nat, NEW W \in SUBSET (1 .. n)
  PROVE  LET V == {i \in 1 .. n - 1 : i + 1 \in W} IN
         /\ IsFiniteSet(W) /\ Cardinality(W) \in Nat
         /\ IsFiniteSet(V) /\ Cardinality(V) \in Nat
         /\ Cardinality(W) = Cardinality(V) + (IF 1 \in W THEN 1 ELSE 0)
<1> DEFINE V == {i \in 1 .. n - 1 : i + 1 \in W}
           f == [i \in V |-> i + 1]
<1>1. IsFiniteSet(1 .. n) /\ IsFiniteSet(1 .. n - 1)
  <2>1. 1 \in Int /\ n \in Int /\ n - 1 \in Int
    OBVIOUS
  <2> QED
    BY <2>1, FS_Interval
<1>2. IsFiniteSet(W) /\ Cardinality(W) \in Nat
  BY <1>1, FS_Subset, FS_CardinalityType
<1>3. V \in SUBSET (1 .. n - 1)
  OBVIOUS
<1>4. IsFiniteSet(V) /\ Cardinality(V) \in Nat
  BY <1>1, <1>3, FS_Subset, FS_CardinalityType
<1>5. f \in Bijection(V, W \ {1})
  <2>1. f \in [V -> W \ {1}]
    OBVIOUS
  <2>2. \A a, b \in V : f[a] = f[b] => a = b
    OBVIOUS
  <2>3. \A b \in W \ {1} : \E a \in V : f[a] = b
    <3> SUFFICES ASSUME NEW b \in W \ {1} PROVE \E a \in V : f[a] = b
      OBVIOUS
    <3>1. b - 1 \in V
      OBVIOUS
    <3>2. f[b - 1] = b
      BY <3>1
    <3> QED
      BY <3>1, <3>2
  <2> QED
    BY <2>1, <2>2, <2>3, Zenon DEF Bijection, Injection, Surjection, IsInjective
<1> HIDE DEF V, f
<1>6. Cardinality(W \ {1}) = Cardinality(V)
  BY <1>4, <1>5, FS_Bijection, Zenon DEF ExistsBijection
<1>7. Cardinality(W \ {1}) = IF 1 \in W THEN Cardinality(W) - 1 ELSE Cardinality(W)
  BY <1>2, FS_RemoveElement
<1> QED
  BY <1>2, <1>4, <1>6, <1>7 DEF V

LEMMA SealedFinite ==
  ASSUME NEW q \in Seq(Keys), NEW r, NEW c, NEW i
  PROVE  /\ SealedIn(q, r, c) \in SUBSET (1 .. Len(q)) /\ Len(q) \in Nat
         /\ IsFiniteSet(SealedIn(q, r, c)) /\ Cardinality(SealedIn(q, r, c)) \in Nat
         /\ IsFiniteSet(Before(SealedIn(q, r, c), i))
         /\ Cardinality(Before(SealedIn(q, r, c), i)) \in Nat
<1>1. Len(q) \in Nat /\ DOMAIN q = 1 .. Len(q)
  BY LenProperties
<1>2. SealedIn(q, r, c) \in SUBSET (1 .. Len(q))
  BY <1>1, Zenon DEF SealedIn
<1>3. Before(SealedIn(q, r, c), i) \in SUBSET (1 .. Len(q))
  BY <1>2, Zenon DEF Before
<1> QED
  BY <1>1, <1>2, <1>3, ShiftDown

(* Taking the envelope at the head off the drop.                           *)
LEMMA TailInOrder ==
  ASSUME NEW q \in Seq(Keys), q # <<>>, NEW r, NEW c, NEW base \in Nat, InOrder(q, r, c, base)
  PROVE  LET one == IF Head(q).chain = c /\ Head(q).root = r THEN 1 ELSE 0 IN
         /\ InOrder(Tail(q), r, c, base + one)
         /\ Cardinality(SealedIn(q, r, c)) = Cardinality(SealedIn(Tail(q), r, c)) + one
<1> DEFINE n == Len(q)
           t == Tail(q)
           W == SealedIn(q, r, c)
           V == SealedIn(t, r, c)
           one == IF Head(q).chain = c /\ Head(q).root = r THEN 1 ELSE 0
<1>1. n \in Nat /\ n >= 1 /\ DOMAIN q = 1 .. n
  BY LenProperties, EmptySeq
<1>2. /\ t \in Seq(Keys) /\ Len(t) = n - 1 /\ \A i \in 1 .. n - 1 : t[i] = q[i + 1]
      /\ DOMAIN t = 1 .. n - 1
  BY <1>1, HeadTailProperties, LenProperties
<1>3. Head(q) = q[1]
  BY <1>1
<1>4. W \in SUBSET (1 .. n)
  BY <1>1 DEF SealedIn
<1>5. V = {i \in 1 .. n - 1 : i + 1 \in W}
  <2>1. \A i \in 1 .. n - 1 : i + 1 \in 1 .. n
    BY <1>1
  <2> HIDE DEF t, n
  <2> QED
    BY <1>1, <1>2, <2>1, Zenon DEF SealedIn
<1>6. one = IF 1 \in W THEN 1 ELSE 0
  <2>1. 1 \in 1 .. n
    BY <1>1
  <2> QED
    BY <1>1, <1>3, <2>1, Zenon DEF SealedIn
<1> HIDE DEF n, t, W, V, one
<1>7. Cardinality(W) = Cardinality(V) + one
  BY <1>1, <1>4, <1>5, <1>6, ShiftDown
<1>8. ASSUME NEW i \in V PROVE t[i].step = base + one + Cardinality(Before(V, i))
  <2>1. i \in 1 .. n - 1 /\ i + 1 \in W /\ i + 1 \in 1 .. n
    BY <1>1, <1>5
  <2>2. t[i].step = base + Cardinality(Before(W, i + 1))
    BY <1>2, <2>1 DEF InOrder, W
  <2> DEFINE B == Before(W, i + 1)
  <2>3. B \in SUBSET (1 .. n)
    BY <1>4 DEF Before
  <2>4. Before(V, i) = {j \in 1 .. n - 1 : j + 1 \in B}
    <3>1. \A j \in 1 .. n - 1 : j < i <=> j + 1 < i + 1
      BY <1>1, <2>1
    <3> QED
      BY <1>5, <3>1, Zenon DEF Before
  <2>5. 1 \in B <=> 1 \in W
    BY <2>1 DEF Before
  <2> HIDE DEF B
  <2>6. /\ Cardinality(B) = Cardinality(Before(V, i)) + (IF 1 \in B THEN 1 ELSE 0)
        /\ Cardinality(Before(V, i)) \in Nat
    <3>1. LET A == {j \in 1 .. n - 1 : j + 1 \in B} IN
          /\ Cardinality(B) = Cardinality(A) + (IF 1 \in B THEN 1 ELSE 0)
          /\ Cardinality(A) \in Nat
      BY <1>1, <2>3, ShiftDown
    <3> QED
      BY <2>4, <3>1, Zenon
  <2> QED
    BY <1>6, <2>2, <2>5, <2>6 DEF B
<1> QED
  BY <1>7, <1>8, Zenon DEF InOrder, t, W, V, one

(* Storing one envelope more.                                              *)
LEMMA AppendInOrder ==
  ASSUME NEW q \in Seq(Keys), NEW k \in Keys, NEW r, NEW c, NEW base \in Nat,
         InOrder(q, r, c, base),
         k.chain = c /\ k.root = r => k.step = base + Cardinality(SealedIn(q, r, c))
  PROVE  /\ InOrder(Append(q, k), r, c, base)
         /\ Cardinality(SealedIn(Append(q, k), r, c))
              = Cardinality(SealedIn(q, r, c))
                + (IF k.chain = c /\ k.root = r THEN 1 ELSE 0)
<1> DEFINE n == Len(q)
           p == Append(q, k)
           W == SealedIn(q, r, c)
           V == SealedIn(p, r, c)
<1>1. n \in Nat /\ DOMAIN q = 1 .. n
  BY LenProperties
<1>2. /\ p \in Seq(Keys) /\ Len(p) = n + 1 /\ \A i \in 1 .. n : p[i] = q[i]
      /\ p[n + 1] = k
  BY AppendProperties
<1>3. DOMAIN p = 1 .. n + 1
  BY <1>2, LenProperties
<1>4. 1 .. n + 1 = 1 .. n \cup {n + 1} /\ n + 1 \notin 1 .. n
  BY <1>1
<1>5. W \in SUBSET (1 .. n) /\ IsFiniteSet(W) /\ Cardinality(W) \in Nat
  BY SealedFinite
<1> HIDE DEF n, p
<1>6. V = IF k.chain = c /\ k.root = r THEN W \cup {n + 1} ELSE W
  <2>1. CASE k.chain = c /\ k.root = r
    BY <1>1, <1>2, <1>3, <1>4, <2>1, Zenon DEF SealedIn
  <2>2. CASE ~(k.chain = c /\ k.root = r)
    BY <1>1, <1>2, <1>3, <1>4, <2>2, Zenon DEF SealedIn
  <2> QED
    BY <2>1, <2>2, Zenon
<1>7. n + 1 \notin W
  BY <1>4, <1>5
<1> HIDE DEF W, V
<1>8. Cardinality(V) = Cardinality(W) + (IF k.chain = c /\ k.root = r THEN 1 ELSE 0)
  <2>1. CASE k.chain = c /\ k.root = r
    BY <1>5, <1>6, <1>7, <2>1, FS_AddElement
  <2>2. CASE ~(k.chain = c /\ k.root = r)
    BY <1>5, <1>6, <2>2
  <2> QED
    BY <2>1, <2>2
<1>9. ASSUME NEW i \in V PROVE p[i].step = base + Cardinality(Before(V, i))
  <2>1. CASE i \in W
    <3>1. i \in 1 .. n /\ ~(n + 1 < i)
      BY <1>1, <1>5, <2>1
    <3>2. Before(V, i) = Before(W, i)
      BY <1>6, <3>1, Zenon DEF Before
    <3>3. q[i].step = base + Cardinality(Before(W, i))
      BY <2>1, Zenon DEF InOrder, W
    <3> QED
      BY <1>2, <3>1, <3>2, <3>3, Zenon
  <2>2. CASE i \notin W
    <3>1. i = n + 1 /\ k.chain = c /\ k.root = r
      BY <1>6, <2>2, Zenon
    <3>2. \A j \in W : j < i
      BY <1>1, <1>5, <3>1
    <3>3. ~(i < i)
      BY <1>1, <3>1
    <3>4. Before(V, i) = W
      BY <1>6, <3>1, <3>2, <3>3, Zenon DEF Before
    <3> QED
      BY <1>2, <3>1, <3>4, Zenon DEF W
  <2> QED
    BY <2>1, <2>2
<1> QED
  BY <1>8, <1>9, Zenon DEF InOrder, W, V, p

(* The key an end takes is none of those it took.                          *)
LEMMA KeyIsFresh ==
  ASSUME EndsTypes, \A d \in Ends!Ends : TakenOnce(d),
         NEW e \in Ends!Ends, NEW c \in Ends!Chains, Ends!NextKey(e, c), root' = root
  PROVE  /\ chain' \in [Ends!Ends -> [Ends!Chains -> Nat]]
         /\ taken' \in [Ends!Ends -> Seq(Keys)]
         /\ \A d \in Ends!Ends : TakenOnce(d)'
         /\ Ends!Key(e, c) \in Keys
         /\ chain'[e][c] = chain[e][c] + 1
         /\ \A d \in Ends!Ends, b \in Ends!Chains :
              d # e \/ b # c => chain'[d][b] = chain[d][b]
<1> DEFINE k == Ends!Key(e, c)
<1>1. /\ root \in [Ends!Ends -> Nat] /\ chain \in [Ends!Ends -> [Ends!Chains -> Nat]]
      /\ taken \in [Ends!Ends -> Seq(Keys)]
  BY DEF EndsTypes
<1>2. /\ chain' = [chain EXCEPT ![e][c] = chain[e][c] + 1]
      /\ taken' = [taken EXCEPT ![e] = Append(taken[e], k)]
  BY DEF Ends!NextKey, Ends!AdvanceChain
<1>3. k \in Keys /\ k.root = root[e] /\ k.chain = c /\ k.step = chain[e][c]
  BY <1>1 DEF Ends!Key, Keys
<1>4. /\ chain' \in [Ends!Ends -> [Ends!Chains -> Nat]]
      /\ chain'[e][c] = chain[e][c] + 1
      /\ \A d \in Ends!Ends, b \in Ends!Chains :
           d # e \/ b # c => chain'[d][b] = chain[d][b]
  BY <1>1, <1>2
<1> HIDE DEF k
<1>5. /\ taken' \in [Ends!Ends -> Seq(Keys)] /\ taken'[e] = Append(taken[e], k)
      /\ \A d \in Ends!Ends : d # e => taken'[d] = taken[d]
  <2>1. taken[e] \in Seq(Keys)
    BY <1>1
  <2>2. Append(taken[e], k) \in Seq(Keys)
    BY <1>3, <2>1, AppendProperties
  <2> HIDE DEF k
  <2> QED
    BY <1>1, <1>2, <2>2
<1>6. ASSUME NEW d \in Ends!Ends, d # e PROVE TakenOnce(d)'
  <2>1. taken'[d] = taken[d] /\ \A b \in Ends!Chains : chain'[d][b] = chain[d][b]
    BY <1>4, <1>5, <1>6
  <2>2. TakenOnce(d) /\ taken[d] \in Seq(Keys)
    BY <1>1
  <2>3. \A i \in 1 .. Len(taken[d]) : taken[d][i].chain \in Ends!Chains
    <3>1. \A i \in 1 .. Len(taken[d]) : taken[d][i] \in Keys
      BY <2>2, ElementOfSeq
    <3> QED
      BY <3>1 DEF Keys
  <2> QED
    BY <2>1, <2>2, <2>3, Zenon DEF TakenOnce, KeyPassed
<1>7. TakenOnce(e)'
  <2> DEFINE s == taken[e]
             n == Len(s)
             t == taken'[e]
  <2>1. /\ \A i \in 1 .. n : KeyPassed(e, s[i])
        /\ \A i, j \in 1 .. n : i # j => s[i] # s[j]
    BY Zenon DEF TakenOnce
  <2>2. s \in Seq(Keys) /\ n \in Nat
    BY <1>1, LenProperties
  <2>3. /\ Len(t) = n + 1 /\ \A i \in 1 .. n : t[i] = s[i]
        /\ t[n + 1] = k
    BY <1>3, <1>5, <2>2, AppendProperties
  <2>4. \A i \in 1 .. n : s[i] \in Keys
    BY <2>2, ElementOfSeq
  <2> HIDE DEF s, n, t
  <2>5. \A i \in 1 .. n + 1 : i \in 1 .. n \/ i = n + 1
    BY <2>2
  <2>6. ~KeyPassed(e, k)
    <3>1. root[e] \in Nat /\ chain[e][c] \in Nat
      BY <1>1
    <3>2. ~(chain[e][c] < chain[e][c])
      BY <3>1
    <3> QED
      BY <1>3, <3>2, Zenon DEF KeyPassed
  <2>7. \A i \in 1 .. n + 1 :
          /\ t[i].root <= root[e]
          /\ t[i].root = root[e] => t[i].step < chain'[e][t[i].chain]
    <3> SUFFICES ASSUME NEW i \in 1 .. n + 1
                 PROVE  /\ t[i].root <= root[e]
                        /\ t[i].root = root[e] => t[i].step < chain'[e][t[i].chain]
      OBVIOUS
    <3>1. CASE i \in 1 .. n
      <4>1. /\ t[i].root <= root[e] /\ t[i] \in Keys
            /\ t[i].root = root[e] => t[i].step < chain[e][t[i].chain]
        BY <2>1, <2>3, <2>4, <3>1, Zenon DEF KeyPassed
      <4>2. t[i].chain \in Ends!Chains /\ t[i].step \in Nat
        BY <4>1 DEF Keys
      <4>3. chain[e][t[i].chain] \in Nat /\ chain[e][c] \in Nat
        BY <1>1, <4>2
      <4>4. CASE t[i].chain = c
        BY <1>4, <4>1, <4>2, <4>3, <4>4
      <4>5. CASE t[i].chain # c
        BY <1>4, <4>1, <4>2, <4>5, Zenon
      <4> QED
        BY <4>4, <4>5
    <3>2. CASE i = n + 1
      <4>1. root[e] \in Nat /\ chain[e][c] \in Nat
        BY <1>1
      <4>2. root[e] <= root[e] /\ chain[e][c] < chain'[e][c]
        BY <1>4, <4>1
      <4> QED
        BY <1>3, <2>3, <3>2, <4>2, Zenon
    <3> QED
      BY <2>5, <3>1, <3>2
  <2>8. \A i, j \in 1 .. n + 1 : i # j => t[i] # t[j]
    BY <2>1, <2>3, <2>5, <2>6, Zenon
  <2> QED
    BY <2>3, <2>7, <2>8, Zenon DEF TakenOnce, KeyPassed, t
<1> QED
  BY <1>3, <1>4, <1>5, <1>6, <1>7 DEF k

LEMMA SealKeeps == ASSUME EndsInv, NEW c \in Ends!Chains, Ends!Seal(c) PROVE EndsInv'
<1> DEFINE k == Ends!Key("alice", c)
<1>1. /\ Ends!NextKey("alice", c) /\ drop' = Append(drop, k)
      /\ root' = root /\ crossed' = crossed
  BY Zenon DEF Ends!Seal
<1>2. EndsTypes /\ (\A d \in Ends!Ends : TakenOnce(d))
      /\ \A r \in Nat, b \in Ends!Chains : KeysLineUp(r, b)
  BY Zenon DEF EndsInv
<1>3. "alice" \in Ends!Ends /\ "bob" \in Ends!Ends /\ "alice" # "bob"
  BY DEF Ends!Ends
<1>4. /\ chain' \in [Ends!Ends -> [Ends!Chains -> Nat]]
      /\ taken' \in [Ends!Ends -> Seq(Keys)]
      /\ \A d \in Ends!Ends : TakenOnce(d)'
      /\ k \in Keys
      /\ chain'["alice"][c] = chain["alice"][c] + 1
      /\ \A d \in Ends!Ends, b \in Ends!Chains :
           d # "alice" \/ b # c => chain'[d][b] = chain[d][b]
  BY <1>1, <1>2, <1>3, KeyIsFresh
<1>5. /\ root \in [Ends!Ends -> Nat] /\ chain \in [Ends!Ends -> [Ends!Chains -> Nat]]
      /\ drop \in Seq(Keys)
  BY <1>2 DEF EndsTypes
<1>6. k.root = root["alice"] /\ k.chain = c /\ k.step = chain["alice"][c]
  BY DEF Ends!Key
<1> HIDE DEF k
<1>7. drop' \in Seq(Keys)
  BY <1>1, <1>4, <1>5, AppendProperties
<1>8. EndsTypes'
  BY <1>1, <1>4, <1>5, <1>7, Zenon DEF EndsTypes
<1>9. ASSUME NEW r \in Nat, NEW b \in Ends!Chains PROVE KeysLineUp(r, b)'
  <2> SUFFICES ASSUME r >= root["bob"], <<r, b>> \notin crossed
               PROVE  /\ InOrder(drop', r, b, Used(r, b)')
                      /\ r >= root["alice"] =>
                           Made(r, b)' = Used(r, b)' + Cardinality(SealedIn(drop', r, b))
    BY <1>1, Zenon DEF KeysLineUp
  <2>1. /\ InOrder(drop, r, b, Used(r, b))
        /\ r >= root["alice"] => Made(r, b) = Used(r, b) + Cardinality(SealedIn(drop, r, b))
    BY <1>2, Zenon DEF KeysLineUp
  <2>2. Used(r, b)' = Used(r, b)
    BY <1>1, <1>3, <1>4, Zenon DEF Used
  <2>3. Used(r, b) \in Nat
    BY <1>3, <1>5 DEF Used
  <2>4. k.chain = b /\ k.root = r
          => k.step = Used(r, b) + Cardinality(SealedIn(drop, r, b))
    <3>1. root["alice"] \in Nat /\ root["alice"] >= root["alice"]
      BY <1>3, <1>5
    <3> QED
      BY <1>6, <2>1, <3>1, Zenon DEF Made
  <2>5. /\ InOrder(drop', r, b, Used(r, b))
        /\ Cardinality(SealedIn(drop', r, b))
             = Cardinality(SealedIn(drop, r, b)) + (IF k.chain = b /\ k.root = r THEN 1 ELSE 0)
    BY <1>1, <1>4, <1>5, <2>1, <2>3, <2>4, AppendInOrder, SMTT(30)
  <2>6. Made(r, b)' = Made(r, b) + (IF k.chain = b /\ k.root = r THEN 1 ELSE 0)
    <3>1. CASE k.chain = b /\ k.root = r
      BY <1>1, <1>4, <1>6, <3>1 DEF Made
    <3>2. CASE k.chain # b /\ k.root = r
      <4>1. Made(r, b)' = Made(r, b) /\ Made(r, b) \in Nat
        BY <1>1, <1>3, <1>4, <1>5, <1>6, <3>2 DEF Made
      <4> QED
        BY <3>2, <4>1
    <3>3. CASE k.root # r
      BY <1>1, <1>6, <3>3 DEF Made
    <3> QED
      BY <3>1, <3>2, <3>3
  <2>7. Cardinality(SealedIn(drop, r, b)) \in Nat
    BY <1>5, SealedFinite
  <2>8. r >= root["alice"] =>
          Made(r, b)' = Used(r, b)' + Cardinality(SealedIn(drop', r, b))
    BY <2>1, <2>2, <2>3, <2>5, <2>6, <2>7
  <2> QED
    BY <2>2, <2>5, <2>8, Zenon
<1> QED
  BY <1>4, <1>8, <1>9, Zenon DEF EndsInv

LEMMA OpenKeeps == ASSUME EndsInv, Ends!Open PROVE EndsInv'
<1> DEFINE sealed == Head(drop)
           c == sealed.chain
<1>1. /\ drop # <<>> /\ drop' = Tail(drop) /\ root' = root
      /\ Ends!NextKey("bob", c)
      /\ crossed' = crossed \cup (IF sealed.root = root["bob"] THEN {}
                                  ELSE {<<sealed.root, c>>, <<root["bob"], c>>})
  BY Zenon DEF Ends!Open
<1>2. EndsTypes /\ (\A d \in Ends!Ends : TakenOnce(d))
      /\ \A r \in Nat, b \in Ends!Chains : KeysLineUp(r, b)
  BY Zenon DEF EndsInv
<1>3. "alice" \in Ends!Ends /\ "bob" \in Ends!Ends /\ "alice" # "bob"
  BY DEF Ends!Ends
<1>4. /\ root \in [Ends!Ends -> Nat] /\ chain \in [Ends!Ends -> [Ends!Chains -> Nat]]
      /\ drop \in Seq(Keys)
  BY <1>2 DEF EndsTypes
<1>5. sealed \in Keys /\ drop' \in Seq(Keys)
  BY <1>1, <1>4, HeadTailProperties
<1>6. c \in Ends!Chains
  BY <1>5 DEF Keys
<1> HIDE DEF sealed
<1>7. /\ chain' \in [Ends!Ends -> [Ends!Chains -> Nat]]
      /\ taken' \in [Ends!Ends -> Seq(Keys)]
      /\ \A d \in Ends!Ends : TakenOnce(d)'
      /\ chain'["bob"][c] = chain["bob"][c] + 1
      /\ \A d \in Ends!Ends, b \in Ends!Chains :
           d # "bob" \/ b # c => chain'[d][b] = chain[d][b]
  BY <1>1, <1>2, <1>3, <1>6, KeyIsFresh
<1>8. EndsTypes'
  BY <1>1, <1>4, <1>5, <1>7, Zenon DEF EndsTypes
<1>9. ASSUME NEW r \in Nat, NEW b \in Ends!Chains PROVE KeysLineUp(r, b)'
  <2> SUFFICES ASSUME r >= root["bob"], <<r, b>> \notin crossed'
               PROVE  /\ InOrder(drop', r, b, Used(r, b)')
                      /\ r >= root["alice"] =>
                           Made(r, b)' = Used(r, b)' + Cardinality(SealedIn(drop', r, b))
    BY <1>1, Zenon DEF KeysLineUp
  <2> DEFINE one == IF sealed.chain = b /\ sealed.root = r THEN 1 ELSE 0
  <2>1. <<r, b>> \notin crossed
    BY <1>1, Zenon
  <2>2. /\ InOrder(drop, r, b, Used(r, b))
        /\ r >= root["alice"] => Made(r, b) = Used(r, b) + Cardinality(SealedIn(drop, r, b))
    BY <1>2, <2>1, Zenon DEF KeysLineUp
  <2>3. Used(r, b) \in Nat
    BY <1>3, <1>4 DEF Used
  <2>4. /\ InOrder(drop', r, b, Used(r, b) + one)
        /\ Cardinality(SealedIn(drop, r, b)) = Cardinality(SealedIn(drop', r, b)) + one
    BY <1>1, <1>4, <2>2, <2>3, TailInOrder, ZenonT(40) DEF sealed
  <2>5. Used(r, b)' = Used(r, b) + one
    <3>1. CASE c = b /\ sealed.root = r
      <4>1. r = root["bob"]
        BY <1>1, <3>1, Zenon
      <4> QED
        BY <1>1, <1>7, <3>1, <4>1 DEF Used
    <3>2. CASE c = b /\ sealed.root # r
      <4>1. r # root["bob"]
        BY <1>1, <3>2, Zenon
      <4> QED
        BY <1>1, <3>2, <4>1 DEF Used
    <3>3. CASE c # b
      <4>1. Used(r, b)' = Used(r, b)
        BY <1>1, <1>3, <1>7, <3>3, Zenon DEF Used
      <4> QED
        BY <2>3, <3>3, <4>1
    <3> QED
      BY <3>1, <3>2, <3>3
  <2>6. Made(r, b)' = Made(r, b)
    BY <1>1, <1>3, <1>7, Zenon DEF Made
  <2>7. Cardinality(SealedIn(drop', r, b)) \in Nat /\ one \in Nat
    BY <1>5, SealedFinite
  <2> HIDE DEF one
  <2>8. r >= root["alice"] =>
          Made(r, b)' = Used(r, b)' + Cardinality(SealedIn(drop', r, b))
    BY <2>2, <2>3, <2>4, <2>5, <2>6, <2>7
  <2> QED
    BY <2>4, <2>5, <2>8, Zenon
<1> QED
  BY <1>7, <1>8, <1>9, Zenon DEF EndsInv

LEMMA TurnKeeps == ASSUME EndsInv, NEW e \in Ends!Ends, Ends!DhRatchet(e) PROVE EndsInv'
<1>1. /\ root' = [root EXCEPT ![e] = root[e] + 1]
      /\ chain' = [chain EXCEPT ![e] = [c \in Ends!Chains |-> 0]]
      /\ drop' = drop /\ taken' = taken /\ crossed' = crossed
  BY Zenon DEF Ends!DhRatchet, Ends!DeriveChains
<1>2. EndsTypes /\ (\A d \in Ends!Ends : TakenOnce(d))
      /\ \A r \in Nat, b \in Ends!Chains : KeysLineUp(r, b)
  BY Zenon DEF EndsInv
<1>3. /\ root \in [Ends!Ends -> Nat] /\ chain \in [Ends!Ends -> [Ends!Chains -> Nat]]
      /\ taken \in [Ends!Ends -> Seq(Keys)] /\ drop \in Seq(Keys)
  BY <1>2 DEF EndsTypes
<1>4. /\ root' \in [Ends!Ends -> Nat] /\ root'[e] = root[e] + 1
      /\ \A d \in Ends!Ends : d # e => root'[d] = root[d] /\ chain'[d] = chain[d]
      /\ chain' \in [Ends!Ends -> [Ends!Chains -> Nat]]
      /\ \A c \in Ends!Chains : chain'[e][c] = 0
  BY <1>1, <1>3
<1>5. EndsTypes'
  BY <1>1, <1>3, <1>4, Zenon DEF EndsTypes
<1>6. ASSUME NEW d \in Ends!Ends PROVE TakenOnce(d)'
  <2>1. /\ \A i \in 1 .. Len(taken[d]) : KeyPassed(d, taken[d][i])
        /\ \A i, j \in 1 .. Len(taken[d]) : i # j => taken[d][i] # taken[d][j]
    BY <1>2, Zenon DEF TakenOnce
  <2>2. ASSUME NEW i \in 1 .. Len(taken[d]) PROVE KeyPassed(d, taken[d][i])'
    <3> DEFINE k == taken[d][i]
    <3>1. KeyPassed(d, k)
      BY <2>1
    <3>2. k.root \in Nat /\ root[d] \in Nat
      <4>1. taken[d] \in Seq(Keys)
        BY <1>3
      <4>2. k \in Keys
        BY <4>1, ElementOfSeq
      <4> QED
        BY <1>3, <4>2 DEF Keys
    <3> HIDE DEF k
    <3>3. CASE d = e
      <4>1. k.root <= root'[d] /\ k.root # root'[d]
        BY <1>4, <3>1, <3>2, <3>3 DEF KeyPassed
      <4> QED
        BY <1>1, <4>1, Zenon DEF KeyPassed, k
    <3>4. CASE d # e
      BY <1>1, <1>4, <3>1, <3>4, Zenon DEF KeyPassed, k
    <3> QED
      BY <3>3, <3>4
  <2> QED
    BY <1>1, <2>1, <2>2, Zenon DEF TakenOnce
<1>7. ASSUME NEW r \in Nat, NEW b \in Ends!Chains PROVE KeysLineUp(r, b)'
  <2> SUFFICES ASSUME r >= root'["bob"], <<r, b>> \notin crossed
               PROVE  /\ InOrder(drop, r, b, Used(r, b)')
                      /\ r >= root'["alice"] =>
                           Made(r, b)' = Used(r, b)' + Cardinality(SealedIn(drop, r, b))
    BY <1>1, Zenon DEF KeysLineUp
  <2>1. "alice" \in Ends!Ends /\ "bob" \in Ends!Ends /\ "alice" # "bob"
    BY DEF Ends!Ends
  <2>2. /\ root["bob"] \in Nat /\ root["alice"] \in Nat
        /\ root["bob"] <= root'["bob"] /\ root["alice"] <= root'["alice"]
        /\ root'["bob"] \in Nat /\ root'["alice"] \in Nat
    <3>1. \A d \in Ends!Ends : root[d] \in Nat /\ root'[d] \in Nat
      BY <1>3, <1>4
    <3>2. ASSUME NEW d \in Ends!Ends PROVE root[d] <= root'[d]
      <4>1. root'[d] = root[d] \/ root'[d] = root[d] + 1
        BY <1>4, Zenon
      <4> QED
        BY <3>1, <4>1
    <3> QED
      BY <2>1, <3>1, <3>2
  <2>3. r >= root["bob"] /\ (r >= root'["alice"] => r >= root["alice"])
    BY <2>2
  <2>4. /\ InOrder(drop, r, b, Used(r, b))
        /\ r >= root["alice"] => Made(r, b) = Used(r, b) + Cardinality(SealedIn(drop, r, b))
    BY <1>2, <2>3, Zenon DEF KeysLineUp
  <2>5. Used(r, b)' = Used(r, b)
    <3>1. CASE e = "bob"
      <4>1. r # root["bob"] /\ (r = root'["bob"] => chain'["bob"][b] = 0)
        BY <1>3, <1>4, <2>2, <3>1
      <4> QED
        BY <4>1, Zenon DEF Used
    <3>2. CASE e # "bob"
      BY <1>4, <2>1, <3>2, Zenon DEF Used
    <3> QED
      BY <3>1, <3>2
  <2>6. r >= root'["alice"] => Made(r, b)' = Made(r, b)
    <3>1. CASE e = "alice"
      <4>1. r >= root'["alice"] => r # root["alice"]
        BY <1>4, <2>2, <3>1
      <4>2. r = root'["alice"] => chain'["alice"][b] = 0
        BY <1>4, <3>1
      <4> QED
        BY <4>1, <4>2, Zenon DEF Made
    <3>2. CASE e # "alice"
      BY <1>4, <2>1, <3>2, Zenon DEF Made
    <3> QED
      BY <3>1, <3>2
  <2> QED
    BY <2>3, <2>4, <2>5, <2>6, Zenon
<1> QED
  BY <1>5, <1>6, <1>7, Zenon DEF EndsInv

LEMMA EndsStep == EndsInv /\ [Ends!Next]_(Ends!ratchetVars) => EndsInv'
<1> SUFFICES ASSUME EndsInv, [Ends!Next]_(Ends!ratchetVars) PROVE EndsInv'
  OBVIOUS
<1>1. CASE UNCHANGED Ends!ratchetVars
  BY <1>1, Zenon DEF Ends!ratchetVars, EndsInv, EndsTypes, TakenOnce, KeyPassed,
                     KeysLineUp, Used, Made
<1>2. ASSUME NEW c \in Ends!Chains, Ends!Seal(c) PROVE EndsInv'
  BY <1>2, SealKeeps
<1>3. CASE Ends!Open
  BY <1>3, OpenKeeps
<1>4. ASSUME NEW e \in Ends!Ends, Ends!DhRatchet(e) PROVE EndsInv'
  BY <1>4, TurnKeeps
<1> QED
  BY <1>1, <1>2, <1>3, <1>4, Zenon DEF Ends!Next

LEMMA EndsInvariant == Ends!Spec => []EndsInv
<1>1. Ends!Init => EndsInv
  <2> SUFFICES ASSUME Ends!Init PROVE EndsInv
    OBVIOUS
  <2>1. /\ root = [e \in Ends!Ends |-> 0]
        /\ chain = [e \in Ends!Ends |-> [c \in Ends!Chains |-> 0]]
        /\ drop = <<>> /\ taken = [e \in Ends!Ends |-> <<>>]
    BY Zenon DEF Ends!Init
  <2>2. EndsTypes
    BY <2>1 DEF EndsTypes
  <2>3. \A e \in Ends!Ends : TakenOnce(e)
    BY <2>1 DEF TakenOnce
  <2>4. ASSUME NEW r \in Nat, NEW c \in Ends!Chains PROVE KeysLineUp(r, c)
    <3>1. SealedIn(drop, r, c) = {}
      BY <2>1 DEF SealedIn
    <3>2. Cardinality(SealedIn(drop, r, c)) = 0
      BY <3>1, FS_EmptySet
    <3>3. Used(r, c) = 0 /\ Made(r, c) = 0
      BY <2>1 DEF Used, Made, Ends!Ends
    <3>4. InOrder(drop, r, c, Used(r, c))
      BY <3>1, Zenon DEF InOrder
    <3> QED
      BY <3>2, <3>3, <3>4 DEF KeysLineUp
  <2> QED
    BY <2>2, <2>3, <2>4, Zenon DEF EndsInv
<1> QED
  BY <1>1, EndsStep, PTL DEF Ends!Spec

(* No end of a conversation takes a key twice, and an envelope that waits  *)
(* under the receiver's root opens with the key the receiver will then     *)
(* take, unless a turn of the root crossed its chain: for every number of  *)
(* keys and turns (titan_ratchet lib.rs 67-96, chain.rs 22-41).            *)
THEOREM KeysOfTheEndsMeet == Ends!Spec => []Ends!KeysMeet
<1>1. EndsInv => Ends!KeysMeet
  <2> SUFFICES ASSUME EndsInv PROVE Ends!KeysMeet
    OBVIOUS
  <2>1. ASSUME NEW e \in Ends!Ends, NEW i \in 1 .. Len(taken[e]), NEW j \in 1 .. Len(taken[e]),
               i # j
        PROVE  taken[e][i] # taken[e][j]
    BY <2>1, Zenon DEF EndsInv, TakenOnce
  <2>2. ASSUME NEW c \in Ends!Chains, <<root["bob"], c>> \notin crossed,
               NEW i \in Ends!Waiting(c)
        PROVE  drop[i].step = chain["bob"][c]
                              + Ends!Cardinality({j \in Ends!Waiting(c) : j < i})
    <3>1. root["bob"] \in Nat /\ root["bob"] >= root["bob"]
      BY DEF EndsInv, EndsTypes, Ends!Ends
    <3>2. InOrder(drop, root["bob"], c, chain["bob"][c])
      <4>1. KeysLineUp(root["bob"], c)
        BY <3>1, Zenon DEF EndsInv
      <4> QED
        BY <2>2, <3>1, <4>1, Zenon DEF KeysLineUp, Used
    <3>3. Ends!Waiting(c) = SealedIn(drop, root["bob"], c)
      BY Zenon DEF Ends!Waiting, SealedIn
    <3>4. {j \in Ends!Waiting(c) : j < i} = Before(SealedIn(drop, root["bob"], c), i)
      BY <3>3, Zenon DEF Before
    <3>5. Ends!Cardinality({j \in Ends!Waiting(c) : j < i})
            = Cardinality(Before(SealedIn(drop, root["bob"], c), i))
      BY <3>4, SameCount, Zenon
    <3> QED
      BY <2>2, <3>2, <3>3, <3>5, Zenon DEF InOrder
  <2> QED
    BY <2>1, <2>2, Zenon DEF Ends!KeysMeet
<1> QED
  BY <1>1, EndsInvariant, PTL

-----------------------------------------------------------------------------

(* A dead drop and the navigators of its two sides.  As long as the sender *)
(* has not restarted, what was sent is standing, picked up or expired, and *)
(* a pick-up moved the receiver's counter or was forgotten.                *)
Slot == [addr : Nat, msg : Nat, created : Nat]

DropTypes ==
  /\ drop_now \in Nat /\ s_out \in Nat /\ n_in \in Nat /\ expired \in Nat /\ forgotten \in Nat
  /\ slots \in SUBSET Slot /\ IsFiniteSet(slots)
  /\ dropped \in Seq(Nat) /\ got \in Seq(Nat) /\ crashes \in [Drops!Sides -> Nat]
  /\ \A side \in DOMAIN compass : compass[side] \in Nat
  /\ "receiver" \in DOMAIN compass => compass["receiver"] <= n_in

EachOnce ==
  /\ \A s, t \in slots : s.addr = t.addr \/ s.msg = t.msg => s = t
  /\ \A s \in slots : s.msg <= Len(dropped)
  /\ \A i \in 1 .. Len(got) : got[i] <= Len(dropped) /\ \A s \in slots : got[i] # s.msg
  /\ \A i, j \in 1 .. Len(got) : i # j => got[i] # got[j]

InTurn ==
  crashes["sender"] = 0 =>
    /\ s_out = Len(dropped)
    /\ n_in + forgotten + expired + Cardinality(slots) = s_out
    /\ \A s \in slots : s.msg = s.addr + 1 /\ n_in <= s.addr /\ s.addr < s_out
    /\ \A i \in 1 .. Len(got), s \in slots : got[i] < s.msg
    /\ \A i, j \in 1 .. Len(got) : i < j => got[i] < got[j]

DropInv == DropTypes /\ EachOnce /\ InTurn

LEMMA DropSizes ==
  CheckpointPeriod \in Nat \ {0} /\ max_lookahead \in Nat /\ TTL \in Nat
BY ServicesSizes DEF Drops!DropConstants

LEMMA DropFacts ==
  ASSUME DropInv
  PROVE  /\ DropTypes /\ EachOnce /\ InTurn
         /\ Cardinality(slots) \in Nat /\ Len(dropped) \in Nat /\ Len(got) \in Nat
         /\ \A s \in slots : s.addr \in Nat /\ s.msg \in Nat /\ s.created \in Nat
         /\ \A i \in 1 .. Len(got) : got[i] \in Nat
<1>1. DropTypes /\ EachOnce /\ InTurn
  BY Zenon DEF DropInv
<1>2. IsFiniteSet(slots) /\ dropped \in Seq(Nat) /\ got \in Seq(Nat) /\ slots \in SUBSET Slot
  BY <1>1, Zenon DEF DropTypes
<1>3. Cardinality(slots) \in Nat /\ Len(dropped) \in Nat /\ Len(got) \in Nat
  BY <1>2, FS_CardinalityType, LenProperties
<1>4. \A s \in slots : s.addr \in Nat /\ s.msg \in Nat /\ s.created \in Nat
  BY <1>2 DEF Slot
<1>5. \A i \in 1 .. Len(got) : got[i] \in Nat
  BY <1>2, ElementOfSeq
<1> QED
  BY <1>1, <1>3, <1>4, <1>5

(* What the key store holds after a side has counted one message more.     *)
LEMMA CheckpointKeeps ==
  ASSUME DropTypes, NEW side \in Drops!Sides, NEW n \in Nat,
         NEW m \in Nat, n_in <= m, side = "receiver" => n <= m,
         compass' = Drops!Checkpoint(side, n)
  PROVE  /\ \A x \in DOMAIN compass' : compass'[x] \in Nat
         /\ "receiver" \in DOMAIN compass' => compass'["receiver"] <= m
<1>1. /\ \A x \in DOMAIN compass : compass[x] \in Nat
      /\ "receiver" \in DOMAIN compass => compass["receiver"] <= n_in
      /\ n_in \in Nat
  BY Zenon DEF DropTypes
<1>2. \/ compass' = compass
      \/ compass' = [x \in DOMAIN compass \cup {side} |-> IF x = side THEN n ELSE compass[x]]
  BY Zenon DEF Drops!Checkpoint
<1>3. ASSUME NEW x \in DOMAIN compass'
      PROVE  \/ compass'[x] = n /\ x = side
             \/ x \in DOMAIN compass /\ compass'[x] = compass[x]
  <2>1. CASE compass' = compass
    BY <2>1
  <2>2. CASE compass' = [y \in DOMAIN compass \cup {side} |->
                           IF y = side THEN n ELSE compass[y]]
    <3>1. x \in DOMAIN compass \cup {side}
          /\ compass'[x] = IF x = side THEN n ELSE compass[x]
      BY <2>2
    <3> QED
      BY <3>1, Zenon
  <2> QED
    BY <1>2, <2>1, <2>2
<1>4. \A x \in DOMAIN compass' : compass'[x] \in Nat
  BY <1>1, <1>3, Zenon
<1>5. ASSUME "receiver" \in DOMAIN compass' PROVE compass'["receiver"] <= m
  <2>1. CASE compass'["receiver"] = n /\ side = "receiver"
    BY <2>1
  <2>2. CASE "receiver" \in DOMAIN compass /\ compass'["receiver"] = compass["receiver"]
    BY <1>1, <2>2
  <2> QED
    BY <1>3, <1>5, <2>1, <2>2, Zenon
<1> QED
  BY <1>4, <1>5

LEMMA DropSend == ASSUME DropInv, Drops!Send PROVE DropInv'
<1> DEFINE m == Len(dropped) + 1
           new == [addr |-> s_out, msg |-> m, created |-> drop_now]
           rest == {s \in slots : s.addr # s_out}
<1>1. /\ slots' = rest \cup {new} /\ dropped' = Append(dropped, s_out) /\ s_out' = s_out + 1
      /\ compass' = Drops!Checkpoint("sender", s_out + 1)
      /\ drop_now' = drop_now /\ n_in' = n_in /\ got' = got /\ expired' = expired
      /\ forgotten' = forgotten /\ crashes' = crashes
  BY DEF Drops!Send, Drops!StoreAt
<1>2. /\ DropTypes /\ EachOnce /\ InTurn
      /\ Cardinality(slots) \in Nat /\ Len(dropped) \in Nat
      /\ \A s \in slots : s.addr \in Nat /\ s.msg \in Nat
      /\ \A i \in 1 .. Len(got) : got[i] \in Nat
  BY DropFacts
<1>3. /\ drop_now \in Nat /\ s_out \in Nat /\ n_in \in Nat /\ slots \in SUBSET Slot
      /\ IsFiniteSet(slots) /\ dropped \in Seq(Nat) /\ expired \in Nat /\ forgotten \in Nat
      /\ "sender" \in Drops!Sides
  BY <1>2 DEF DropTypes, Drops!Sides
<1>4. /\ new \in Slot /\ new.addr = s_out /\ new.msg = m
  BY <1>2, <1>3 DEF Slot
<1>5. m \in Nat /\ m = Len(dropped) + 1
  BY <1>2
<1> HIDE DEF m, new
<1>6. dropped' \in Seq(Nat) /\ Len(dropped') = m
  BY <1>1, <1>3, <1>5, AppendProperties
<1>7. rest \subseteq slots /\ IsFiniteSet(rest) /\ \A s \in rest : s.addr # s_out
  BY <1>3, FS_Subset
<1>8. IsFiniteSet(rest \cup {new})
  BY <1>7, FS_AddElement
<1> HIDE DEF rest
<1>9. slots' \in SUBSET Slot /\ IsFiniteSet(slots')
  BY <1>1, <1>3, <1>4, <1>7, <1>8, Zenon
<1>10. /\ \A x \in DOMAIN compass' : compass'[x] \in Nat
       /\ "receiver" \in DOMAIN compass' => compass'["receiver"] <= n_in
  <2>1. s_out + 1 \in Nat /\ n_in <= n_in /\ "sender" # "receiver"
    BY <1>3
  <2> QED
    BY <1>1, <1>2, <1>3, <2>1, CheckpointKeeps, Zenon
<1>11. DropTypes'
  <2>1. s_out' \in Nat
    BY <1>1, <1>3
  <2> QED
    BY <1>1, <1>2, <1>6, <1>9, <1>10, <2>1, Zenon DEF DropTypes
<1>12. \A s \in slots : s.msg # m /\ s.msg <= m
  BY <1>2, <1>5 DEF EachOnce
<1>13. \A i \in 1 .. Len(got) : got[i] < m /\ got[i] <= m /\ got[i] # m
  BY <1>2, <1>5 DEF EachOnce
<1>14. EachOnce'
  <2>1. \A s, t \in slots' : s.addr = t.addr \/ s.msg = t.msg => s = t
    BY <1>1, <1>2, <1>4, <1>7, <1>12, Zenon DEF EachOnce
  <2>2. m <= m
    BY <1>5
  <2>3. \A s \in slots' : s.msg <= Len(dropped')
    BY <1>1, <1>4, <1>6, <1>7, <1>12, <2>2, Zenon
  <2>4. \A i \in 1 .. Len(got') :
          got'[i] <= Len(dropped') /\ \A s \in slots' : got'[i] # s.msg
    BY <1>1, <1>2, <1>4, <1>6, <1>7, <1>13, Zenon DEF EachOnce
  <2>5. \A i, j \in 1 .. Len(got') : i # j => got'[i] # got'[j]
    BY <1>1, <1>2, Zenon DEF EachOnce
  <2> QED
    BY <2>1, <2>3, <2>4, <2>5, Zenon DEF EachOnce
<1>15. InTurn'
  <2> SUFFICES ASSUME crashes["sender"] = 0
               PROVE  /\ s_out' = Len(dropped')
                      /\ n_in' + forgotten' + expired' + Cardinality(slots') = s_out'
                      /\ \A s \in slots' : s.msg = s.addr + 1 /\ n_in' <= s.addr /\ s.addr < s_out'
                      /\ \A i \in 1 .. Len(got'), s \in slots' : got'[i] < s.msg
                      /\ \A i, j \in 1 .. Len(got') : i < j => got'[i] < got'[j]
    BY <1>1, Zenon DEF InTurn
  <2>1. /\ s_out = Len(dropped)
        /\ n_in + forgotten + expired + Cardinality(slots) = s_out
        /\ \A s \in slots : s.msg = s.addr + 1 /\ n_in <= s.addr /\ s.addr < s_out
        /\ \A i \in 1 .. Len(got), s \in slots : got[i] < s.msg
        /\ \A i, j \in 1 .. Len(got) : i < j => got[i] < got[j]
    BY <1>2, Zenon DEF InTurn
  <2>2. rest = slots
    <3>1. \A s \in slots : s.addr # s_out
      BY <1>2, <1>3, <2>1
    <3> QED
      BY <3>1 DEF rest
  <2>3. new \notin slots
    BY <1>4, <1>12, Zenon
  <2>4. Cardinality(slots') = Cardinality(slots) + 1
    BY <1>1, <1>3, <2>2, <2>3, FS_AddElement
  <2>5. m = s_out + 1 /\ n_in <= s_out /\ s_out < s_out + 1
    BY <1>2, <1>3, <1>5, <2>1
  <2>6. n_in' + forgotten' + expired' + Cardinality(slots') = s_out'
    BY <1>1, <1>2, <1>3, <2>1, <2>4
  <2>7. \A s \in slots : s.addr < s_out + 1
    BY <1>2, <1>3, <2>1
  <2>8. \A s \in slots' : s.msg = s.addr + 1 /\ n_in' <= s.addr /\ s.addr < s_out'
    BY <1>1, <1>4, <2>1, <2>2, <2>5, <2>7, Zenon
  <2>9. \A i \in 1 .. Len(got'), s \in slots' : got'[i] < s.msg
    BY <1>1, <1>4, <1>13, <2>1, <2>2, Zenon
  <2> QED
    BY <1>1, <1>6, <2>1, <2>5, <2>6, <2>8, <2>9, Zenon
<1> QED
  BY <1>11, <1>14, <1>15, Zenon DEF DropInv

LEMMA DropPickUp == ASSUME DropInv, Drops!PickUp PROVE DropInv'
<1>1. PICK s \in Drops!Swept :
        /\ \A t \in Drops!Swept : s.addr <= t.addr
        /\ slots' = Drops!Retrieve(s.addr)
        /\ got' = Append(got, s.msg)
        /\ n_in' = n_in + 1
        /\ compass' = Drops!Checkpoint("receiver", n_in + 1)
        /\ drop_now' = drop_now /\ s_out' = s_out /\ dropped' = dropped /\ expired' = expired
        /\ forgotten' = forgotten /\ crashes' = crashes
  BY Zenon DEF Drops!PickUp
<1>2. /\ DropTypes /\ EachOnce /\ InTurn
      /\ Cardinality(slots) \in Nat /\ Len(dropped) \in Nat /\ Len(got) \in Nat
      /\ \A t \in slots : t.addr \in Nat /\ t.msg \in Nat
      /\ \A i \in 1 .. Len(got) : got[i] \in Nat
  BY DropFacts
<1>3. /\ drop_now \in Nat /\ s_out \in Nat /\ n_in \in Nat /\ slots \in SUBSET Slot
      /\ IsFiniteSet(slots) /\ got \in Seq(Nat) /\ expired \in Nat /\ forgotten \in Nat
      /\ "receiver" \in Drops!Sides
  BY <1>2 DEF DropTypes, Drops!Sides
<1>4. s \in slots /\ s.addr \in n_in .. n_in + max_lookahead - 1
  BY <1>1, Zenon DEF Drops!Swept
<1>5. slots' = slots \ {s}
  BY <1>1, <1>2, <1>4, Zenon DEF Drops!Retrieve, EachOnce
<1>6. IsFiniteSet(slots') /\ Cardinality(slots') = Cardinality(slots) - 1
  BY <1>3, <1>4, <1>5, FS_RemoveElement
<1>7. /\ got' \in Seq(Nat) /\ Len(got') = Len(got) + 1
      /\ \A i \in 1 .. Len(got) : got'[i] = got[i]
      /\ got'[Len(got) + 1] = s.msg
  BY <1>1, <1>2, <1>3, <1>4, AppendProperties
<1>8. \A i \in 1 .. Len(got) + 1 : i \in 1 .. Len(got) \/ i = Len(got) + 1
  BY <1>2
<1>9. DropTypes'
  <2>1. n_in' \in Nat /\ n_in <= n_in' /\ n_in + 1 <= n_in' /\ n_in + 1 \in Nat
    BY <1>1, <1>3
  <2>2. /\ \A x \in DOMAIN compass' : compass'[x] \in Nat
        /\ "receiver" \in DOMAIN compass' => compass'["receiver"] <= n_in'
    BY <1>1, <1>2, <1>3, <2>1, CheckpointKeeps
  <2>3. slots' \in SUBSET Slot
    BY <1>3, <1>5, Zenon
  <2> QED
    BY <1>1, <1>2, <1>6, <1>7, <2>1, <2>2, <2>3, Zenon DEF DropTypes
<1>10. EachOnce'
  <2>1. \A t \in slots' : t \in slots /\ t.msg # s.msg
    BY <1>2, <1>4, <1>5, Zenon DEF EachOnce
  <2>2. \A i \in 1 .. Len(got') :
          got'[i] <= Len(dropped') /\ \A t \in slots' : got'[i] # t.msg
    <3> SUFFICES ASSUME NEW i \in 1 .. Len(got')
                 PROVE  got'[i] <= Len(dropped') /\ \A t \in slots' : got'[i] # t.msg
      OBVIOUS
    <3>1. CASE i \in 1 .. Len(got)
      BY <1>1, <1>2, <1>7, <2>1, <3>1, Zenon DEF EachOnce
    <3>2. CASE i = Len(got) + 1
      BY <1>1, <1>2, <1>4, <1>7, <2>1, <3>2, Zenon DEF EachOnce
    <3> QED
      BY <1>7, <1>8, <3>1, <3>2, Zenon
  <2>3. \A i, j \in 1 .. Len(got') : i # j => got'[i] # got'[j]
    BY <1>2, <1>4, <1>7, <1>8, Zenon DEF EachOnce
  <2> QED
    BY <1>1, <1>2, <2>1, <2>2, <2>3, Zenon DEF EachOnce
<1>11. InTurn'
  <2> SUFFICES ASSUME crashes["sender"] = 0
               PROVE  /\ s_out' = Len(dropped')
                      /\ n_in' + forgotten' + expired' + Cardinality(slots') = s_out'
                      /\ \A t \in slots' : t.msg = t.addr + 1 /\ n_in' <= t.addr /\ t.addr < s_out'
                      /\ \A i \in 1 .. Len(got'), t \in slots' : got'[i] < t.msg
                      /\ \A i, j \in 1 .. Len(got') : i < j => got'[i] < got'[j]
    BY <1>1, Zenon DEF InTurn
  <2>1. /\ s_out = Len(dropped)
        /\ n_in + forgotten + expired + Cardinality(slots) = s_out
        /\ \A t \in slots : t.msg = t.addr + 1 /\ n_in <= t.addr /\ t.addr < s_out
        /\ \A i \in 1 .. Len(got), t \in slots : got[i] < t.msg
        /\ \A i, j \in 1 .. Len(got) : i < j => got[i] < got[j]
    BY <1>2, Zenon DEF InTurn
  <2>2. ASSUME NEW t \in slots' PROVE t \in slots /\ s.addr < t.addr
    <3>1. t \in slots /\ t.addr # s.addr
      BY <1>2, <1>4, <1>5, Zenon DEF EachOnce
    <3>2. CASE t \in Drops!Swept
      BY <1>1, <1>2, <1>4, <3>1, <3>2
    <3>3. CASE t \notin Drops!Swept
      <4>1. t.addr \notin n_in .. n_in + max_lookahead - 1
        BY <3>1, <3>3, Zenon DEF Drops!Swept
      <4> QED
        BY <1>2, <1>3, <1>4, <2>1, <3>1, <4>1, DropSizes
    <3> QED
      BY <3>2, <3>3
  <2>3. ASSUME NEW t \in slots'
        PROVE  t.msg = t.addr + 1 /\ n_in' <= t.addr /\ t.addr < s_out' /\ s.msg < t.msg
    BY <1>1, <1>2, <1>3, <1>4, <2>1, <2>2, <2>3
  <2>4. n_in' + forgotten' + expired' + Cardinality(slots') = s_out'
    BY <1>1, <1>2, <1>3, <1>6, <2>1
  <2>5. \A i \in 1 .. Len(got'), t \in slots' : got'[i] < t.msg
    BY <1>7, <1>8, <2>1, <2>2, <2>3, Zenon
  <2>6. ASSUME NEW i \in 1 .. Len(got'), NEW j \in 1 .. Len(got'), i < j
        PROVE  got'[i] < got'[j]
    <3>1. i \in 1 .. Len(got)
      BY <1>2, <1>7, <2>6
    <3> QED
      BY <1>4, <1>7, <1>8, <2>1, <2>6, <3>1, Zenon
  <2> QED
    BY <1>1, <2>1, <2>3, <2>4, <2>5, <2>6, Zenon
<1> QED
  BY <1>9, <1>10, <1>11, Zenon DEF DropInv

LEMMA DropExpire == ASSUME DropInv, Drops!ExpireOld PROVE DropInv'
<1> DEFINE old == {s \in slots : Drops!Old(s)}
<1>1. /\ slots' = {s \in slots : ~Drops!Old(s)} /\ expired' = expired + Cardinality(old)
      /\ drop_now' = drop_now /\ s_out' = s_out /\ n_in' = n_in /\ compass' = compass
      /\ dropped' = dropped /\ got' = got /\ forgotten' = forgotten /\ crashes' = crashes
  BY SameCount, Zenon DEF Drops!ExpireOld
<1>2. /\ DropTypes /\ EachOnce /\ InTurn /\ Cardinality(slots) \in Nat
  BY DropFacts
<1>3. IsFiniteSet(slots) /\ slots \in SUBSET Slot /\ expired \in Nat /\ forgotten \in Nat
      /\ n_in \in Nat /\ s_out \in Nat
  BY <1>2 DEF DropTypes
<1>4. /\ slots' \subseteq slots /\ old \subseteq slots /\ slots = slots' \cup old
      /\ slots' \cap old = {}
  BY <1>1
<1> HIDE DEF old
<1>5. /\ IsFiniteSet(slots') /\ IsFiniteSet(old)
      /\ Cardinality(slots') \in Nat /\ Cardinality(old) \in Nat
  BY <1>3, <1>4, FS_Subset, FS_CardinalityType
<1>6. Cardinality(slots) = Cardinality(slots') + Cardinality(old)
  <2>1. Cardinality(slots' \cup old)
          = Cardinality(slots') + Cardinality(old) - Cardinality(slots' \cap old)
    BY <1>5, FS_Union
  <2>2. Cardinality(slots' \cap old) = 0
    BY <1>4, FS_EmptySet
  <2> QED
    BY <1>4, <1>5, <2>1, <2>2
<1>7. DropTypes'
  <2>1. expired' \in Nat /\ slots' \in SUBSET Slot
    BY <1>1, <1>3, <1>4, <1>5
  <2> QED
    BY <1>1, <1>2, <1>5, <2>1, Zenon DEF DropTypes
<1>8. EachOnce'
  BY <1>1, <1>2, <1>4, Zenon DEF EachOnce
<1>9. InTurn'
  <2>1. n_in' + forgotten' + expired' + Cardinality(slots')
          = n_in + forgotten + expired + Cardinality(slots)
    BY <1>1, <1>3, <1>5, <1>6
  <2> QED
    BY <1>1, <1>2, <1>4, <2>1, Zenon DEF InTurn
<1> QED
  BY <1>7, <1>8, <1>9, Zenon DEF DropInv

LEMMA DropCrash ==
  ASSUME DropInv, NEW side \in Drops!Sides, Drops!Crash(side) PROVE DropInv'
<1> DEFINE back == Drops!FromCheckpoint(side)
<1>1. /\ crashes' = [crashes EXCEPT ![side] = crashes[side] + 1]
      /\ \/ side = "sender" /\ s_out' = back /\ n_in' = n_in /\ forgotten' = forgotten
         \/ side = "receiver" /\ n_in' = back /\ forgotten' = forgotten + (n_in - back)
            /\ s_out' = s_out
      /\ drop_now' = drop_now /\ slots' = slots /\ compass' = compass
      /\ dropped' = dropped /\ got' = got /\ expired' = expired
  BY Zenon DEF Drops!Crash, Drops!Sides
<1>2. /\ DropTypes /\ EachOnce /\ InTurn /\ Cardinality(slots) \in Nat
      /\ \A s \in slots : s.addr \in Nat
  BY DropFacts
<1>3. /\ crashes \in [Drops!Sides -> Nat] /\ n_in \in Nat /\ forgotten \in Nat
      /\ expired \in Nat /\ s_out \in Nat
      /\ \A x \in DOMAIN compass : compass[x] \in Nat
      /\ "receiver" \in DOMAIN compass => compass["receiver"] <= n_in
      /\ "sender" \in Drops!Sides /\ "receiver" \in Drops!Sides
  BY <1>2 DEF DropTypes, Drops!Sides
<1>4. back \in Nat /\ (side = "receiver" => back <= n_in)
      /\ ("receiver" \in DOMAIN compass /\ side = "receiver" => compass["receiver"] <= back)
  <2>1. CASE side \in DOMAIN compass
    <3>1. back = compass[side]
      BY <2>1, Zenon DEF Drops!FromCheckpoint
    <3>2. back \in Nat
      BY <1>3, <2>1, <3>1
    <3> QED
      BY <1>3, <2>1, <3>1, <3>2
  <2>2. CASE side \notin DOMAIN compass
    <3>1. back = 0
      BY <2>2, Zenon DEF Drops!FromCheckpoint
    <3> QED
      BY <1>3, <2>2, <3>1
  <2> QED
    BY <2>1, <2>2
<1> HIDE DEF back
<1>5. crashes' \in [Drops!Sides -> Nat] /\ crashes'[side] = crashes[side] + 1
      /\ \A x \in Drops!Sides : x # side => crashes'[x] = crashes[x]
  BY <1>1, <1>3
<1>6. CASE side = "sender"
  <2>1. s_out' = back /\ n_in' = n_in /\ forgotten' = forgotten
    BY <1>1, <1>6, Zenon
  <2>2. crashes'["sender"] # 0
    BY <1>3, <1>5, <1>6
  <2>3. DropTypes'
    BY <1>1, <1>2, <1>4, <1>5, <2>1, Zenon DEF DropTypes
  <2>4. EachOnce'
    BY <1>1, <1>2, Zenon DEF EachOnce
  <2> QED
    BY <2>2, <2>3, <2>4, Zenon DEF DropInv, InTurn
<1>7. CASE side = "receiver"
  <2>1. n_in' = back /\ forgotten' = forgotten + (n_in - back) /\ s_out' = s_out
    BY <1>1, <1>7, Zenon
  <2>2. /\ forgotten' \in Nat /\ n_in' <= n_in /\ n_in' \in Nat
        /\ n_in' + forgotten' + expired + Cardinality(slots)
             = n_in + forgotten + expired + Cardinality(slots)
    BY <1>2, <1>3, <1>4, <1>7, <2>1
  <2>3. crashes'["sender"] = crashes["sender"]
    BY <1>3, <1>5, <1>7
  <2>4. DropTypes'
    BY <1>1, <1>2, <1>4, <1>5, <1>7, <2>1, <2>2, Zenon DEF DropTypes
  <2>5. EachOnce'
    BY <1>1, <1>2, Zenon DEF EachOnce
  <2>6. \A s \in slots : n_in <= s.addr => n_in' <= s.addr
    BY <1>2, <1>3, <2>2
  <2>7. InTurn'
    BY <1>1, <1>2, <2>1, <2>2, <2>3, <2>6, Zenon DEF InTurn
  <2> QED
    BY <2>4, <2>5, <2>7, Zenon DEF DropInv
<1> QED
  BY <1>6, <1>7 DEF Drops!Sides

LEMMA DropStep == DropInv /\ [Drops!Next]_(Drops!dropVars) => DropInv'
<1> SUFFICES ASSUME DropInv, [Drops!Next]_(Drops!dropVars) PROVE DropInv'
  OBVIOUS
<1>1. CASE UNCHANGED Drops!dropVars
  BY <1>1, Zenon DEF Drops!dropVars, DropInv, DropTypes, EachOnce, InTurn
<1>2. CASE Drops!Tick
  <2>1. /\ drop_now' = drop_now + 1 /\ slots' = slots /\ s_out' = s_out /\ n_in' = n_in
        /\ compass' = compass /\ dropped' = dropped /\ got' = got /\ expired' = expired
        /\ forgotten' = forgotten /\ crashes' = crashes
    BY <1>2, Zenon DEF Drops!Tick
  <2>2. drop_now' \in Nat
    BY <2>1 DEF DropInv, DropTypes
  <2> QED
    BY <2>1, <2>2, Zenon DEF DropInv, DropTypes, EachOnce, InTurn
<1> QED
  BY <1>1, <1>2, DropSend, DropPickUp, DropExpire, DropCrash, Zenon DEF Drops!Next

(* Standing envelopes at coordinates of their own need as much room.       *)
LEMMA RoomForSlots ==
  ASSUME DropTypes, NEW a \in Nat, NEW b \in Nat, a <= b,
         \A s, t \in slots : s.addr = t.addr => s = t,
         \A s \in slots : a <= s.addr /\ s.addr < b
  PROVE  Cardinality(slots) <= b - a
<1> DEFINE f == [s \in slots |-> s.addr]
           T == a .. b - 1
<1>1. slots \in SUBSET Slot
  BY DEF DropTypes
<1>2. f \in [slots -> T]
  BY <1>1 DEF Slot
<1>3. f \in Injection(slots, T)
  <2>1. \A s, t \in slots : f[s] = f[t] => s = t
    BY <1>2
  <2> QED
    BY <1>2, <2>1, Zenon DEF Injection, IsInjective
<1>4. IsFiniteSet(T) /\ Cardinality(T) = b - a
  <2>1. /\ IsFiniteSet(a .. b - 1)
        /\ Cardinality(a .. b - 1) = IF a > b - 1 THEN 0 ELSE (b - 1) - a + 1
    BY FS_Interval
  <2> QED
    BY <2>1
<1> HIDE DEF f, T
<1> QED
  BY <1>3, <1>4, FS_Injection

LEMMA DropInvariant == Drops!Spec => []DropInv
<1>1. Drops!Init => DropInv
  <2> SUFFICES ASSUME Drops!Init PROVE DropInv
    OBVIOUS
  <2>1. /\ drop_now = 0 /\ slots = {} /\ s_out = 0 /\ n_in = 0 /\ compass = [side \in {} |-> 0]
        /\ dropped = <<>> /\ got = <<>> /\ expired = 0 /\ forgotten = 0
        /\ crashes = [side \in Drops!Sides |-> 0]
    BY Zenon DEF Drops!Init
  <2>2. IsFiniteSet(slots) /\ Cardinality(slots) = 0
    BY <2>1, FS_EmptySet
  <2>3. DropTypes
    BY <2>1, <2>2 DEF DropTypes
  <2>4. EachOnce
    BY <2>1 DEF EachOnce
  <2>5. InTurn
    BY <2>1, <2>2 DEF InTurn
  <2> QED
    BY <2>3, <2>4, <2>5, Zenon DEF DropInv
<1> QED
  BY <1>1, DropStep, PTL DEF Drops!Spec

(* No message is picked up twice, whatever restarts; and as long as the    *)
(* sender has not restarted they come in order, and a sweep longer than    *)
(* the envelopes expired and the pick-ups forgotten together finds the     *)
(* next: for every period of the checkpoints, every look-ahead, every time *)
(* to live (dead_drop 64-105, navigator 29-82).                            *)
THEOREM SweepMissesNothing == Drops!Spec => []Drops!SweepFindsAll
<1>1. DropInv => Drops!SweepFindsAll
  <2> SUFFICES ASSUME DropInv PROVE Drops!SweepFindsAll
    OBVIOUS
  <2>1. /\ DropTypes /\ EachOnce /\ InTurn
        /\ Cardinality(slots) \in Nat
        /\ \A s \in slots : s.addr \in Nat /\ s.msg \in Nat
    BY DropFacts
  <2>2. n_in \in Nat /\ expired \in Nat /\ forgotten \in Nat /\ s_out \in Nat
    BY <2>1 DEF DropTypes
  <2>3. ASSUME crashes["sender"] = 0, slots # {}
        PROVE  LET first == Drops!Min({s.addr : s \in slots}) IN
               /\ first <= n_in + expired + forgotten
               /\ expired + forgotten < max_lookahead => Drops!Swept # {}
    <3> DEFINE A == {s.addr : s \in slots}
               first == Drops!Min(A)
    <3>1. A \in SUBSET Nat /\ A # {}
      BY <2>1, <2>3
    <3>2. first \in A /\ \A x \in A : first <= x
      BY <3>1, LeastNumber
    <3>3. PICK s \in slots : first = s.addr
      BY <3>2
    <3>4. \A t \in slots : first <= t.addr
      BY <3>2
    <3>5. first \in Nat
      BY <2>1, <3>3
    <3> HIDE DEF first
    <3>6. /\ n_in + forgotten + expired + Cardinality(slots) = s_out
          /\ \A t \in slots : n_in <= t.addr /\ t.addr < s_out
      BY <2>1, <2>3, Zenon DEF InTurn
    <3>7. first <= s_out /\ n_in <= first
      BY <2>2, <3>3, <3>5, <3>6
    <3>8. Cardinality(slots) <= s_out - first
      BY <2>1, <2>2, <3>4, <3>5, <3>6, <3>7, RoomForSlots DEF EachOnce
    <3>9. first <= n_in + expired + forgotten
      BY <2>1, <2>2, <3>5, <3>6, <3>8
    <3>10. ASSUME expired + forgotten < max_lookahead PROVE Drops!Swept # {}
      <4>1. first \in n_in .. n_in + max_lookahead - 1
        BY <2>2, <3>5, <3>7, <3>9, <3>10, DropSizes
      <4> QED
        BY <3>3, <4>1, Zenon DEF Drops!Swept
    <3> QED
      BY <3>9, <3>10 DEF first
  <2>4. \A i, j \in 1 .. Len(got) : i # j => got[i] # got[j]
    BY <2>1, Zenon DEF EachOnce
  <2>5. crashes["sender"] = 0 => \A i, j \in 1 .. Len(got) : i < j => got[i] < got[j]
    BY <2>1, Zenon DEF InTurn
  <2> QED
    BY <2>3, <2>4, <2>5, Zenon DEF Drops!SweepFindsAll
<1> QED
  BY <1>1, DropInvariant, PTL

-----------------------------------------------------------------------------

(* The bounds of the counters, for the types.                              *)
DropBound ==
  /\ drop_now \in 0 .. MaxDropTime
  /\ s_out <= Len(dropped) /\ Len(dropped) <= MaxDrops
  /\ n_in <= Len(got) /\ Len(got) <= 2 * MaxDrops
  /\ slots \subseteq
       [addr : 0 .. MaxDrops - 1, msg : 1 .. MaxDrops, created : 0 .. MaxDropTime]
  /\ \A side \in DOMAIN compass :
       side \in Drops!Sides /\ compass[side] \in 1 .. 2 * MaxDrops
  /\ "sender" \in DOMAIN compass => compass["sender"] <= Len(dropped)

LEMMA DropBoundStep ==
  DropInv /\ DropInv' /\ DropBound /\ [Drops!Next]_(Drops!dropVars) => DropBound'
<1> SUFFICES ASSUME DropInv, DropInv', DropBound, [Drops!Next]_(Drops!dropVars)
             PROVE  DropBound'
  OBVIOUS
<1>1. /\ drop_now \in Nat /\ s_out \in Nat /\ n_in \in Nat
      /\ dropped \in Seq(Nat) /\ got \in Seq(Nat)
      /\ n_in' \in Nat /\ s_out' \in Nat
      /\ \A side \in DOMAIN compass : compass[side] \in Nat
      /\ "receiver" \in DOMAIN compass => compass["receiver"] <= n_in
  BY DEF DropInv, DropTypes
<1>2. /\ Len(dropped) \in Nat /\ Len(got) \in Nat
      /\ \A s \in slots : s.addr \in Nat /\ s.msg \in Nat
  BY DropFacts
<1>3. MaxDrops \in Nat /\ MaxDropTime \in Nat /\ CheckpointPeriod \in Nat \ {0}
  BY ServicesSizes DEF Drops!DropConstants
<1>4. "sender" \in Drops!Sides /\ "receiver" \in Drops!Sides /\ "sender" # "receiver"
  BY DEF Drops!Sides
<1> DEFINE Standing == [addr : 0 .. MaxDrops - 1, msg : 1 .. MaxDrops,
                        created : 0 .. MaxDropTime]
<1>5. ASSUME NEW side \in Drops!Sides, NEW n \in 1 .. 2 * MaxDrops,
             compass' = Drops!Checkpoint(side, n), NEW m \in Nat, Len(dropped) <= m,
             side = "sender" => n <= m
      PROVE  /\ \A x \in DOMAIN compass' :
                  x \in Drops!Sides /\ compass'[x] \in 1 .. 2 * MaxDrops
             /\ "sender" \in DOMAIN compass' => compass'["sender"] <= m
  <2>1. \/ compass' = compass
        \/ compass' = [x \in DOMAIN compass \cup {side} |-> IF x = side THEN n ELSE compass[x]]
    BY <1>5, Zenon DEF Drops!Checkpoint
  <2>2. ASSUME NEW x \in DOMAIN compass'
        PROVE  \/ compass'[x] = n /\ x = side
               \/ x \in DOMAIN compass /\ compass'[x] = compass[x]
    <3>1. CASE compass' = compass
      BY <3>1
    <3>2. CASE compass' = [y \in DOMAIN compass \cup {side} |->
                             IF y = side THEN n ELSE compass[y]]
      <4>1. x \in DOMAIN compass \cup {side}
            /\ compass'[x] = IF x = side THEN n ELSE compass[x]
        BY <3>2
      <4> QED
        BY <4>1, Zenon
    <3> QED
      BY <2>1, <3>1, <3>2
  <2>3. \A x \in DOMAIN compass' : x \in Drops!Sides /\ compass'[x] \in 1 .. 2 * MaxDrops
    BY <2>2, Zenon DEF DropBound
  <2>4. ASSUME "sender" \in DOMAIN compass' PROVE compass'["sender"] <= m
    <3>1. CASE compass'["sender"] = n /\ "sender" = side
      BY <1>5, <3>1
    <3>2. CASE "sender" \in DOMAIN compass /\ compass'["sender"] = compass["sender"]
      <4>1. compass["sender"] \in Nat /\ compass["sender"] <= Len(dropped)
        BY <1>1, <3>2 DEF DropBound
      <4> QED
        BY <1>2, <1>5, <3>2, <4>1
    <3> QED
      BY <2>2, <2>4, <3>1, <3>2
  <2> QED
    BY <2>3, <2>4
<1>6. CASE Drops!Send
  <2> DEFINE new == [addr |-> s_out, msg |-> Len(dropped) + 1, created |-> drop_now]
  <2>1. /\ Len(dropped) < MaxDrops
        /\ slots' \subseteq slots \cup {new} /\ dropped' = Append(dropped, s_out)
        /\ s_out' = s_out + 1 /\ compass' = Drops!Checkpoint("sender", s_out + 1)
        /\ drop_now' = drop_now /\ n_in' = n_in /\ got' = got
    BY <1>6 DEF Drops!Send, Drops!StoreAt
  <2>2. Len(dropped') = Len(dropped) + 1 /\ Len(dropped') \in Nat
    BY <1>1, <1>2, <2>1, AppendProperties
  <2>3. /\ s_out + 1 \in 1 .. 2 * MaxDrops /\ s_out + 1 <= Len(dropped')
        /\ Len(dropped) <= Len(dropped')
    BY <1>1, <1>2, <1>3, <2>1, <2>2 DEF DropBound
  <2>4. /\ \A x \in DOMAIN compass' :
             x \in Drops!Sides /\ compass'[x] \in 1 .. 2 * MaxDrops
        /\ "sender" \in DOMAIN compass' => compass'["sender"] <= Len(dropped')
    BY <1>4, <1>5, <2>1, <2>2, <2>3
  <2>5. new \in Standing
    BY <1>1, <1>2, <1>3, <2>1 DEF DropBound
  <2>6. slots' \subseteq Standing
    <3> HIDE DEF new
    <3> QED
      BY <2>1, <2>5 DEF DropBound
  <2>7. s_out' <= Len(dropped') /\ Len(dropped') <= MaxDrops
    BY <1>1, <1>2, <1>3, <2>1, <2>2 DEF DropBound
  <2> QED
    BY <2>1, <2>4, <2>6, <2>7, Zenon DEF DropBound
<1>7. CASE Drops!PickUp
  <2>1. PICK s \in Drops!Swept :
          /\ slots' \subseteq slots /\ got' = Append(got, s.msg)
          /\ n_in' = n_in + 1 /\ compass' = Drops!Checkpoint("receiver", n_in + 1)
          /\ drop_now' = drop_now /\ s_out' = s_out /\ dropped' = dropped
          /\ Len(got) < 2 * MaxDrops
    BY <1>7, Zenon DEF Drops!PickUp, Drops!Retrieve
  <2>2. s.msg \in Nat
    BY <1>2 DEF Drops!Swept
  <2>3. Len(got') = Len(got) + 1
    BY <1>1, <2>1, <2>2, AppendProperties
  <2>4. /\ n_in' <= Len(got') /\ Len(got') <= 2 * MaxDrops
        /\ n_in + 1 \in 1 .. 2 * MaxDrops /\ Len(dropped) <= Len(dropped)
    BY <1>1, <1>2, <1>3, <2>1, <2>3 DEF DropBound
  <2>5. /\ \A x \in DOMAIN compass' :
             x \in Drops!Sides /\ compass'[x] \in 1 .. 2 * MaxDrops
        /\ "sender" \in DOMAIN compass' => compass'["sender"] <= Len(dropped)
    BY <1>2, <1>4, <1>5, <2>1, <2>4
  <2> QED
    BY <2>1, <2>4, <2>5, Zenon DEF DropBound
<1>8. CASE Drops!ExpireOld
  <2>1. /\ slots' \subseteq slots /\ drop_now' = drop_now /\ s_out' = s_out /\ n_in' = n_in
        /\ compass' = compass /\ dropped' = dropped /\ got' = got
    BY <1>8, Zenon DEF Drops!ExpireOld
  <2> QED
    BY <2>1, Zenon DEF DropBound
<1>9. CASE Drops!Tick
  <2>1. /\ drop_now' = drop_now + 1 /\ drop_now < MaxDropTime /\ slots' = slots
        /\ s_out' = s_out /\ n_in' = n_in /\ compass' = compass /\ dropped' = dropped
        /\ got' = got
    BY <1>9, Zenon DEF Drops!Tick
  <2>2. drop_now' \in 0 .. MaxDropTime
    BY <1>1, <1>3, <2>1
  <2> QED
    BY <2>1, <2>2, Zenon DEF DropBound
<1>10. ASSUME NEW side \in Drops!Sides, Drops!Crash(side) PROVE DropBound'
  <2> DEFINE back == Drops!FromCheckpoint(side)
  <2>1. /\ \/ side = "sender" /\ s_out' = back /\ n_in' = n_in
           \/ side = "receiver" /\ n_in' = back /\ s_out' = s_out
        /\ drop_now' = drop_now /\ slots' = slots /\ compass' = compass
        /\ dropped' = dropped /\ got' = got
    BY <1>10, Zenon DEF Drops!Crash, Drops!Sides
  <2>2. /\ side = "sender" => back <= Len(dropped)
        /\ side = "receiver" => back <= Len(got)
    <3>1. CASE side \in DOMAIN compass
      <4>1. back = compass[side] /\ compass[side] \in Nat
        BY <1>1, <3>1, Zenon DEF Drops!FromCheckpoint
      <4>2. side = "sender" => compass[side] <= Len(dropped)
        BY <3>1, Zenon DEF DropBound
      <4>3. side = "receiver" => compass[side] <= n_in
        BY <1>1, <3>1, Zenon
      <4>4. n_in <= Len(got)
        BY Zenon DEF DropBound
      <4> HIDE DEF back
      <4> QED
        BY <1>1, <1>2, <4>1, <4>2, <4>3, <4>4
    <3>2. CASE side \notin DOMAIN compass
      <4>1. back = 0
        BY <3>2, Zenon DEF Drops!FromCheckpoint
      <4> QED
        BY <1>2, <4>1
    <3> QED
      BY <3>1, <3>2
  <2> HIDE DEF back
  <2> QED
    BY <2>1, <2>2, Zenon DEF DropBound
<1>11. CASE UNCHANGED Drops!dropVars
  BY <1>11, Zenon DEF Drops!dropVars, DropBound
<1> QED
  BY <1>6, <1>7, <1>8, <1>9, <1>10, <1>11, Zenon DEF Drops!Next

LEMMA DropTyped == Drops!Spec => []Drops!TypeOK
<1>1. Drops!Init => DropBound
  <2> SUFFICES ASSUME Drops!Init PROVE DropBound
    OBVIOUS
  <2>1. /\ drop_now = 0 /\ slots = {} /\ s_out = 0 /\ n_in = 0 /\ compass = [side \in {} |-> 0]
        /\ dropped = <<>> /\ got = <<>>
    BY Zenon DEF Drops!Init
  <2>2. MaxDrops \in Nat /\ MaxDropTime \in Nat
    BY ServicesSizes DEF Drops!DropConstants
  <2> QED
    BY <2>1, <2>2 DEF DropBound
<1>2. DropInv /\ DropBound => Drops!TypeOK
  <2> SUFFICES ASSUME DropInv, DropBound PROVE Drops!TypeOK
    OBVIOUS
  <2>1. s_out \in Nat /\ n_in \in Nat
    BY DEF DropInv, DropTypes
  <2>2. Len(dropped) \in Nat /\ Len(got) \in Nat
    BY DropFacts
  <2>3. MaxDrops \in Nat
    BY ServicesSizes DEF Drops!DropConstants
  <2>4. s_out \in 0 .. MaxDrops /\ n_in \in 0 .. 2 * MaxDrops
    BY <2>1, <2>2, <2>3 DEF DropBound
  <2> QED
    BY <2>4, Zenon DEF DropBound, Drops!TypeOK
<1> QED
  BY <1>1, <1>2, DropInvariant, DropBoundStep, PTL DEF Drops!Spec

Bounded == [root : 0 .. MaxTurns, chain : Ends!Chains, step : Nat]

EndsBound ==
  /\ root \in [Ends!Ends -> 0 .. MaxTurns]
  /\ chain \in [Ends!Ends -> [Ends!Chains -> Nat]]
  /\ count \in [Ends!Ends -> [Ends!Chains -> Nat]]
  /\ \A e \in Ends!Ends :
       /\ Len(taken[e]) <= MaxKeys
       /\ \A c \in Ends!Chains : chain[e][c] <= Len(taken[e]) /\ count[e][c] <= Len(taken[e])
  /\ drop \in Seq(Bounded)
  /\ crossed \subseteq (0 .. MaxTurns) \X Ends!Chains

LEMMA NextKeyBound ==
  ASSUME EndsBound, NEW e \in Ends!Ends, NEW c \in Ends!Chains, Ends!NextKey(e, c),
         taken[e] \in Seq(Keys), taken \in [Ends!Ends -> Seq(Keys)]
  PROVE  /\ chain' \in [Ends!Ends -> [Ends!Chains -> Nat]]
         /\ count' \in [Ends!Ends -> [Ends!Chains -> Nat]]
         /\ \A d \in Ends!Ends :
              /\ Len(taken'[d]) <= MaxKeys
              /\ \A b \in Ends!Chains :
                   chain'[d][b] <= Len(taken'[d]) /\ count'[d][b] <= Len(taken'[d])
<1> DEFINE k == Ends!Key(e, c)
<1>1. /\ chain' = [chain EXCEPT ![e][c] = chain[e][c] + 1]
      /\ count' = [count EXCEPT ![e][c] = count[e][c] + 1]
      /\ taken' = [taken EXCEPT ![e] = Append(taken[e], k)]
      /\ Len(taken[e]) < MaxKeys
  BY DEF Ends!NextKey, Ends!AdvanceChain
<1>2. chain \in [Ends!Ends -> [Ends!Chains -> Nat]]
      /\ count \in [Ends!Ends -> [Ends!Chains -> Nat]]
      /\ root \in [Ends!Ends -> Nat] /\ MaxKeys \in Nat
  BY ServicesSizes DEF EndsBound, Ends!EndsConstants
<1>3. /\ chain' \in [Ends!Ends -> [Ends!Chains -> Nat]] /\ chain'[e][c] = chain[e][c] + 1
      /\ \A d \in Ends!Ends, b \in Ends!Chains :
           d # e \/ b # c => chain'[d][b] = chain[d][b]
  BY <1>1, <1>2
<1>4. /\ count' \in [Ends!Ends -> [Ends!Chains -> Nat]] /\ count'[e][c] = count[e][c] + 1
      /\ \A d \in Ends!Ends, b \in Ends!Chains :
           d # e \/ b # c => count'[d][b] = count[d][b]
  BY <1>1, <1>2
<1>5. k \in Keys
  BY <1>2 DEF Ends!Key, Keys
<1> HIDE DEF k
<1>6. /\ taken'[e] = Append(taken[e], k)
      /\ \A d \in Ends!Ends : d # e => taken'[d] = taken[d]
  BY <1>1
<1>7. Len(taken'[e]) = Len(taken[e]) + 1 /\ Len(taken[e]) \in Nat
  BY <1>5, <1>6, AppendProperties, LenProperties
<1>8. ASSUME NEW d \in Ends!Ends
      PROVE  /\ Len(taken'[d]) <= MaxKeys
             /\ \A b \in Ends!Chains :
                  chain'[d][b] <= Len(taken'[d]) /\ count'[d][b] <= Len(taken'[d])
  <2>1. /\ Len(taken[d]) <= MaxKeys
        /\ \A b \in Ends!Chains : chain[d][b] <= Len(taken[d]) /\ count[d][b] <= Len(taken[d])
    BY Zenon DEF EndsBound
  <2>2. CASE d # e
    BY <1>3, <1>4, <1>6, <2>1, <2>2, Zenon
  <2>3. CASE d = e
    <3>1. Len(taken'[e]) <= MaxKeys
      BY <1>1, <1>2, <1>7
    <3>2. ASSUME NEW b \in Ends!Chains
          PROVE  chain'[e][b] <= Len(taken'[e]) /\ count'[e][b] <= Len(taken'[e])
      <4>1. /\ chain[e][b] \in Nat /\ count[e][b] \in Nat
            /\ chain[e][b] <= Len(taken[e]) /\ count[e][b] <= Len(taken[e])
        BY <1>2, <2>1, <2>3
      <4>2. /\ chain'[e][b] = chain[e][b] \/ chain'[e][b] = chain[e][b] + 1
            /\ count'[e][b] = count[e][b] \/ count'[e][b] = count[e][b] + 1
        BY <1>3, <1>4, Zenon
      <4> QED
        BY <1>7, <4>1, <4>2
    <3> QED
      BY <2>3, <3>1, <3>2
  <2> QED
    BY <2>2, <2>3
<1> QED
  BY <1>3, <1>4, <1>8

LEMMA EndsBoundStep ==
  EndsInv /\ EndsBound /\ [Ends!Next]_(Ends!ratchetVars) => EndsBound'
<1> SUFFICES ASSUME EndsInv, EndsBound, [Ends!Next]_(Ends!ratchetVars) PROVE EndsBound'
  OBVIOUS
<1>1. /\ taken \in [Ends!Ends -> Seq(Keys)] /\ \A e \in Ends!Ends : taken[e] \in Seq(Keys)
      /\ root \in [Ends!Ends -> 0 .. MaxTurns] /\ drop \in Seq(Bounded)
      /\ chain \in [Ends!Ends -> [Ends!Chains -> Nat]]
      /\ "alice" \in Ends!Ends /\ "bob" \in Ends!Ends /\ MaxTurns \in Nat
  BY ServicesSizes DEF EndsInv, EndsTypes, EndsBound, Ends!Ends, Ends!EndsConstants
<1>2. ASSUME NEW c \in Ends!Chains, Ends!Seal(c) PROVE EndsBound'
  <2>1. /\ Ends!NextKey("alice", c) /\ drop' = Append(drop, Ends!Key("alice", c))
        /\ root' = root /\ crossed' = crossed
    BY <1>2, Zenon DEF Ends!Seal
  <2>2. Ends!Key("alice", c) \in Bounded
    BY <1>1 DEF Ends!Key, Bounded
  <2>3. drop' \in Seq(Bounded)
    BY <1>1, <2>1, <2>2, AppendProperties
  <2> QED
    BY <1>1, <2>1, <2>3, NextKeyBound, Zenon DEF EndsBound
<1>3. CASE Ends!Open
  <2> DEFINE sealed == Head(drop)
  <2>1. /\ drop # <<>> /\ drop' = Tail(drop) /\ root' = root
        /\ Ends!NextKey("bob", sealed.chain)
        /\ crossed' \subseteq crossed \cup {<<sealed.root, sealed.chain>>,
                                            <<root["bob"], sealed.chain>>}
    BY <1>3, Zenon DEF Ends!Open
  <2>2. sealed \in Bounded /\ drop' \in Seq(Bounded)
    BY <1>1, <2>1, HeadTailProperties
  <2> HIDE DEF sealed
  <2>3. sealed.chain \in Ends!Chains /\ sealed.root \in 0 .. MaxTurns
        /\ root["bob"] \in 0 .. MaxTurns
    BY <1>1, <2>2 DEF Bounded
  <2>4. crossed' \subseteq (0 .. MaxTurns) \X Ends!Chains
    BY <2>1, <2>3 DEF EndsBound
  <2> QED
    BY <1>1, <2>1, <2>2, <2>3, <2>4, NextKeyBound, Zenon DEF EndsBound
<1>4. ASSUME NEW e \in Ends!Ends, Ends!DhRatchet(e) PROVE EndsBound'
  <2>1. /\ root[e] < MaxTurns /\ root' = [root EXCEPT ![e] = root[e] + 1]
        /\ chain' = [chain EXCEPT ![e] = [c \in Ends!Chains |-> 0]]
        /\ count' = count /\ drop' = drop /\ taken' = taken /\ crossed' = crossed
    BY <1>4, Zenon DEF Ends!DhRatchet, Ends!DeriveChains
  <2>2. root' \in [Ends!Ends -> 0 .. MaxTurns]
    BY <1>1, <2>1
  <2>3. /\ chain' \in [Ends!Ends -> [Ends!Chains -> Nat]]
        /\ \A d \in Ends!Ends, c \in Ends!Chains :
             chain'[d][c] = chain[d][c] \/ chain'[d][c] = 0
    BY <1>1, <2>1
  <2>4. \A d \in Ends!Ends : 0 <= Len(taken[d])
    <3>1. \A d \in Ends!Ends : Len(taken[d]) \in Nat
      BY <1>1, LenProperties
    <3> QED
      BY <3>1
  <2>5. \A d \in Ends!Ends, c \in Ends!Chains : chain'[d][c] <= Len(taken[d])
    BY <2>3, <2>4, Zenon DEF EndsBound
  <2> QED
    BY <2>1, <2>2, <2>3, <2>5, Zenon DEF EndsBound
<1>5. CASE UNCHANGED Ends!ratchetVars
  BY <1>5, Zenon DEF Ends!ratchetVars, EndsBound
<1> QED
  BY <1>2, <1>3, <1>4, <1>5, Zenon DEF Ends!Next

LEMMA EndsTyped == Ends!Spec => []Ends!TypeOK
<1>1. Ends!Init => EndsBound
  <2> SUFFICES ASSUME Ends!Init PROVE EndsBound
    OBVIOUS
  <2>1. /\ root = [e \in Ends!Ends |-> 0]
        /\ chain = [e \in Ends!Ends |-> [c \in Ends!Chains |-> 0]]
        /\ count = [e \in Ends!Ends |-> [c \in Ends!Chains |-> 0]]
        /\ drop = <<>> /\ taken = [e \in Ends!Ends |-> <<>>] /\ crossed = {}
    BY DEF Ends!Init
  <2>2. MaxTurns \in Nat /\ MaxKeys \in Nat
    BY ServicesSizes DEF Ends!EndsConstants
  <2> QED
    BY <2>1, <2>2 DEF EndsBound
<1>2. EndsInv /\ EndsBound => Ends!TypeOK
  <2> SUFFICES ASSUME EndsInv, EndsBound PROVE Ends!TypeOK
    OBVIOUS
  <2>1. MaxKeys \in Nat
    BY ServicesSizes DEF Ends!EndsConstants
  <2>2. \A e \in Ends!Ends : Len(taken[e]) \in Nat
    <3>1. \A e \in Ends!Ends : taken[e] \in Seq(Keys)
      BY DEF EndsInv, EndsTypes
    <3> QED
      BY <3>1, LenProperties
  <2>3. \A e \in Ends!Ends, c \in Ends!Chains :
          chain[e][c] \in 0 .. MaxKeys /\ count[e][c] \in 0 .. MaxKeys
    <3> SUFFICES ASSUME NEW e \in Ends!Ends, NEW c \in Ends!Chains
                 PROVE  chain[e][c] \in 0 .. MaxKeys /\ count[e][c] \in 0 .. MaxKeys
      OBVIOUS
    <3>1. /\ Len(taken[e]) <= MaxKeys
          /\ chain[e][c] <= Len(taken[e]) /\ count[e][c] <= Len(taken[e])
      BY Zenon DEF EndsBound
    <3>2. chain[e][c] \in Nat /\ count[e][c] \in Nat
      BY DEF EndsBound
    <3> QED
      BY <2>1, <2>2, <3>1, <3>2
  <2>4. chain \in [Ends!Ends -> [Ends!Chains -> 0 .. MaxKeys]]
        /\ count \in [Ends!Ends -> [Ends!Chains -> 0 .. MaxKeys]]
    BY <2>3 DEF EndsBound
  <2> QED
    BY <2>4, Zenon DEF EndsBound, Bounded, Ends!TypeOK
<1> QED
  BY <1>1, <1>2, EndsInvariant, EndsBoundStep, PTL DEF Ends!Spec

LEMMA BridgeTyped == BridgeInv => Bridge!TypeOK
<1> SUFFICES ASSUME BridgeInv PROVE Bridge!TypeOK
  OBVIOUS
<1>1. DeviceMaxSeq \in Nat /\ MaxCalls \in Nat
  BY BridgeSizes
<1>2. /\ device \in Seq(Request) /\ done \in Seq(Outcome) /\ calls \in Nat
      /\ Len(device) + Due <= calls /\ calls <= Len(done) + Due /\ Len(done) <= MaxCalls
      /\ heartbeat_counter = Cardinality(Heartbeats(done))
      /\ sim_mode \in BOOLEAN /\ connected \in BOOLEAN
  BY Zenon DEF BridgeInv
<1>3. Len(device) \in Nat /\ Len(done) \in Nat
  BY <1>2, LenProperties
<1>4. Cardinality(Heartbeats(done)) \in Nat /\ Cardinality(Heartbeats(done)) <= Len(done)
  <2>1. /\ IsFiniteSet(1 .. Len(done))
        /\ Cardinality(1 .. Len(done)) = IF 1 > Len(done) THEN 0 ELSE Len(done) - 1 + 1
    <3>1. 1 \in Int /\ Len(done) \in Int
      BY <1>3
    <3> QED
      BY ONLY <3>1, FS_Interval
  <2>3. Cardinality(1 .. Len(done)) = Len(done)
    BY <1>3, <2>1
  <2>2. Heartbeats(done) \subseteq 1 .. Len(done)
    BY <1>2, LenProperties DEF Heartbeats
  <2> QED
    BY <2>1, <2>2, <2>3, FS_Subset, FS_CardinalityType
<1>5. heartbeat_counter \in 0 .. MaxCalls
  BY <1>1, <1>2, <1>3, <1>4
<1>6. CASE Waits
  <2>1. /\ Due = 1 /\ request \in Request /\ Len(done) < MaxCalls
        /\ request.seq = request.call % (DeviceMaxSeq + 1)
    BY <1>6, Zenon DEF BridgeInv, Due
  <2>2. request.op \in Bridge!Ops /\ request.call \in Nat
    BY <2>1 DEF Request
  <2>3. request.seq \in 0 .. DeviceMaxSeq
    BY <1>1, <2>1, <2>2
  <2>4. calls \in 0 .. MaxCalls /\ Len(device) <= calls
    BY <1>1, <1>2, <1>3, <2>1
  <2> QED
    BY <1>2, <1>5, <2>2, <2>3, <2>4, Zenon DEF Bridge!TypeOK
<1>7. CASE ~Waits
  <2>1. Due = 0 /\ request = Bridge!None
    BY <1>7, Zenon DEF Due, Waits
  <2>2. calls \in 0 .. MaxCalls /\ Len(device) <= calls
    BY <1>1, <1>2, <1>3, <2>1
  <2> QED
    BY <1>2, <1>5, <2>1, <2>2, Zenon DEF Bridge!TypeOK
<1> QED
  BY <1>6, <1>7

LEMMA ConsoleTyped == ConsoleInv => Console!TypeOK
<1> SUFFICES ASSUME ConsoleInv PROVE Console!TypeOK
  OBVIOUS
<1>1. input \in Seq(Letters) /\ Len(input) <= MaxDraft /\ MaxDraft \in Nat
  BY ConsoleSizes DEF ConsoleInv
<1>2. input \in [1 .. Len(input) -> Letters] /\ Len(input) \in 0 .. MaxDraft
  BY <1>1, LenProperties
<1>3. input \in Console!BoundedSeq(Letters, MaxDraft)
  BY <1>2 DEF Console!BoundedSeq, Console!SeqOf
<1> QED
  BY <1>3, Zenon DEF ConsoleInv, Console!TypeOK

LEMMA WatchTyped == WatchInv => Watch!TypeOK
<1> SUFFICES ASSUME WatchInv PROVE Watch!TypeOK
  OBVIOUS
<1>1. \A s \in dht : s.peer \in Peers /\ s.at \in 0 .. now
  BY DEF WatchInv, Posted, Signal
<1> QED
  BY <1>1, Zenon DEF WatchInv, Watch!TypeOK

LEMMA AuditTyped == AuditInv => Keeping!AuditTypeOK
BY Zenon DEF AuditInv, Keeping!AuditTypeOK, ChainOf

-----------------------------------------------------------------------------

(* The services share no variable, so each of them takes its own steps or  *)
(* none: what is proved of one service holds of all of them together.      *)

LEMMA ValidatorServes == ServicesSpec => Spec
<1>1. ServicesInit => Init
  BY Zenon DEF ServicesInit
<1>2. [ServicesNext]_<<subject, hidraVars, titanVars>> => [Next]_vars
  <2>1. SUFFICES ASSUME [ServicesNext]_<<subject, hidraVars, titanVars>>
                 PROVE  [Next]_vars
    OBVIOUS
  <2>2. Next \/ UNCHANGED vars
    BY <2>1, Zenon DEF ServicesNext, HidraStep, TitanStep, hidraVars, titanVars
  <2> QED BY <2>2, Zenon
<1> QED BY <1>1, <1>2, PTL DEF ServicesSpec, Spec

LEMMA BridgeServes == ServicesSpec => Bridge!Spec
<1>1. ServicesInit => Bridge!Init
  BY Zenon DEF ServicesInit
<1>2. [ServicesNext]_<<subject, hidraVars, titanVars>> => [Bridge!Next]_(Bridge!bridgeVars)
  <2>1. SUFFICES ASSUME [ServicesNext]_<<subject, hidraVars, titanVars>>
                 PROVE  [Bridge!Next]_(Bridge!bridgeVars)
    OBVIOUS
  <2>2. Bridge!Next \/ UNCHANGED bridgeVars
    BY <2>1, Zenon DEF ServicesNext, HidraStep, TitanStep, hidraVars, titanVars
  <2>3. UNCHANGED bridgeVars => UNCHANGED Bridge!bridgeVars
    BY DEF bridgeVars, Bridge!bridgeVars
  <2> QED BY <2>2, <2>3, Zenon
<1> QED BY <1>1, <1>2, PTL DEF ServicesSpec, Bridge!Spec

LEMMA GuardServes == ServicesSpec => Keeping!GuardSpec
<1>1. ServicesInit => Keeping!GuardInit
  BY Zenon DEF ServicesInit
<1>2. [ServicesNext]_<<subject, hidraVars, titanVars>> => [Keeping!GuardNext]_(Keeping!guardVars)
  <2>1. SUFFICES ASSUME [ServicesNext]_<<subject, hidraVars, titanVars>>
                 PROVE  [Keeping!GuardNext]_(Keeping!guardVars)
    OBVIOUS
  <2>2. Keeping!GuardNext \/ UNCHANGED guardVars
    BY <2>1, Zenon DEF ServicesNext, HidraStep, TitanStep, hidraVars, titanVars
  <2>3. UNCHANGED guardVars => UNCHANGED Keeping!guardVars
    BY DEF guardVars, Keeping!guardVars
  <2> QED BY <2>2, <2>3, Zenon
<1> QED BY <1>1, <1>2, PTL DEF ServicesSpec, Keeping!GuardSpec

LEMMA AuditServes == ServicesSpec => Keeping!AuditSpec
<1>1. ServicesInit => Keeping!AuditInit
  BY Zenon DEF ServicesInit
<1>2. [ServicesNext]_<<subject, hidraVars, titanVars>> => [Keeping!AuditNext]_(Keeping!auditVars)
  <2>1. SUFFICES ASSUME [ServicesNext]_<<subject, hidraVars, titanVars>>
                 PROVE  [Keeping!AuditNext]_(Keeping!auditVars)
    OBVIOUS
  <2>2. Keeping!AuditNext \/ UNCHANGED auditVars
    BY <2>1, Zenon DEF ServicesNext, HidraStep, TitanStep, hidraVars, titanVars
  <2>3. UNCHANGED auditVars => UNCHANGED Keeping!auditVars
    BY DEF auditVars, Keeping!auditVars
  <2> QED BY <2>2, <2>3, Zenon
<1> QED BY <1>1, <1>2, PTL DEF ServicesSpec, Keeping!AuditSpec

LEMMA ConsoleServes == ServicesSpec => Console!Spec
<1>1. ServicesInit => Console!Init
  BY Zenon DEF ServicesInit
<1>2. [ServicesNext]_<<subject, hidraVars, titanVars>> => [Console!Next]_(Console!consoleVars)
  <2>1. SUFFICES ASSUME [ServicesNext]_<<subject, hidraVars, titanVars>>
                 PROVE  [Console!Next]_(Console!consoleVars)
    OBVIOUS
  <2>2. Console!Next \/ UNCHANGED consoleVars
    BY <2>1, Zenon DEF ServicesNext, HidraStep, TitanStep, hidraVars, titanVars
  <2>3. UNCHANGED consoleVars => UNCHANGED Console!consoleVars
    BY DEF consoleVars, Console!consoleVars
  <2> QED BY <2>2, <2>3, Zenon
<1> QED BY <1>1, <1>2, PTL DEF ServicesSpec, Console!Spec

LEMMA DropServes == ServicesSpec => Drops!Spec
<1>1. ServicesInit => Drops!Init
  BY Zenon DEF ServicesInit
<1>2. [ServicesNext]_<<subject, hidraVars, titanVars>> => [Drops!Next]_(Drops!dropVars)
  <2>1. SUFFICES ASSUME [ServicesNext]_<<subject, hidraVars, titanVars>>
                 PROVE  [Drops!Next]_(Drops!dropVars)
    OBVIOUS
  <2>2. Drops!Next \/ UNCHANGED dropVars
    BY <2>1, Zenon DEF ServicesNext, HidraStep, TitanStep, hidraVars, titanVars
  <2>3. UNCHANGED dropVars => UNCHANGED Drops!dropVars
    BY DEF dropVars, Drops!dropVars
  <2> QED BY <2>2, <2>3, Zenon
<1> QED BY <1>1, <1>2, PTL DEF ServicesSpec, Drops!Spec

LEMMA EndsServes == ServicesSpec => Ends!Spec
<1>1. ServicesInit => Ends!Init
  BY Zenon DEF ServicesInit
<1>2. [ServicesNext]_<<subject, hidraVars, titanVars>> => [Ends!Next]_(Ends!ratchetVars)
  <2>1. SUFFICES ASSUME [ServicesNext]_<<subject, hidraVars, titanVars>>
                 PROVE  [Ends!Next]_(Ends!ratchetVars)
    OBVIOUS
  <2>2. Ends!Next \/ UNCHANGED endsVars
    BY <2>1, Zenon DEF ServicesNext, HidraStep, TitanStep, hidraVars, titanVars
  <2>3. UNCHANGED endsVars => UNCHANGED Ends!ratchetVars
    BY DEF endsVars, Ends!ratchetVars
  <2> QED BY <2>2, <2>3, Zenon
<1> QED BY <1>1, <1>2, PTL DEF ServicesSpec, Ends!Spec

LEMMA SentryServes == ServicesSpec => Watch!Spec
<1>1. ServicesInit => Watch!Init
  BY Zenon DEF ServicesInit
<1>2. [ServicesNext]_<<subject, hidraVars, titanVars>> => [Watch!Next]_(Watch!sentryVars)
  <2>1. SUFFICES ASSUME [ServicesNext]_<<subject, hidraVars, titanVars>>
                 PROVE  [Watch!Next]_(Watch!sentryVars)
    OBVIOUS
  <2>2. Watch!Next \/ UNCHANGED watchVars
    BY <2>1, Zenon DEF ServicesNext, HidraStep, TitanStep, hidraVars, titanVars
  <2>3. UNCHANGED watchVars => UNCHANGED Watch!sentryVars
    BY DEF watchVars, Watch!sentryVars
  <2> QED BY <2>2, <2>3, Zenon
<1> QED BY <1>1, <1>2, PTL DEF ServicesSpec, Watch!Spec

LEMMA DevicesServes == ServicesSpec => Pair!Spec
<1>1. ServicesInit => Pair!Init
  BY Zenon DEF ServicesInit
<1>2. [ServicesNext]_<<subject, hidraVars, titanVars>> => [Pair!Next]_(Pair!deviceVars)
  <2>1. SUFFICES ASSUME [ServicesNext]_<<subject, hidraVars, titanVars>>
                 PROVE  [Pair!Next]_(Pair!deviceVars)
    OBVIOUS
  <2>2. Pair!Next \/ UNCHANGED pairVars
    BY <2>1, Zenon DEF ServicesNext, HidraStep, TitanStep, hidraVars, titanVars
  <2>3. UNCHANGED pairVars => UNCHANGED Pair!deviceVars
    BY DEF pairVars, Pair!deviceVars
  <2> QED BY <2>2, <2>3, Zenon
<1> QED BY <1>1, <1>2, PTL DEF ServicesSpec, Pair!Spec

(* So of the services together: no fresh packet below the wrap of the      *)
(* counter is refused (sequence.rs 67-131).                                *)
THEOREM ServicesAcceptFresh == ServicesSpec => []FreshRefusedOnlyAfterWrap
BY ValidatorServes, FreshIsAccepted, PTL

(* verify_chain tells a log changed by hand from one that stands as it was *)
(* logged, as far as ChainVerdictExact says, and a session is warned about *)
(* before it is refused (audit.rs 104-219, session.rs 79-139).             *)
THEOREM GuardsAreExact == ServicesSpec => []GuardsExact
<1>1. AuditInv /\ Keeping!WarnedBeforeExpiry => GuardsExact
  BY VerdictOfChain, Zenon DEF GuardsExact
<1> QED
  BY <1>1, GuardServes, WarningComesFirst, AuditServes, ChainVerdict, PTL

(* The bridge believes what it may of the device's answers (titan_spi.rs   *)
(* 181-307, 473).                                                          *)
THEOREM BridgeIsNotFooled == ServicesSpec => []AnswersBelieved
<1>1. Bridge!AnswersBelieved => AnswersBelieved
  BY Zenon DEF AnswersBelieved
<1> QED
  BY <1>1, BridgeServes, BridgeBelievesRightly, PTL

(* What the console shows, keeps and seals is what was typed (main.rs      *)
(* 185-279, 582-703).                                                      *)
THEOREM OperatorIsServed == ServicesSpec => []ConsoleFaithful
<1>1. ConsoleInv => ConsoleFaithful
  BY Zenon DEF ConsoleInv, ConsoleFaithful
<1> QED
  BY <1>1, ConsoleServes, ConsoleIsFaithful, PTL

(* A message dropped is found and its signal noticed, up to restarts,      *)
(* expiry and drift, and the two ends take the same keys for it (dead_drop *)
(* 64-105, titan_ratchet lib.rs 67-96, titan_sentry 60-85).                *)
THEOREM TitanIsDelivered == ServicesSpec => []TitanDelivers
<1>1. Drops!SweepFindsAll /\ Ends!KeysMeet /\ WatchInv => TitanDelivers
  BY Zenon DEF WatchInv, TitanDelivers, Watch!NoticedInItsEpoch
<1> QED
  BY <1>1, DropServes, SweepMissesNothing, EndsServes, KeysOfTheEndsMeet, SentryServes,
     SignalsNoticedInTime, PTL

(* Two devices of one session lose track of no call and honour each number *)
(* once (main.rs 182-278).                                                 *)
THEOREM DevicesAgree == ServicesSpec => []DeviceKeepsCount
<1>1. Pair!DeviceKeepsCount => DeviceKeepsCount
  BY Zenon DEF DeviceKeepsCount
<1> QED
  BY <1>1, DevicesServes, DevicesKeepCount, PTL

(* Every counter, queue and set of the services stays within its bound.    *)
THEOREM ServicesTyped == ServicesSpec => []TypesOK
<1>1. IInv /\ BridgeInv /\ AuditInv /\ ConsoleInv /\ WatchInv /\ Drops!TypeOK /\ Ends!TypeOK
        => TypesOK
  BY BridgeTyped, ConsoleTyped, WatchTyped, AuditTyped, Zenon DEF IInv, TypesOK
<1> QED
  BY <1>1, ValidatorServes, Invariance, BridgeServes, BridgeInvariant, AuditServes,
     ChainVerdict, ConsoleServes, ConsoleIsFaithful, DropServes, DropTyped, EndsServes,
     EndsTyped, SentryServes, SignalsNoticedInTime, PTL
=============================================================================
