-------------------------- MODULE NetServices_proofs --------------------------
(* Proofs about the services of MCNetServices, for every value of their      *)
(* constants: the Tor link and the fallback, the messaging session, the      *)
(* traffic shapers and the broker mesh with its receiver, each by an         *)
(* invariant of its own, and last that every behaviour of the services is a  *)
(* behaviour of each.                                                        *)
EXTENDS MCNetServices, FiniteSetTheorems, SequenceTheorems, TLAPS

-----------------------------------------------------------------------------
(* The Tor link                                                              *)

Ages == -1 .. MaxAge
DialTypes == [via : {"none", "tor", "direct", "stream"}, age : Nat, tor_failed : BOOLEAN]

GhostTypes ==
  /\ mode \in Links!Modes /\ state \in {"Disconnected", "Connected"}
  /\ last_rotation \in Ages /\ circuit_count \in 0 .. MaxCircuits
  /\ dial \in DialTypes

\* Never stands for no circuit, and a dial keeps the age it began with.
GhostInv ==
  /\ GhostTypes
  /\ state = "Connected" <=> last_rotation # -1
  /\ dial.via # "none" => dial.age < Links!Longer
  /\ dial.via = "direct" => mode = "Direct" \/ (mode = "TorWithFallback" /\ dial.tor_failed)

LEMMA GhostSizes ==
  /\ rotation_interval \in Nat /\ MIN_CIRCUIT_AGE \in Nat \ {0}
  /\ MaxAge \in Nat /\ MaxAge > rotation_interval /\ MaxAge > MIN_CIRCUIT_AGE
  /\ MaxCircuits \in Nat
  /\ Links!Longer \in Nat /\ Links!Longer > 0
  /\ \A n \in Nat : n < rotation_interval \/ n < MIN_CIRCUIT_AGE => n < Links!Longer
<1>1. /\ rotation_interval \in Nat /\ MIN_CIRCUIT_AGE \in Nat \ {0}
      /\ MaxAge \in Nat /\ MaxAge > rotation_interval /\ MaxAge > MIN_CIRCUIT_AGE
      /\ MaxCircuits \in Nat
  BY ServiceConstants DEF Links!GhostConstants
<1> QED
  BY <1>1 DEF Links!Longer

LEMMA GhostCounted ==
  ASSUME circuit_count \in 0 .. MaxCircuits, NEW n \in Nat
  PROVE  Links!Counted(n) \in 0 .. MaxCircuits
BY GhostSizes DEF Links!Counted

(* A dial begins on a circuit that need not be rotated, or one so young    *)
(* that it must not be.                                                    *)
LEMMA DialAgeIsYoung ==
  ASSUME GhostTypes, state = "Connected" <=> last_rotation # -1
  PROVE  Links!DialAge \in 0 .. MaxAge /\ Links!DialAge < Links!Longer
<1> DEFINE age == IF state = "Connected" THEN last_rotation ELSE 0
<1>1. age \in 0 .. MaxAge
  BY GhostSizes DEF GhostTypes, Ages
<1>2. Links!DialAge = IF Links!NeedsRotation(age) /\ ~Links!RotationTooFrequent(age)
                      THEN 0 ELSE age
  BY DEF Links!DialAge
<1> HIDE DEF age
<1>3. Links!NeedsRotation(age) <=> age >= rotation_interval
  BY <1>1, GhostSizes DEF Links!NeedsRotation, Links!Never
<1>4. Links!RotationTooFrequent(age) <=> age < MIN_CIRCUIT_AGE
  BY <1>1, GhostSizes DEF Links!RotationTooFrequent, Links!Never
<1> QED
  BY <1>1, <1>2, <1>3, <1>4, GhostSizes

LEMMA GhostStep == GhostInv /\ [Links!GhostNext]_(Links!ghostVars) => GhostInv'
<1> SUFFICES ASSUME GhostInv, [Links!GhostNext]_(Links!ghostVars) PROVE GhostInv'
  OBVIOUS
<1>1. /\ GhostTypes /\ (state = "Connected" <=> last_rotation # -1)
      /\ dial.via # "none" => dial.age < Links!Longer
      /\ dial \in DialTypes
      /\ dial.via = "direct"
           => mode = "Direct" \/ (mode = "TorWithFallback" /\ dial.tor_failed)
  BY Zenon DEF GhostInv, GhostTypes
<1>2. CASE Links!Connect \/ Links!RotateCircuit
  <2>1. /\ state' = "Connected" /\ last_rotation' = 0 /\ mode' = mode /\ dial' = dial
        /\ circuit_count' = Links!Counted(1)
    BY <1>2, Zenon DEF Links!Connect, Links!RotateCircuit
  <2>2. GhostTypes' /\ (state' = "Connected" <=> last_rotation' # -1)
    BY <1>1, <2>1, GhostCounted, GhostSizes DEF GhostTypes, Ages
  <2> QED
    BY <1>1, <2>1, <2>2, Zenon DEF GhostInv, Links!Longer
<1>3. CASE Links!Disconnect
  <2>1. /\ state' = "Disconnected" /\ last_rotation' = -1 /\ mode' = mode /\ dial' = dial
        /\ circuit_count' = circuit_count
    BY <1>3, Zenon DEF Links!Disconnect, Links!Never
  <2>2. GhostTypes' /\ (state' = "Connected" <=> last_rotation' # -1)
    BY <1>1, <2>1, GhostSizes DEF GhostTypes, Ages
  <2> QED
    BY <1>1, <2>1, <2>2, Zenon DEF GhostInv, Links!Longer
<1>4. CASE Links!BeginDial
  <2>1. /\ state' = "Connected" /\ last_rotation' = Links!DialAge /\ mode' = mode
        /\ \E n \in {0, 1} : circuit_count' = Links!Counted(n)
        /\ dial' = [via |-> IF mode = "Direct" THEN "direct" ELSE "tor",
                    age |-> Links!DialAge, tor_failed |-> FALSE]
    BY <1>4 DEF Links!BeginDial
  <2>2. /\ dial'.via \in {"direct", "tor"} /\ dial'.age = Links!DialAge
        /\ dial'.via = "direct" => mode = "Direct"
    BY <2>1
  <2>3. Links!DialAge \in 0 .. MaxAge /\ Links!DialAge < Links!Longer
    BY <1>1, DialAgeIsYoung
  <2>4. dial' \in DialTypes
    BY <2>1, <2>3, GhostSizes DEF DialTypes
  <2>5. mode' \in Links!Modes /\ circuit_count' \in 0 .. MaxCircuits
    BY <1>1, <2>1, GhostCounted DEF GhostTypes
  <2>6. GhostTypes' /\ (state' = "Connected" <=> last_rotation' # -1)
    BY <2>1, <2>3, <2>4, <2>5, GhostSizes DEF GhostTypes, Ages
  <2>7. dial'.age < Links!Longer
    BY <2>2, <2>3, GhostSizes
  <2> QED
    BY <2>1, <2>2, <2>6, <2>7, Zenon DEF GhostInv, Links!Longer
<1>5. CASE Links!Dialled \/ Links!DialFailed
  <2>1. /\ mode' = mode /\ state' = state /\ last_rotation' = last_rotation
        /\ circuit_count' = circuit_count
    BY <1>5, Zenon DEF Links!Dialled, Links!DialFailed
  <2>2. /\ dial' \in DialTypes
        /\ \/ dial'.via = "none"
           \/ dial'.via = "stream" /\ dial.via # "none" /\ dial'.age = dial.age
    <3>1. CASE Links!Dialled
      <4>1. dial.via \in {"tor", "direct"} /\ dial' = [dial EXCEPT !.via = "stream"]
        BY <3>1, Zenon DEF Links!Dialled
      <4>2. dial'.via = "stream" /\ dial'.age = dial.age /\ dial' \in DialTypes
        BY <1>1, <4>1 DEF DialTypes
      <4> QED
        BY <4>1, <4>2
    <3>2. CASE Links!DialFailed
      BY <3>2 DEF Links!DialFailed, Links!NotDialling, DialTypes
    <3> QED
      BY <1>5, <3>1, <3>2
  <2>3. GhostTypes' /\ (state' = "Connected" <=> last_rotation' # -1)
    BY <1>1, <2>1, <2>2 DEF GhostTypes
  <2> QED
    BY <1>1, <2>2, <2>3, Zenon DEF GhostInv, Links!Longer
<1>6. CASE Links!FallBack
  <2>1. /\ mode' = mode /\ state' = state /\ last_rotation' = last_rotation
        /\ circuit_count' = circuit_count /\ mode = "TorWithFallback" /\ dial.via = "tor"
        /\ dial' = [dial EXCEPT !.via = "direct", !.tor_failed = TRUE]
    BY <1>6, Zenon DEF Links!FallBack
  <2>2. /\ dial'.via = "direct" /\ dial'.tor_failed /\ dial'.age = dial.age
        /\ dial' \in DialTypes
    BY <1>1, <2>1 DEF DialTypes
  <2>3. GhostTypes' /\ (state' = "Connected" <=> last_rotation' # -1)
    BY <1>1, <2>1, <2>2 DEF GhostTypes
  <2> QED
    BY <1>1, <2>1, <2>2, <2>3, Zenon DEF GhostInv, Links!Longer
<1>7. CASE Links!Tick
  <2>1. /\ mode' = mode /\ state' = state /\ dial' = dial /\ circuit_count' = circuit_count
        /\ last_rotation \in 0 .. MaxAge - 1 /\ last_rotation' = last_rotation + 1
    BY <1>7, Zenon DEF Links!Tick
  <2>2. GhostTypes' /\ (state' = "Connected" <=> last_rotation' # -1)
    BY <1>1, <2>1, GhostSizes DEF GhostTypes, Ages
  <2> QED
    BY <1>1, <2>1, <2>2, Zenon DEF GhostInv, Links!Longer
<1>8. CASE UNCHANGED Links!ghostVars
  BY <1>1, <1>8, Zenon DEF GhostInv, GhostTypes, Links!ghostVars, Links!Longer
<1> QED
  BY <1>2, <1>3, <1>4, <1>5, <1>6, <1>7, <1>8, Zenon DEF Links!GhostNext

LEMMA GhostInvariant == Links!GhostSpec => []GhostInv
<1>1. Links!GhostInit => GhostInv
  <2> SUFFICES ASSUME Links!GhostInit PROVE GhostInv
    OBVIOUS
  <2>1. /\ mode \in Links!Modes /\ state = "Disconnected" /\ last_rotation = -1
        /\ circuit_count = 0 /\ dial.via = "none" /\ dial \in DialTypes
    BY DEF Links!GhostInit, Links!Never, Links!NotDialling, DialTypes
  <2>2. GhostTypes
    BY <2>1, GhostSizes DEF GhostTypes, Ages
  <2> QED
    BY <2>1, <2>2, Zenon DEF GhostInv
<1> QED
  BY <1>1, GhostStep, PTL DEF Links!GhostSpec

(* However connects, rotations, failed dials and the clock mix, no dial      *)
(* begins on an old circuit, a connected link has one, and the address is    *)
(* exposed only where the mode allows it (ghost_link.rs 134-153, 270-310).   *)
THEOREM DialsStayFresh == Links!GhostSpec => [](Links!DialsAreFresh /\ Links!TypeOK)
<1>1. GhostInv => Links!DialsAreFresh
  BY Zenon DEF GhostInv, Links!DialsAreFresh, Links!Never
<1>2. dial \in DialTypes => dial.via \in {"none", "tor", "direct", "stream"}
  BY DEF DialTypes
<1>3. GhostInv => Links!TypeOK
  BY <1>2, Zenon DEF GhostInv, GhostTypes, Ages, Links!TypeOK, Links!Never
<1> QED
  BY <1>1, <1>3, GhostInvariant, PTL

-----------------------------------------------------------------------------
(* The fallback                                                              *)

Unsent == [payload : Payloads, attempts : {0}]
Answers == [Ok : Nat, NoConnectivity : Nat, QueueFull : Nat]
Slots(queue, p) == {i \in DOMAIN queue : queue[i].payload = p}

\* No message that waits was ever tried: a flush tries them all and keeps none.
FallbackInv ==
  /\ retry_queue \in Seq(Unsent) /\ Len(retry_queue) <= max_queue
  /\ flushed \in [Payloads -> Nat] /\ told \in [Payloads -> Answers]
  /\ \A p \in Payloads :
       flushed[p] + Cardinality(Slots(retry_queue, p)) = told[p].NoConnectivity

LEMMA LinksCount ==
  ASSUME NEW S
  PROVE  Links!Cardinality(S) = Cardinality(S)
BY DEF Links!Cardinality, Cardinality

LEMMA FallbackSizes == max_queue \in Nat
BY ServiceConstants DEF Links!FallbackConstants

(* One more in the queue is one more of its payload and no other.            *)
LEMMA CountSlots ==
  ASSUME NEW queue \in Seq(Unsent), NEW p \in Payloads, NEW e \in Unsent
  PROVE  /\ Cardinality(Slots(queue, p)) \in Nat
         /\ Cardinality(Slots(Append(queue, e), p))
              = Cardinality(Slots(queue, p)) + IF e.payload = p THEN 1 ELSE 0
<1> DEFINE n == Len(queue)
           longer == Append(queue, e)
<1>1. n \in Nat /\ DOMAIN queue = 1 .. n
  BY LenProperties
<1>2. IsFiniteSet(1 .. n)
  BY <1>1, FS_Interval
<1>3. Slots(queue, p) \subseteq 1 .. n
  BY <1>1 DEF Slots
<1>4. IsFiniteSet(Slots(queue, p)) /\ Cardinality(Slots(queue, p)) \in Nat
  BY <1>2, <1>3, FS_Subset, FS_CardinalityType
<1>5. /\ longer \in Seq(Unsent) /\ Len(longer) = n + 1
      /\ \A i \in 1 .. n : longer[i] = queue[i]
      /\ longer[n + 1] = e
  BY AppendProperties
<1>6. DOMAIN longer = 1 .. n + 1
  BY <1>5, LenProperties
<1>7. n + 1 \notin 1 .. n /\ 1 .. n + 1 = 1 .. n \cup {n + 1}
  BY <1>1
<1> HIDE DEF longer
<1>8. ASSUME e.payload = p PROVE Slots(longer, p) = Slots(queue, p) \cup {n + 1}
  BY <1>1, <1>5, <1>6, <1>7, <1>8, Zenon DEF Slots
<1>9. ASSUME e.payload # p PROVE Slots(longer, p) = Slots(queue, p)
  BY <1>1, <1>5, <1>6, <1>7, <1>9, Zenon DEF Slots
<1>10. n + 1 \notin Slots(queue, p)
  BY <1>3, <1>7
<1>11. Cardinality(Slots(queue, p) \cup {n + 1}) = Cardinality(Slots(queue, p)) + 1
  BY <1>4, <1>10, FS_AddElement
<1>12. CASE e.payload = p
  BY <1>4, <1>8, <1>11, <1>12 DEF longer
<1>13. CASE e.payload # p
  BY <1>4, <1>9, <1>13 DEF longer
<1> QED
  BY <1>12, <1>13

LEMMA AnswerCounts ==
  ASSUME told \in [Payloads -> Answers], NEW p \in Payloads,
         NEW a \in {"Ok", "NoConnectivity", "QueueFull"}, Links!Answer(p, a)
  PROVE  /\ told' \in [Payloads -> Answers]
         /\ \A o \in Payloads \ {p} : told'[o] = told[o]
         /\ told'[p].NoConnectivity
              = told[p].NoConnectivity + IF a = "NoConnectivity" THEN 1 ELSE 0
<1>1. told' = [told EXCEPT ![p][a] = @ + 1]
  BY DEF Links!Answer
<1>2. told'[p] = [told[p] EXCEPT ![a] = @ + 1] /\ \A o \in Payloads \ {p} : told'[o] = told[o]
  BY <1>1
<1>3. told[p] \in Answers
  OBVIOUS
<1>4. /\ told'[p] \in Answers
      /\ told'[p].NoConnectivity
           = told[p].NoConnectivity + IF a = "NoConnectivity" THEN 1 ELSE 0
  BY <1>2, <1>3 DEF Answers
<1> QED
  BY <1>1, <1>2, <1>4

LEMMA FallbackStep == FallbackInv /\ [Links!FallbackNext]_(Links!fallbackVars) => FallbackInv'
<1> SUFFICES ASSUME FallbackInv, [Links!FallbackNext]_(Links!fallbackVars)
             PROVE  FallbackInv'
  OBVIOUS
<1>1. /\ retry_queue \in Seq(Unsent) /\ Len(retry_queue) <= max_queue
      /\ flushed \in [Payloads -> Nat] /\ told \in [Payloads -> Answers]
      /\ \A p \in Payloads :
           flushed[p] + Cardinality(Slots(retry_queue, p)) = told[p].NoConnectivity
  BY DEF FallbackInv
<1>2. CASE \/ \E m \in Links!Carriers, h \in {"Connected", "Degraded"} :
                Links!UpdateHealth(m, h)
           \/ UNCHANGED Links!fallbackVars
  <2>1. UNCHANGED <<retry_queue, flushed, told>>
    BY <1>2 DEF Links!UpdateHealth, Links!fallbackVars
  <2> QED
    BY <1>1, <2>1 DEF FallbackInv
<1>3. ASSUME NEW p \in Payloads, Links!SendNow(p) \/ Links!QueueFull(p)
      PROVE  FallbackInv'
  <2>1. /\ UNCHANGED <<retry_queue, flushed>>
        /\ Links!Answer(p, "Ok") \/ Links!Answer(p, "QueueFull")
    BY <1>3 DEF Links!SendNow, Links!QueueFull
  <2>2. /\ told' \in [Payloads -> Answers]
        /\ \A o \in Payloads \ {p} : told'[o] = told[o]
        /\ told'[p].NoConnectivity = told[p].NoConnectivity + 0
    BY <1>1, <2>1, AnswerCounts
  <2>3. told[p].NoConnectivity \in Nat
    BY <1>1 DEF Answers
  <2>4. \A o \in Payloads : told'[o].NoConnectivity = told[o].NoConnectivity
    BY <2>2, <2>3
  <2> QED
    BY <1>1, <2>1, <2>2, <2>4 DEF FallbackInv
<1>4. ASSUME NEW p \in Payloads, Links!Enqueue(p)
      PROVE  FallbackInv'
  <2> DEFINE e == [payload |-> p, attempts |-> 0]
  <2>1. /\ Len(retry_queue) < max_queue /\ retry_queue' = Append(retry_queue, e)
        /\ flushed' = flushed /\ Links!Answer(p, "NoConnectivity")
    BY <1>4 DEF Links!Enqueue
  <2>2. /\ told' \in [Payloads -> Answers]
        /\ \A o \in Payloads \ {p} : told'[o] = told[o]
        /\ told'[p].NoConnectivity = told[p].NoConnectivity + 1
    BY <1>1, <2>1, AnswerCounts
  <2>3. e \in Unsent /\ e.payload = p
    BY DEF Unsent
  <2> HIDE DEF e
  <2>4. /\ retry_queue' \in Seq(Unsent) /\ Len(retry_queue') = Len(retry_queue) + 1
        /\ Len(retry_queue) \in Nat
    BY <1>1, <2>1, <2>3, AppendProperties, LenProperties
  <2>5. ASSUME NEW o \in Payloads
        PROVE  flushed[o] + Cardinality(Slots(Append(retry_queue, e), o))
                 = told'[o].NoConnectivity
    <3> DEFINE waits == Cardinality(Slots(retry_queue, o))
               longer == Cardinality(Slots(Append(retry_queue, e), o))
    <3>1. waits \in Nat /\ longer = waits + IF e.payload = o THEN 1 ELSE 0
      BY <1>1, <2>3, CountSlots
    <3>2. flushed[o] + waits = told[o].NoConnectivity
          /\ flushed[o] \in Nat
      BY <1>1
    <3> HIDE DEF waits, longer
    <3>3. CASE o = p
      <4>1. told'[o].NoConnectivity = told[o].NoConnectivity + 1
        BY <2>2, <3>3
      <4>2. longer = waits + 1
        BY <2>3, <3>1, <3>3
      <4>3. flushed[o] + longer = (flushed[o] + waits) + 1
        BY <3>1, <3>2, <4>2
      <4> QED
        BY <3>2, <4>1, <4>3 DEF longer
    <3>4. CASE o # p
      <4>1. told'[o] = told[o] /\ longer = waits
        BY <2>2, <2>3, <3>1, <3>4
      <4> QED
        BY <3>2, <4>1 DEF longer
    <3> QED
      BY <3>3, <3>4
  <2>6. Len(retry_queue') <= max_queue
    BY <2>1, <2>4, FallbackSizes
  <2> QED
    BY <1>1, <2>1, <2>2, <2>4, <2>5, <2>6 DEF FallbackInv
<1>5. CASE Links!FlushQueue
  <2>1. /\ retry_queue' = <<>> /\ told' = told
        /\ flushed' = [p \in Payloads |-> flushed[p] +
             Cardinality({i \in Links!Waiting(p) : retry_queue[i].attempts + 1 < 5})]
    BY <1>5, LinksCount, Zenon DEF Links!FlushQueue, Links!MaxAttempts
  <2>2. ASSUME NEW p \in Payloads
        PROVE  {i \in Links!Waiting(p) : retry_queue[i].attempts + 1 < 5}
                 = Slots(retry_queue, p)
    <3>1. \A i \in DOMAIN retry_queue : retry_queue[i] \in Unsent
      BY <1>1, ElementOfSeq, LenProperties
    <3>2. \A i \in DOMAIN retry_queue : retry_queue[i].attempts + 1 < 5
      BY <3>1 DEF Unsent
    <3> QED
      BY <3>2, Zenon DEF Slots, Links!Waiting
  <2>3. \A p \in Payloads : Cardinality(Slots(retry_queue, p)) \in Nat
    <3> SUFFICES ASSUME NEW p \in Payloads PROVE Cardinality(Slots(retry_queue, p)) \in Nat
      OBVIOUS
    <3>1. [payload |-> p, attempts |-> 0] \in Unsent
      BY DEF Unsent
    <3> QED
      BY <1>1, <3>1, CountSlots
  <2>4. /\ flushed' \in [Payloads -> Nat]
        /\ \A p \in Payloads :
             flushed'[p] = flushed[p] + Cardinality(Slots(retry_queue, p))
    <3> DEFINE total(p) == flushed[p] + Cardinality(Slots(retry_queue, p))
    <3>1. flushed' = [p \in Payloads |-> total(p)]
      BY <2>1, <2>2, Zenon
    <3>2. \A p \in Payloads : total(p) \in Nat
      BY <1>1, <2>3
    <3> HIDE DEF total
    <3>3. /\ flushed' \in [Payloads -> Nat]
          /\ \A p \in Payloads : flushed'[p] = total(p)
      BY <3>1, <3>2
    <3> QED
      BY <3>3 DEF total
  <2>5. \A p \in Payloads : Slots(<<>>, p) = {}
    BY DEF Slots
  <2>6. Cardinality({}) = 0
    BY FS_EmptySet
  <2>7. \A p \in Payloads : flushed'[p] \in Nat
    BY <2>4
  <2>8. \A p \in Payloads :
          flushed'[p] + 0 = told'[p].NoConnectivity
    BY <1>1, <2>1, <2>4, <2>7
  <2>9. retry_queue' \in Seq(Unsent) /\ Len(retry_queue') <= max_queue
    BY <2>1, FallbackSizes
  <2> QED
    BY <1>1, <2>1, <2>4, <2>5, <2>6, <2>8, <2>9 DEF FallbackInv
<1> QED
  BY <1>2, <1>3, <1>4, <1>5, Zenon DEF Links!FallbackNext

LEMMA FallbackInvariant == Links!FallbackSpec => []FallbackInv
<1>1. Links!FallbackInit => FallbackInv
  <2> SUFFICES ASSUME Links!FallbackInit PROVE FallbackInv
    OBVIOUS
  <2>1. /\ retry_queue = <<>> /\ flushed = [p \in Payloads |-> 0]
        /\ told = [p \in Payloads |-> [Ok |-> 0, NoConnectivity |-> 0, QueueFull |-> 0]]
    BY DEF Links!FallbackInit
  <2>2. \A p \in Payloads : Cardinality(Slots(retry_queue, p)) = 0
    <3>1. \A p \in Payloads : Slots(<<>>, p) = {}
      BY DEF Slots
    <3> QED
      BY <2>1, <3>1, FS_EmptySet
  <2>3. retry_queue \in Seq(Unsent) /\ Len(retry_queue) <= max_queue
    BY <2>1, FallbackSizes
  <2>4. /\ flushed \in [Payloads -> Nat] /\ told \in [Payloads -> Answers]
        /\ \A p \in Payloads : flushed[p] = 0 /\ told[p].NoConnectivity = 0
    BY <2>1 DEF Answers
  <2>5. ASSUME NEW p \in Payloads
        PROVE  flushed[p] + Cardinality(Slots(retry_queue, p)) = told[p].NoConnectivity
    <3>1. flushed[p] = 0 /\ told[p].NoConnectivity = 0
      BY <2>4
    <3> QED
      BY <2>2, <3>1
  <2> QED
    BY <2>3, <2>4, <2>5, Zenon DEF FallbackInv
<1> QED
  BY <1>1, FallbackStep, PTL DEF Links!FallbackSpec

(* Every message that send refused for want of a connection waits in the     *)
(* queue until a flush counts it as sent, as often as it was so refused, and *)
(* the queue keeps its bound, for any messages, limits and changes of health *)
(* (sat_mesh.rs 112-185).                                                    *)
THEOREM QueueKeepsAll == Links!FallbackSpec => []Links!QueuedUntilFlushed
<1>1. ASSUME FallbackInv PROVE Links!QueuedUntilFlushed
  <2>1. \A p \in Payloads : Links!Queued(p) = Cardinality(Slots(retry_queue, p))
    BY LinksCount, Zenon DEF Links!Queued, Links!Waiting, Slots
  <2> QED
    BY <1>1, <2>1 DEF FallbackInv, Links!QueuedUntilFlushed
<1> QED
  BY <1>1, FallbackInvariant, PTL

-----------------------------------------------------------------------------
(* The messaging session                                                     *)

Sessions == [tx_seq : Nat, rx_seq_last : Nat, tx_count : Nat, rx_count : Nat]
Sealed == [from : Chat!Party, seq : Nat, msg_type : {"Text", "Ack"},
           timestamp_ms : Nat, at : Nat]
Receipts == [to : Chat!Party, wire : Nat, at : Nat, in : Nat]

Offset(p) == IF p = "Bob" THEN Ahead ELSE 0

\* What came in by the session that runs is not above its last number, and was
\* recent when it came.
RememberedBy(e, sealed, parties, life) ==
  /\ e.wire \in 1 .. Len(sealed)
  /\ e.in <= life[e.to]
  /\ e.in = life[e.to] => sealed[e.wire].seq <= parties[e.to].rx_seq_last
  /\ e.at - sealed[e.wire].at <= MAX_TIMESTAMP_SKEW_MS + Ahead
Remembered(e) == RememberedBy(e, wires, session, incarnation)

ChatTypes ==
  /\ now \in Nat
  /\ session \in [Chat!Party -> Sessions] /\ incarnation \in [Chat!Party -> Nat]
  /\ wires \in Seq(Sealed) /\ received \in Seq(Receipts)

ChatInv ==
  /\ ChatTypes
  /\ \A i \in 1 .. Len(wires) : wires[i].timestamp_ms = wires[i].at + Offset(wires[i].from)
  /\ \A n \in 1 .. Len(received) : Remembered(received[n])
  /\ \A m, n \in 1 .. Len(received) :
       m < n /\ received[m].to = received[n].to /\ received[m].in = received[n].in
         => wires[received[m].wire].seq < wires[received[n].wire].seq

LEMMA ChatSizes == MAX_TIMESTAMP_SKEW_MS \in Nat /\ Ahead \in Nat
BY ServiceConstants DEF Chat!MessagingConstants

LEMMA OffsetLemma == \A p \in Chat!Party : Offset(p) \in 0 .. Ahead
BY ChatSizes DEF Chat!Party, Offset

LEMMA ChatFacts ==
  ASSUME ChatInv
  PROVE  /\ now \in Nat /\ Len(wires) \in Nat /\ Len(received) \in Nat
         /\ session \in [Chat!Party -> Sessions] /\ incarnation \in [Chat!Party -> Nat]
         /\ wires \in Seq(Sealed) /\ received \in Seq(Receipts)
         /\ \A i \in 1 .. Len(wires) : wires[i] \in Sealed
         /\ \A n \in 1 .. Len(received) : received[n] \in Receipts
<1>1. /\ now \in Nat
      /\ session \in [Chat!Party -> Sessions] /\ incarnation \in [Chat!Party -> Nat]
      /\ wires \in Seq(Sealed) /\ received \in Seq(Receipts)
  BY DEF ChatInv, ChatTypes
<1> QED
  BY <1>1, LenProperties, ElementOfSeq

(* A step that returns nothing keeps what was returned, if it forgets no     *)
(* wire and lowers a number only with a new incarnation.                     *)
LEMMA NothingReturned ==
  ASSUME ChatInv, ChatTypes', received' = received,
         Len(wires) <= Len(wires)', \A i \in 1 .. Len(wires) : wires'[i] = wires[i],
         \A i \in 1 .. Len(wires)' :
           wires'[i].timestamp_ms = wires'[i].at + Offset(wires'[i].from),
         \A p \in Chat!Party :
           \/ incarnation'[p] = incarnation[p]
                /\ session'[p].rx_seq_last = session[p].rx_seq_last
           \/ incarnation'[p] = incarnation[p] + 1
  PROVE  ChatInv'
<1>1. \A n \in 1 .. Len(received) : Remembered(received[n])
  BY Zenon DEF ChatInv
<1>2. ASSUME NEW n \in 1 .. Len(received) PROVE Remembered(received[n])'
  <2> DEFINE e == received[n]
  <2>1. e \in Receipts
    BY ChatFacts
  <2>2. /\ e.wire \in 1 .. Len(wires) /\ e.in <= incarnation[e.to]
        /\ e.in = incarnation[e.to] => wires[e.wire].seq <= session[e.to].rx_seq_last
        /\ e.at - wires[e.wire].at <= MAX_TIMESTAMP_SKEW_MS + Ahead
    BY <1>1 DEF Remembered, RememberedBy
  <2>3. e.to \in Chat!Party /\ e.in \in Nat
    BY <2>1 DEF Receipts
  <2> HIDE DEF e
  <2>4. incarnation[e.to] \in Nat /\ Len(wires) \in Nat /\ Len(wires)' \in Nat
    BY <2>3, ChatFacts, LenProperties DEF ChatTypes
  <2>5. e.wire \in 1 .. Len(wires)' /\ wires'[e.wire] = wires[e.wire]
    BY <2>2, <2>4
  <2>6. /\ e.in <= incarnation'[e.to]
        /\ e.in = incarnation'[e.to]
             => e.in = incarnation[e.to] /\ session'[e.to].rx_seq_last = session[e.to].rx_seq_last
    BY <2>2, <2>3, <2>4
  <2>7. Remembered(e)'
    BY <2>2, <2>5, <2>6 DEF Remembered, RememberedBy, e
  <2> QED
    BY <2>7 DEF e
<1>3. \A n \in 1 .. Len(received) : received[n].wire \in 1 .. Len(wires)
  BY <1>1 DEF Remembered, RememberedBy
<1>4. ASSUME NEW m \in 1 .. Len(received), NEW n \in 1 .. Len(received), m < n,
             received[m].to = received[n].to, received[m].in = received[n].in
      PROVE  wires'[received[m].wire].seq < wires'[received[n].wire].seq
  <2>1. wires[received[m].wire].seq < wires[received[n].wire].seq
    BY <1>4 DEF ChatInv
  <2> QED
    BY <1>3, <2>1
<1> QED
  BY <1>2, <1>4 DEF ChatInv

LEMMA SendStep ==
  ASSUME ChatInv, NEW p \in Chat!Party, NEW t \in {"Text", "Ack"}, Chat!SendPayload(p, t)
  PROVE  ChatInv'
<1> DEFINE seq == session[p].tx_seq + 1
           w == [from |-> p, seq |-> seq, msg_type |-> t,
                 timestamp_ms |-> Chat!Clock(p), at |-> now]
<1>1. /\ session' = [session EXCEPT ![p].tx_seq = seq, ![p].tx_count = @ + 1]
      /\ wires' = Append(wires, w)
      /\ UNCHANGED <<now, received, incarnation>>
  BY DEF Chat!SendPayload
<1>2. session[p] \in Sessions
  BY ChatFacts
<1>3. /\ session' \in [Chat!Party -> Sessions]
      /\ \A q \in Chat!Party : session'[q].rx_seq_last = session[q].rx_seq_last
  BY <1>1, <1>2, ChatFacts, SMTT(30) DEF Sessions
<1>4. Chat!Clock(p) = now + Offset(p) /\ Chat!Clock(p) \in Nat
  BY ChatFacts, ChatSizes DEF Chat!Clock, Offset
<1>5. w \in Sealed /\ w.timestamp_ms = w.at + Offset(w.from)
  BY <1>2, <1>4, ChatFacts DEF Sealed, Sessions
<1> HIDE DEF w
<1>6. /\ wires' \in Seq(Sealed) /\ Len(wires)' = Len(wires) + 1
      /\ \A i \in 1 .. Len(wires) : wires'[i] = wires[i]
      /\ wires'[Len(wires) + 1] = w
  BY <1>1, <1>5, ChatFacts, AppendProperties
<1>7. ChatTypes'
  BY <1>1, <1>3, <1>6, ChatFacts DEF ChatTypes
<1>8. \A i \in 1 .. Len(wires)' :
        wires'[i].timestamp_ms = wires'[i].at + Offset(wires'[i].from)
  <2> SUFFICES ASSUME NEW i \in 1 .. Len(wires)'
               PROVE  wires'[i].timestamp_ms = wires'[i].at + Offset(wires'[i].from)
    OBVIOUS
  <2>1. i \in 1 .. Len(wires) \/ i = Len(wires) + 1
    BY <1>6, ChatFacts
  <2>2. CASE i \in 1 .. Len(wires)
    BY <1>6, <2>2 DEF ChatInv
  <2>3. CASE i = Len(wires) + 1
    BY <1>5, <1>6, <2>3
  <2> QED
    BY <2>1, <2>2, <2>3
<1>9. Len(wires) <= Len(wires)'
  BY <1>6, ChatFacts
<1> QED
  BY <1>1, <1>3, <1>6, <1>7, <1>8, <1>9, NothingReturned

LEMMA RestartStep ==
  ASSUME ChatInv, NEW p \in Chat!Party, Chat!Restart(p)
  PROVE  ChatInv'
<1>1. /\ incarnation' = [incarnation EXCEPT ![p] = @ + 1]
      /\ session' = [session EXCEPT ![p] = Chat!NewSession]
      /\ UNCHANGED <<now, wires, received>>
  BY DEF Chat!Restart
<1>2. Chat!NewSession \in Sessions
  BY DEF Chat!NewSession, Sessions
<1>3. ChatTypes'
  BY <1>1, <1>2, ChatFacts DEF ChatTypes
<1>4. \A q \in Chat!Party :
        \/ incarnation'[q] = incarnation[q]
             /\ session'[q].rx_seq_last = session[q].rx_seq_last
        \/ incarnation'[q] = incarnation[q] + 1
  BY <1>1, ChatFacts
<1>5. \A i \in 1 .. Len(wires)' :
        wires'[i].timestamp_ms = wires'[i].at + Offset(wires'[i].from)
  BY <1>1 DEF ChatInv
<1> QED
  BY <1>1, <1>3, <1>4, <1>5, ChatFacts, NothingReturned

LEMMA QuietStep ==
  ASSUME ChatInv, now' \in Nat, UNCHANGED <<session, wires, received, incarnation>>
  PROVE  ChatInv'
<1>1. ChatTypes'
  BY ChatFacts DEF ChatTypes
<1>2. \A i \in 1 .. Len(wires)' :
        wires'[i].timestamp_ms = wires'[i].at + Offset(wires'[i].from)
  BY DEF ChatInv
<1> QED
  BY <1>1, <1>2, ChatFacts, NothingReturned

LEMMA SessionReceives ==
  ASSUME NEW s \in Sessions, NEW seq \in Nat
  PROVE  LET after == [s EXCEPT !.rx_seq_last = seq, !.rx_count = @ + 1]
         IN  after \in Sessions /\ after.rx_seq_last = seq
<1> DEFINE count == s.rx_count + 1
           after == [s EXCEPT !.rx_seq_last = seq, !.rx_count = count]
<1>1. count \in Nat
  BY DEF Sessions
<1> HIDE DEF count
<1>2. after \in Sessions
  BY <1>1 DEF Sessions
<1>3. after.rx_seq_last = seq
  BY DEF Sessions
<1> QED
  BY <1>2, <1>3 DEF count

LEMMA ReceiveStep ==
  ASSUME ChatInv, NEW p \in Chat!Party, NEW i \in Nat, Chat!Receive(p, i)
  PROVE  ChatInv'
<1> DEFINE w == wires[i]
           e == [to |-> p, wire |-> i, at |-> now, in |-> incarnation[p]]
           n == Len(received)
<1>1. /\ i \in 1 .. Len(wires) /\ UNCHANGED <<now, wires, incarnation>>
      /\ Chat!Timely(p, w) /\ ~Chat!SequenceReplay(p, w)
      /\ session' = [session EXCEPT ![p].rx_seq_last = w.seq, ![p].rx_count = @ + 1]
      /\ received' = Append(received, e)
  BY DEF Chat!Receive, Chat!Delivered
<1>2. w \in Sealed /\ w.timestamp_ms = w.at + Offset(w.from)
  BY <1>1, ChatFacts DEF ChatInv
<1>3. /\ w.from \in Chat!Party /\ w.seq \in Nat /\ w.at \in Nat
      /\ Offset(w.from) \in 0 .. Ahead
  BY <1>2, OffsetLemma DEF Sealed
<1> HIDE DEF w
<1>4. session[p] \in Sessions /\ incarnation[p] \in Nat
  BY <1>3, ChatFacts
<1>5. /\ session' \in [Chat!Party -> Sessions] /\ session'[p].rx_seq_last = w.seq
      /\ \A q \in Chat!Party \ {p} : session'[q] = session[q]
  <2> DEFINE after == [session[p] EXCEPT !.rx_seq_last = w.seq, !.rx_count = @ + 1]
  <2>1. after \in Sessions /\ after.rx_seq_last = w.seq
    BY <1>3, <1>4, SessionReceives
  <2>2. session' = [session EXCEPT ![p] = after]
    BY <1>1
  <2> HIDE DEF after
  <2> QED
    BY <1>3, <2>1, <2>2, ChatFacts
<1>6. session[p].rx_seq_last \in Nat /\ session[p].rx_seq_last < w.seq
  BY <1>1, <1>3, <1>4 DEF Chat!SequenceReplay, Sessions
<1>7. /\ e \in Receipts /\ e.to = p /\ e.wire = i /\ e.at = now /\ e.in = incarnation[p]
  BY <1>3, <1>4, ChatFacts DEF Receipts
<1>8. now - w.at <= MAX_TIMESTAMP_SKEW_MS + Ahead
  <2>1. Chat!Clock(p) = now + Offset(p) /\ Offset(p) \in 0 .. Ahead
    BY <1>3, OffsetLemma, ChatFacts, ChatSizes DEF Chat!Clock, Offset
  <2>2. w.timestamp_ms - Chat!Clock(p) <= MAX_TIMESTAMP_SKEW_MS
        /\ Chat!Clock(p) - w.timestamp_ms <= MAX_TIMESTAMP_SKEW_MS
    <3>1. w.timestamp_ms \in Int /\ Chat!Clock(p) \in Int
      BY <1>2, <1>3, <2>1, ChatFacts, ChatSizes
    <3> QED
      BY <1>1, <3>1, ChatSizes DEF Chat!Timely, Chat!Envelope!InWindow, Chat!Envelope!Distance
  <2> QED
    BY <1>2, <1>3, <2>1, <2>2, ChatFacts, ChatSizes, SMTT(30)
<1> HIDE DEF e
<1>9. /\ received' \in Seq(Receipts) /\ Len(received)' = n + 1 /\ n \in Nat
      /\ \A k \in 1 .. n : received'[k] = received[k]
      /\ received'[n + 1] = e
  BY <1>1, <1>7, ChatFacts, AppendProperties
<1>10. ASSUME NEW k \in 1 .. n
       PROVE  /\ RememberedBy(received[k], wires', session', incarnation')
              /\ received[k].to = p /\ received[k].in = incarnation[p]
                   => wires[received[k].wire].seq < w.seq
  <2> DEFINE r == received[k]
  <2>1. r \in Receipts /\ Remembered(r)
    BY ChatFacts DEF ChatInv
  <2> HIDE DEF r
  <2>2. /\ r.to \in Chat!Party /\ r.in \in Nat /\ r.wire \in 1 .. Len(wires)
        /\ r.in <= incarnation[r.to]
        /\ r.in = incarnation[r.to] => wires[r.wire].seq <= session[r.to].rx_seq_last
        /\ r.at - wires[r.wire].at <= MAX_TIMESTAMP_SKEW_MS + Ahead
    BY <2>1 DEF Receipts, Remembered, RememberedBy
  <2>3. wires[r.wire].seq \in Nat
    <3>1. wires[r.wire] \in Sealed
      BY <2>2, ChatFacts
    <3> QED
      BY <3>1 DEF Sealed
  <2>4. CASE r.to = p
    <3>1. r.in = incarnation[p] => wires[r.wire].seq < w.seq
      BY <1>3, <1>6, <2>2, <2>3, <2>4
    <3>2. r.in = incarnation[p] => wires[r.wire].seq <= session'[p].rx_seq_last
      BY <1>3, <1>5, <2>3, <3>1
    <3> QED
      BY <1>1, <2>2, <2>4, <3>1, <3>2 DEF RememberedBy, r
  <2>5. CASE r.to # p
    <3>1. session'[r.to] = session[r.to]
      BY <1>5, <2>2, <2>5
    <3> QED
      BY <1>1, <2>2, <2>5, <3>1 DEF RememberedBy, r
  <2> QED
    BY <2>4, <2>5
<1>11. RememberedBy(e, wires', session', incarnation')
  <2>1. wires'[i] = w
    BY <1>1 DEF w
  <2>2. /\ i \in 1 .. Len(wires)' /\ incarnation'[p] = incarnation[p]
        /\ incarnation[p] <= incarnation[p] /\ w.seq <= w.seq
    BY <1>1, <1>3, <1>4
  <2> QED
    BY <1>5, <1>7, <1>8, <2>1, <2>2 DEF RememberedBy
<1>12. ASSUME NEW k \in 1 .. n, NEW l \in 1 .. n + 1, k < l,
              received'[k].to = received'[l].to, received'[k].in = received'[l].in
       PROVE  wires'[received'[k].wire].seq < wires'[received'[l].wire].seq
  <2>1. CASE l \in 1 .. n
    BY <1>1, <1>9, <1>12, <2>1 DEF ChatInv
  <2>2. CASE l = n + 1
    <3>1. received[k].to = p /\ received[k].in = incarnation[p] /\ received'[k] = received[k]
      BY <1>7, <1>9, <1>12, <2>2
    <3>2. wires[received[k].wire].seq < w.seq
      BY <1>10, <3>1
    <3> QED
      BY <1>1, <1>7, <1>9, <2>2, <3>1, <3>2 DEF w
  <2> QED
    BY <1>9, <2>1, <2>2
<1>13. \A k \in 1 .. Len(received)' : Remembered(received[k])'
  <2> SUFFICES ASSUME NEW k \in 1 .. n + 1 PROVE Remembered(received[k])'
    BY <1>9
  <2>1. CASE k \in 1 .. n
    BY <1>9, <1>10, <2>1, Zenon DEF Remembered
  <2>2. CASE k = n + 1
    BY <1>9, <1>11, <2>2, Zenon DEF Remembered
  <2> QED
    BY <1>9, <2>1, <2>2
<1>14. ChatTypes'
  BY <1>1, <1>5, <1>9, ChatFacts DEF ChatTypes
<1>15. \A k, l \in 1 .. Len(received)' :
         k < l /\ received'[k].to = received'[l].to /\ received'[k].in = received'[l].in
           => wires'[received'[k].wire].seq < wires'[received'[l].wire].seq
  <2>1. \A k, l \in 1 .. n + 1 : k < l => k \in 1 .. n
    BY <1>9
  <2> QED
    BY <1>9, <1>12, <2>1
<1>16. \A k \in 1 .. Len(wires)' :
         wires'[k].timestamp_ms = wires'[k].at + Offset(wires'[k].from)
  BY <1>1 DEF ChatInv
<1> QED
  BY <1>13, <1>14, <1>15, <1>16 DEF ChatInv

LEMMA ChatStep == ChatInv /\ [Chat!Next]_(Chat!messagingVars) => ChatInv'
<1> SUFFICES ASSUME ChatInv, [Chat!Next]_(Chat!messagingVars) PROVE ChatInv'
  OBVIOUS
<1>1. ASSUME NEW p \in Chat!Party,
             Chat!SendPayload(p, "Text") \/ Chat!SendAck(p) \/ Chat!Restart(p)
      PROVE  ChatInv'
  <2>1. CASE Chat!SendPayload(p, "Text") \/ Chat!SendPayload(p, "Ack")
    BY <2>1, SendStep
  <2>2. CASE Chat!Restart(p)
    BY <2>2, RestartStep
  <2> QED
    BY <1>1, <2>1, <2>2, Zenon DEF Chat!SendAck
<1>2. ASSUME NEW p \in Chat!Party, NEW i \in 1 .. MaxSent,
             Chat!Receive(p, i) \/ Chat!Refuse(p, i)
      PROVE  ChatInv'
  <2>1. CASE Chat!Receive(p, i)
    <3>1. i \in Nat
      BY <2>1, ChatFacts DEF Chat!Receive, Chat!Delivered
    <3> QED
      BY <2>1, <3>1, ReceiveStep
  <2>2. CASE Chat!Refuse(p, i)
    <3>1. UNCHANGED <<now, session, wires, received, incarnation>>
      BY <2>2 DEF Chat!Refuse, Chat!Delivered
    <3> QED
      BY <3>1, ChatFacts, QuietStep
  <2> QED
    BY <1>2, <2>1, <2>2
<1>3. CASE Chat!Tick \/ UNCHANGED Chat!messagingVars
  <2>1. UNCHANGED <<session, wires, received, incarnation>> /\ now' \in Nat
    BY <1>3, ChatFacts DEF Chat!Tick, Chat!messagingVars
  <2> QED
    BY <2>1, QuietStep
<1> QED
  BY <1>1, <1>2, <1>3, Zenon DEF Chat!Next

LEMMA ChatInvariant == Chat!Spec => []ChatInv
<1>1. Chat!Init => ChatInv
  <2> SUFFICES ASSUME Chat!Init PROVE ChatInv
    OBVIOUS
  <2>1. /\ now = 0 /\ session = [p \in Chat!Party |-> Chat!NewSession]
        /\ wires = <<>> /\ received = <<>> /\ incarnation = [p \in Chat!Party |-> 0]
    BY DEF Chat!Init
  <2>2. Chat!NewSession \in Sessions
    BY DEF Chat!NewSession, Sessions
  <2>3. ChatTypes
    BY <2>1, <2>2 DEF ChatTypes
  <2>4. Len(wires) = 0 /\ Len(received) = 0
    BY <2>1
  <2> QED
    BY <2>3, <2>4 DEF ChatInv
<1> QED
  BY <1>1, ChatStep, PTL DEF Chat!Spec

(* Whatever the medium repeats, delays or reorders, and however often a      *)
(* party restarts: one session returns each message at most once and in the  *)
(* order sealed, and nothing older than the skew and the clocks allow        *)
(* (messaging.rs 117-134, framing.rs 312-321).                               *)
THEOREM MessagesOnceAndRecent == Chat!Spec => []Chat!OnceAndRecent
<1>1. ChatInv => Chat!OnceAndRecent
  <2> SUFFICES ASSUME ChatInv PROVE Chat!OnceAndRecent
    OBVIOUS
  <2>1. \A n \in 1 .. Len(received) :
          received[n].at - wires[received[n].wire].at <= MAX_TIMESTAMP_SKEW_MS + Ahead
    BY Zenon DEF ChatInv, Remembered, RememberedBy
  <2> QED
    BY <2>1, Zenon DEF ChatInv, Chat!OnceAndRecent
<1> QED
  BY <1>1, ChatInvariant, PTL

-----------------------------------------------------------------------------
(* The traffic shapers                                                       *)

Topics == [counter : Nat, msg_count : Nat, age : Nat, checked : BOOLEAN]
Decoys == [next_send : Nat, minute_count : Nat, minute_window : 0 .. Minute,
           enabled : BOOLEAN]
Jittered == [age : Nat, delay : min_jitter_ms .. max_jitter_ms - 1]

TopicInv ==
  /\ topic \in Topics /\ topic.msg_count <= max_messages
  /\ topic.checked => topic.msg_count < max_messages

\* The decoys of the last minute: the first k lie in the window that runs, as
\* far as it counted, and those before them in one window, that before it.
SpacedDecoys ==
  /\ decoyAges \in Seq(Nat)
  /\ \A i \in 1 .. Len(decoyAges) : decoyAges[i] < Minute
  /\ \A i, j \in 1 .. Len(decoyAges) : i < j => decoyAges[j] - decoyAges[i] >= base_interval
  /\ Len(decoyAges) > 0 => decoyAges[1] + decoy.next_send >= base_interval
WindowsOfDecoys ==
  /\ decoy.minute_count <= max_per_minute
  /\ decoy.minute_window = Minute => \A i \in 1 .. Len(decoyAges) : decoyAges[i] > 0
  /\ \E k \in 0 .. Len(decoyAges) :
       /\ k <= decoy.minute_count /\ Len(decoyAges) - k <= max_per_minute
       /\ \A i \in 1 .. Len(decoyAges) : i > k => decoyAges[i] > decoy.minute_window
DecoyInv == decoy \in Decoys /\ SpacedDecoys /\ WindowsOfDecoys

JitterInv == pending \in Seq(Jittered)

ShapingInv == TopicInv /\ DecoyInv /\ JitterInv

LEMMA ShapingSizes ==
  /\ max_messages \in Nat \ {0} /\ max_duration \in Nat \ {0}
  /\ base_interval \in Nat \ {0} /\ Minute \in Nat \ {0}
  /\ max_jitter \in Nat /\ max_per_minute \in Nat
  /\ min_jitter_ms \in Nat /\ max_jitter_ms \in Nat /\ min_jitter_ms < max_jitter_ms
BY ServiceConstants DEF Shaping!ShapingConstants

LEMMA PacingSizes ==
  /\ base_interval \in Nat /\ base_interval >= 1 /\ Minute \in Nat /\ Minute >= 1
  /\ max_per_minute \in Nat
BY ShapingSizes

LEMMA IntervalsLemma ==
  ASSUME NEW i \in Shaping!Intervals
  PROVE  i \in Nat /\ i >= base_interval
<1>1. CASE max_jitter = 0
  BY <1>1, ShapingSizes DEF Shaping!Intervals
<1>2. CASE max_jitter # 0
  <2>1. PICK r \in 0 .. 2 * max_jitter : i = base_interval + (r % max_jitter)
    BY <1>2 DEF Shaping!Intervals
  <2>2. r \in Int /\ max_jitter \in Nat \ {0}
    BY <1>2, ShapingSizes
  <2>3. r % max_jitter \in 0 .. max_jitter - 1
    BY ONLY <2>2
  <2> HIDE DEF Shaping!Intervals
  <2>4. DEFINE d == r % max_jitter
  <2>5. d \in Nat /\ i = base_interval + d
    BY <2>1, <2>3, ShapingSizes
  <2> HIDE DEF d
  <2> QED
    BY <2>5, ShapingSizes
<1> QED
  BY <1>1, <1>2

LEMMA JitterLemma ==
  ASSUME NEW d \in Shaping!JitterDelays
  PROVE  d \in min_jitter_ms .. max_jitter_ms - 1
<1> DEFINE span == max_jitter_ms - min_jitter_ms
<1>1. PICK r \in 0 .. 2 * max_jitter_ms : d = min_jitter_ms + (r % span)
  BY DEF Shaping!JitterDelays
<1>2. r \in Int /\ span \in Nat \ {0}
  BY ShapingSizes
<1> HIDE DEF span
<1>3. r % span \in 0 .. span - 1
  BY ONLY <1>2
<1> DEFINE rest == r % span
<1>4. rest \in 0 .. span - 1 /\ d = min_jitter_ms + rest
  BY <1>1, <1>3
<1> HIDE DEF rest
<1> QED
  BY <1>2, <1>4, ShapingSizes DEF span

-----------------------------------------------------------------------------
(* Topics: a message follows a check, and a check leaves room for one.       *)
LEMMA TopicStep ==
  ASSUME TopicInv, Shaping!TopicNext \/ UNCHANGED topic
  PROVE  TopicInv'
<1>1. topic \in Topics /\ topic.msg_count <= max_messages
  BY DEF TopicInv
<1>2. ASSUME NEW c \in BOOLEAN
      PROVE  /\ Shaping!Rotated(c) \in Topics /\ Shaping!Rotated(c).msg_count = 0
  <2> DEFINE counter == topic.counter + 1
  <2>1. counter \in Nat
    BY <1>1 DEF Topics
  <2> HIDE DEF counter
  <2>2. Shaping!Rotated(c) = [counter |-> counter, msg_count |-> 0, age |-> 0, checked |-> c]
    BY DEF Shaping!Rotated, counter
  <2> QED
    BY <2>1, <2>2 DEF Topics
<1>3. ASSUME NEW c \in BOOLEAN, topic' = Shaping!Rotated(c) PROVE TopicInv'
  <2>1. topic' \in Topics /\ topic'.msg_count = 0
    BY <1>2, <1>3
  <2>2. topic'.msg_count <= max_messages /\ topic'.msg_count < max_messages
    BY <2>1, ShapingSizes
  <2> QED
    BY <2>1, <2>2, Zenon DEF TopicInv
<1>4. CASE Shaping!Rotate
  BY <1>3, <1>4 DEF Shaping!Rotate
<1>5. CASE Shaping!CheckAndRotate
  <2>1. CASE Shaping!ShouldRotate
    BY <1>3, <1>5, <2>1 DEF Shaping!CheckAndRotate
  <2>2. CASE ~Shaping!ShouldRotate
    <3>1. topic' = [topic EXCEPT !.checked = TRUE]
      BY <1>5, <2>2, Zenon DEF Shaping!CheckAndRotate
    <3>2. ~(topic.msg_count >= max_messages)
      BY <2>2, Zenon DEF Shaping!ShouldRotate
    <3>3. topic' \in Topics /\ topic'.msg_count = topic.msg_count
      BY <1>1, <3>1 DEF Topics
    <3>4. topic'.msg_count < max_messages /\ topic'.msg_count <= max_messages
      BY <1>1, <3>2, <3>3, ShapingSizes DEF Topics
    <3> QED
      BY <3>3, <3>4, Zenon DEF TopicInv
  <2> QED
    BY <2>1, <2>2
<1>6. CASE Shaping!RecordMessage
  <2> DEFINE count == topic.msg_count + 1
  <2>1. topic.checked /\ topic' = [topic EXCEPT !.msg_count = count, !.checked = FALSE]
    BY <1>6 DEF Shaping!RecordMessage
  <2>2. topic.msg_count < max_messages
    BY <2>1, Zenon DEF TopicInv
  <2>3. count \in Nat /\ count <= max_messages
    BY <1>1, <2>2, ShapingSizes DEF Topics
  <2> HIDE DEF count
  <2>4. topic' \in Topics /\ topic'.msg_count = count /\ topic'.checked = FALSE
    BY <1>1, <2>1, <2>3 DEF Topics
  <2> QED
    BY <2>3, <2>4, Zenon DEF TopicInv
<1>7. CASE UNCHANGED topic
  BY <1>7, Zenon DEF TopicInv
<1> QED
  BY <1>4, <1>5, <1>6, <1>7, Zenon DEF Shaping!TopicNext

-----------------------------------------------------------------------------
(* Decoys                                                                    *)
LEMMA DecoyFacts ==
  ASSUME DecoyInv
  PROVE  /\ decoy \in Decoys /\ decoyAges \in Seq(Nat) /\ Len(decoyAges) \in Nat
         /\ DOMAIN decoyAges = 1 .. Len(decoyAges)
         /\ \A i \in 1 .. Len(decoyAges) : decoyAges[i] \in Nat /\ decoyAges[i] < Minute
         /\ decoy.next_send \in Nat /\ decoy.minute_count \in Nat
         /\ decoy.minute_window \in 0 .. Minute
<1>1. decoy \in Decoys /\ decoyAges \in Seq(Nat)
  BY DEF DecoyInv, SpacedDecoys
<1>2. decoy.next_send \in Nat /\ decoy.minute_count \in Nat /\ decoy.minute_window \in 0 .. Minute
  BY <1>1 DEF Decoys
<1>3. \A i \in 1 .. Len(decoyAges) : decoyAges[i] < Minute
  BY DEF DecoyInv, SpacedDecoys
<1> QED
  BY <1>1, <1>2, <1>3, LenProperties, ElementOfSeq

(* After a poll has renewed the window: the part of the invariant that a     *)
(* poll changes, for whatever interval is drawn next.                        *)
LEMMA WindowRenewed ==
  ASSUME DecoyInv
  PROVE  LET w == Shaping!Window IN
         /\ w \in Decoys /\ w.next_send = decoy.next_send
         /\ w.minute_window < Minute /\ w.minute_count <= max_per_minute
         /\ \E k \in 0 .. Len(decoyAges) :
              /\ k <= w.minute_count /\ Len(decoyAges) - k <= max_per_minute
              /\ \A i \in 1 .. Len(decoyAges) : i > k => decoyAges[i] > w.minute_window
<1> DEFINE w == Shaping!Window
<1>0. /\ decoy \in Decoys /\ Len(decoyAges) \in Nat
      /\ decoy.minute_window \in 0 .. Minute /\ decoy.minute_count \in Nat
      /\ \A i \in 1 .. Len(decoyAges) : decoyAges[i] \in Nat /\ decoyAges[i] < Minute
  BY DecoyFacts
<1>1. CASE decoy.minute_window >= Minute
  <2>1. w = [decoy EXCEPT !.minute_count = 0, !.minute_window = 0]
    BY <1>1 DEF Shaping!Window
  <2>2. /\ w \in Decoys /\ w.next_send = decoy.next_send
        /\ w.minute_window = 0 /\ w.minute_count = 0
    <3>1. 0 \in 0 .. Minute /\ 0 \in Nat
      BY ShapingSizes
    <3> HIDE DEF w
    <3> QED
      BY <1>0, <2>1, <3>1 DEF Decoys
  <2>3. decoy.minute_window = Minute
    BY <1>0, <1>1, ShapingSizes
  <2>4. \A i \in 1 .. Len(decoyAges) : decoyAges[i] > 0
    BY <2>3 DEF DecoyInv, WindowsOfDecoys
  <2>5. PICK k \in 0 .. Len(decoyAges) :
          /\ k <= decoy.minute_count
          /\ \A i \in 1 .. Len(decoyAges) : i > k => decoyAges[i] > decoy.minute_window
    BY DEF DecoyInv, WindowsOfDecoys
  <2>6. k = Len(decoyAges)
    <3> DEFINE n == Len(decoyAges)
    <3>1. n \in Nat /\ k \in 0 .. n
      BY <1>0, <2>5
    <3>2. ASSUME k < n PROVE FALSE
      <4>1. n \in 1 .. n /\ n > k
        BY <3>1, <3>2
      <4>2. decoyAges[n] > Minute
        BY <2>3, <2>5, <4>1
      <4>3. decoyAges[n] \in Nat /\ decoyAges[n] < Minute
        BY <1>0, <4>1
      <4> QED
        BY <4>2, <4>3, ShapingSizes
    <3> HIDE DEF n
    <3>3. k = n
      BY <3>1, <3>2
    <3> QED
      BY <3>3 DEF n
  <2>7. decoy.minute_count <= max_per_minute
    BY DEF DecoyInv, WindowsOfDecoys
  <2>8. Len(decoyAges) - 0 <= max_per_minute /\ 0 \in 0 .. Len(decoyAges)
    BY <1>0, <2>5, <2>6, <2>7, ShapingSizes
  <2> HIDE DEF w
  <2>9. /\ 0 <= w.minute_count /\ w.minute_window < Minute /\ w.minute_count <= max_per_minute
    BY <2>2, ShapingSizes
  <2> QED
    BY <2>2, <2>4, <2>8, <2>9 DEF w
<1>2. CASE ~(decoy.minute_window >= Minute)
  <2>1. w = decoy
    BY <1>2 DEF Shaping!Window
  <2>2. decoy.minute_window < Minute
    BY <1>0, <1>2, ShapingSizes
  <2> QED
    BY <1>0, <2>1, <2>2 DEF DecoyInv, WindowsOfDecoys
<1> QED
  BY <1>1, <1>2

LEMMA SendDecoyStep == ASSUME DecoyInv, Shaping!SendDecoy PROVE DecoyInv'
<1> DEFINE w == Shaping!Window
           n == Len(decoyAges)
           count == w.minute_count + 1
<1>1. PICK next \in Shaping!Intervals :
        /\ decoy' = [w EXCEPT !.next_send = next, !.minute_count = count]
        /\ decoyAges' = <<0>> \o decoyAges
        /\ decoy.next_send = 0 /\ ~(w.minute_count >= max_per_minute)
  BY DEF Shaping!SendDecoy, Shaping!Limited
<1>2. next \in Nat /\ next >= base_interval
  BY IntervalsLemma
<1>3. PICK k \in 0 .. n :
         /\ w \in Decoys /\ w.minute_window < Minute
         /\ k <= w.minute_count /\ n - k <= max_per_minute
         /\ \A i \in 1 .. n : i > k => decoyAges[i] > w.minute_window
  BY WindowRenewed
<1> HIDE DEF w
<1>4. count \in Nat /\ count <= max_per_minute /\ k + 1 <= count /\ w.minute_count \in Nat
  <2>1. w.minute_count \in Nat
    BY <1>3 DEF Decoys
  <2>2. n \in Nat
    BY DecoyFacts
  <2>3. k \in Int /\ k <= w.minute_count /\ ~(w.minute_count >= max_per_minute)
    BY <1>1, <1>3, <2>2
  <2> HIDE DEF n
  <2> QED
    BY <2>1, <2>3, ShapingSizes
<1> HIDE DEF count
<1>5. /\ decoy' \in Decoys /\ decoy'.next_send = next /\ decoy'.minute_count = count
      /\ decoy'.minute_window = w.minute_window
  BY <1>1, <1>2, <1>3, <1>4 DEF Decoys
<1>6. n \in Nat /\ decoyAges \in Seq(Nat) /\ w.minute_window \in Nat
  BY <1>3, DecoyFacts, ShapingSizes DEF Decoys
<1>7. /\ decoyAges' \in Seq(Nat) /\ Len(decoyAges') = n + 1
      /\ decoyAges'[1] = 0
      /\ \A i \in 2 .. n + 1 : decoyAges'[i] = decoyAges[i - 1]
  <2>1. <<0>> \in Seq(Nat) /\ Len(<<0>>) = 1 /\ <<0>>[1] = 0
    OBVIOUS
  <2>2. /\ <<0>> \o decoyAges \in Seq(Nat) /\ Len(<<0>> \o decoyAges) = 1 + n
        /\ \A i \in 1 .. 1 + n : (<<0>> \o decoyAges)[i]
                                   = IF i <= 1 THEN <<0>>[i] ELSE decoyAges[i - 1]
    BY <1>6, <2>1, ConcatProperties
  <2> QED
    BY <1>1, <1>6, <2>1, <2>2
<1>8. SpacedDecoys'
  <2>1. \A i \in 1 .. n + 1 : decoyAges'[i] \in Nat /\ decoyAges'[i] < Minute
    <3> SUFFICES ASSUME NEW i \in 1 .. n + 1
                 PROVE  decoyAges'[i] \in Nat /\ decoyAges'[i] < Minute
      OBVIOUS
    <3>1. CASE i = 1
      <4>1. decoyAges'[i] = 0
        BY <1>7, <3>1
      <4> QED
        BY <4>1, PacingSizes
    <3>2. CASE i # 1
      <4>1. i \in 2 .. n + 1 /\ i - 1 \in 1 .. n
        BY <1>6, <3>2
      <4>2. decoyAges[i - 1] \in Nat /\ decoyAges[i - 1] < Minute
        BY <4>1, DecoyFacts
      <4>3. decoyAges'[i] = decoyAges[i - 1]
        <5>1. \A l \in 2 .. n + 1 : decoyAges'[l] = decoyAges[l - 1]
          BY <1>7
        <5> QED
          BY <4>1, <5>1
      <4> QED
        BY <4>2, <4>3
    <3> QED
      BY <3>1, <3>2
  <2>2. \A i \in 1 .. n : decoyAges[i] >= base_interval
    <3> SUFFICES ASSUME NEW i \in 1 .. n PROVE decoyAges[i] >= base_interval
      OBVIOUS
    <3>1. decoyAges[1] + 0 >= base_interval /\ decoyAges[1] \in Nat /\ 1 \in 1 .. n
      <4>1. 1 \in 1 .. n /\ n > 0
        BY <1>6
      <4>2. decoyAges[1] + decoy.next_send >= base_interval
        BY <4>1 DEF DecoyInv, SpacedDecoys
      <4>3. decoyAges[1] \in Nat
        BY <4>1, DecoyFacts
      <4> QED
        BY <1>1, <4>1, <4>2, <4>3
    <3>2. i > 1 => decoyAges[i] - decoyAges[1] >= base_interval
      BY <1>6, <3>1 DEF DecoyInv, SpacedDecoys
    <3>3. decoyAges[i] \in Nat
      BY DecoyFacts
    <3> QED
      BY <1>6, <3>1, <3>2, <3>3, ShapingSizes
  <2>3. ASSUME NEW i \in 1 .. n + 1, NEW j \in 1 .. n + 1, i < j
        PROVE  decoyAges'[j] - decoyAges'[i] >= base_interval
    <3>0. \A o \in 1 .. n : decoyAges[o] \in Nat
      BY DecoyFacts
    <3>1. j \in 2 .. n + 1 /\ j - 1 \in 1 .. n /\ decoyAges'[j] = decoyAges[j - 1]
          /\ decoyAges[j - 1] \in Nat
      <4>1. j \in 2 .. n + 1 /\ j - 1 \in 1 .. n
        BY <1>6, <2>3
      <4> QED
        BY <1>7, <3>0, <4>1
    <3>2. CASE i = 1
      BY <1>7, <2>2, <3>1, <3>2, ShapingSizes
    <3>3. CASE i # 1
      <4>1. i \in 2 .. n + 1 /\ i - 1 \in 1 .. n /\ i - 1 < j - 1
        BY <1>6, <2>3, <3>3
      <4>2. decoyAges[j - 1] - decoyAges[i - 1] >= base_interval
        BY <3>1, <4>1 DEF DecoyInv, SpacedDecoys
      <4> QED
        BY <1>7, <3>1, <4>1, <4>2
    <3> QED
      BY <3>2, <3>3
  <2>4. decoyAges'[1] + decoy'.next_send >= base_interval
    BY <1>2, <1>5, <1>7
  <2> QED
    BY <1>7, <2>1, <2>3, <2>4 DEF SpacedDecoys
<1>9. WindowsOfDecoys'
  <2>1. decoy'.minute_count <= max_per_minute /\ decoy'.minute_window # Minute
    BY <1>3, <1>4, <1>5, <1>6, ShapingSizes
  <2>2. k + 1 \in 0 .. n + 1 /\ k + 1 <= decoy'.minute_count
        /\ (n + 1) - (k + 1) <= max_per_minute
    BY <1>3, <1>4, <1>5, <1>6, ShapingSizes
  <2>3. ASSUME NEW i \in 1 .. n + 1, i > k + 1
        PROVE  decoyAges'[i] > decoy'.minute_window
    <3>1. i \in 2 .. n + 1 /\ i - 1 \in 1 .. n /\ i - 1 > k
      BY <1>6, <2>3
    <3> QED
      BY <1>3, <1>5, <1>7, <3>1
  <2> QED
    BY <1>7, <2>1, <2>2, <2>3 DEF WindowsOfDecoys
<1> QED
  BY <1>5, <1>8, <1>9 DEF DecoyInv

LEMMA SendNoDecoyStep == ASSUME DecoyInv, Shaping!SendNoDecoy PROVE DecoyInv'
<1>1. decoy' = Shaping!Window /\ decoyAges' = decoyAges
  BY DEF Shaping!SendNoDecoy
<1>2. /\ decoy' \in Decoys /\ decoy'.next_send = decoy.next_send
      /\ decoy'.minute_window < Minute /\ decoy'.minute_count <= max_per_minute
      /\ \E k \in 0 .. Len(decoyAges) :
           /\ k <= decoy'.minute_count /\ Len(decoyAges) - k <= max_per_minute
           /\ \A i \in 1 .. Len(decoyAges) : i > k => decoyAges[i] > decoy'.minute_window
  BY <1>1, WindowRenewed
<1>3. decoy'.minute_window # Minute
  BY <1>2, ShapingSizes DEF Decoys
<1>4. SpacedDecoys'
  BY <1>1, <1>2 DEF DecoyInv, SpacedDecoys
<1>5. WindowsOfDecoys'
  BY <1>1, <1>2, <1>3 DEF WindowsOfDecoys
<1> QED
  BY <1>2, <1>4, <1>5 DEF DecoyInv

LEMMA SetEnabledStep == ASSUME DecoyInv, Shaping!SetEnabled PROVE DecoyInv'
<1>1. decoy' = [decoy EXCEPT !.enabled = ~decoy.enabled] /\ decoyAges' = decoyAges
  BY DEF Shaping!SetEnabled
<1>2. PICK b \in BOOLEAN : decoy' = [decoy EXCEPT !.enabled = b]
  BY <1>1, Zenon
<1>3. /\ decoy' \in Decoys /\ decoy'.next_send = decoy.next_send
      /\ decoy'.minute_count = decoy.minute_count
      /\ decoy'.minute_window = decoy.minute_window
  BY <1>2, DecoyFacts DEF Decoys
<1> QED
  BY <1>1, <1>3 DEF DecoyInv, SpacedDecoys, WindowsOfDecoys

(* A tick ages all decoys of the last minute and drops at most the eldest.   *)
LEMMA DecoyTick ==
  ASSUME DecoyInv,
         decoy' = [decoy EXCEPT !.next_send = Shaping!Earlier(@),
                                !.minute_window = Shaping!Later(@, Minute)],
         decoyAges' = [i \in {j \in DOMAIN decoyAges : decoyAges[j] + 1 < Minute} |->
                         decoyAges[i] + 1]
  PROVE  DecoyInv'
<1> DEFINE n == Len(decoyAges)
           next == Shaping!Earlier(decoy.next_send)
           window == Shaping!Later(decoy.minute_window, Minute)
<1>0. /\ decoy \in Decoys /\ decoy.next_send \in Nat
      /\ decoy.minute_window \in 0 .. Minute /\ decoy.minute_count \in Nat
      /\ decoyAges \in Seq(Nat) /\ DOMAIN decoyAges = 1 .. n
  BY DecoyFacts
<1>1. /\ next \in Nat /\ next + 1 >= decoy.next_send
      /\ window \in 0 .. Minute
      /\ \/ window = decoy.minute_window + 1
         \/ window = Minute /\ decoy.minute_window = Minute
  <2>1. next \in Nat /\ next + 1 >= decoy.next_send
    <3>1. next = IF decoy.next_send = 0 THEN 0 ELSE decoy.next_send - 1
      BY DEF Shaping!Earlier
    <3> HIDE DEF next
    <3> QED
      BY <1>0, <3>1
  <2>2. window = IF decoy.minute_window = Minute THEN Minute ELSE decoy.minute_window + 1
    BY DEF Shaping!Later
  <2>3. decoy.minute_window \in 0 .. Minute /\ Minute \in Nat
    BY <1>0, ShapingSizes
  <2> HIDE DEF window, next
  <2>4. /\ window \in 0 .. Minute
        /\ \/ window = decoy.minute_window + 1
           \/ window = Minute /\ decoy.minute_window = Minute
    BY <2>2, <2>3
  <2> QED
    BY <2>1, <2>4
<1>2. decoy' = [decoy EXCEPT !.next_send = next, !.minute_window = window]
  OBVIOUS
<1> HIDE DEF next, window
<1>3. /\ decoy' \in Decoys /\ decoy'.next_send = next /\ decoy'.minute_window = window
      /\ decoy'.minute_count = decoy.minute_count
  BY <1>0, <1>1, <1>2 DEF Decoys
<1>4. n \in Nat /\ \A i \in 1 .. n : decoyAges[i] \in Nat /\ decoyAges[i] < Minute
  BY DecoyFacts
<1>5. PICK m \in 0 .. n : {j \in DOMAIN decoyAges : decoyAges[j] + 1 < Minute} = 1 .. m
  <2>1. ASSUME NEW i \in 1 .. n, i # n PROVE decoyAges[i] + 1 < Minute
    <3>1. n \in 1 .. n /\ i < n
      BY <1>4, <2>1
    <3>2. decoyAges[n] - decoyAges[i] >= base_interval
      BY <3>1 DEF DecoyInv, SpacedDecoys
    <3>3. decoyAges[i] \in Nat /\ decoyAges[n] \in Nat /\ decoyAges[n] < Minute
      BY <1>4, <3>1
    <3> QED
      BY <3>2, <3>3, PacingSizes
  <2>2. CASE n = 0
    BY <2>2, DecoyFacts
  <2>3. CASE n # 0 /\ decoyAges[n] + 1 < Minute
    <3>1. {j \in DOMAIN decoyAges : decoyAges[j] + 1 < Minute} = 1 .. n
      BY <2>1, <2>3, DecoyFacts
    <3> QED
      BY <1>4, <3>1
  <2>4. CASE n # 0 /\ ~(decoyAges[n] + 1 < Minute)
    <3>1. {j \in DOMAIN decoyAges : decoyAges[j] + 1 < Minute} = 1 .. n - 1
      <4>1. \A j \in 1 .. n : decoyAges[j] + 1 < Minute <=> j # n
        BY <2>1, <2>4
      <4>2. n \in Nat /\ DOMAIN decoyAges = 1 .. n
        BY <1>0, <1>4
      <4> HIDE DEF n
      <4> QED
        BY <4>1, <4>2
    <3>2. n - 1 \in 0 .. n
      BY <1>4, <2>4
    <3> QED
      BY <3>1, <3>2
  <2> QED
    BY <2>2, <2>3, <2>4
<1>6. /\ decoyAges' \in Seq(Nat) /\ Len(decoyAges') = m
      /\ \A i \in 1 .. m : decoyAges'[i] = decoyAges[i] + 1 /\ i \in 1 .. n
                           /\ decoyAges'[i] < Minute
  <2>1. decoyAges' = [i \in 1 .. m |-> decoyAges[i] + 1]
    BY <1>5
  <2>2. \A i \in 1 .. m : i \in 1 .. n /\ decoyAges[i] + 1 < Minute
    BY <1>4, <1>5, DecoyFacts
  <2>3. m \in Nat /\ \A i \in 1 .. m : decoyAges[i] + 1 \in Nat
    BY <1>4, <2>2
  <2>4. decoyAges' \in [1 .. m -> Nat]
    BY <2>1, <2>3
  <2>5. decoyAges' \in Seq(Nat)
    BY <2>3, <2>4, SeqDef
  <2>6. Len(decoyAges') = m
    BY <2>3, <2>4, <2>5, LenProperties
  <2> QED
    BY <2>1, <2>2, <2>5, <2>6
<1>7. SpacedDecoys'
  <2>1. ASSUME NEW i \in 1 .. m, NEW j \in 1 .. m, i < j
        PROVE  decoyAges'[j] - decoyAges'[i] >= base_interval
    <3>1. /\ i \in 1 .. n /\ j \in 1 .. n
          /\ decoyAges'[i] = decoyAges[i] + 1 /\ decoyAges'[j] = decoyAges[j] + 1
      BY <1>6
    <3>2. decoyAges[j] - decoyAges[i] >= base_interval
      BY <2>1, <3>1 DEF DecoyInv, SpacedDecoys
    <3>3. decoyAges[i] \in Nat /\ decoyAges[j] \in Nat
      BY <1>4, <3>1
    <3>4. decoyAges'[j] - decoyAges'[i] = decoyAges[j] - decoyAges[i]
      BY <3>1, <3>3
    <3> QED
      BY <3>2, <3>4
  <2>2. ASSUME m > 0 PROVE decoyAges'[1] + decoy'.next_send >= base_interval
    <3>1. 1 \in 1 .. m /\ n > 0
      BY <1>4, <2>2
    <3>2. decoyAges'[1] = decoyAges[1] + 1 /\ decoyAges[1] \in Nat
      BY <1>4, <1>6, <3>1
    <3>3. decoyAges[1] + decoy.next_send >= base_interval
      BY <3>1 DEF DecoyInv, SpacedDecoys
    <3>4. decoyAges'[1] + decoy'.next_send = decoyAges[1] + 1 + next
      BY <1>3, <3>2
    <3>5. next + 1 >= decoy.next_send /\ next \in Nat /\ decoy.next_send \in Nat
      BY <1>0, <1>1
    <3>6. decoyAges[1] + 1 + next >= base_interval
      BY <3>2, <3>3, <3>5, PacingSizes
    <3> QED
      BY <3>4, <3>6
  <2> QED
    BY <1>6, <2>1, <2>2 DEF SpacedDecoys
<1>8. WindowsOfDecoys'
  <2>1. decoy'.minute_count <= max_per_minute
    BY <1>3 DEF DecoyInv, WindowsOfDecoys
  <2>2. \A i \in 1 .. m : decoyAges'[i] > 0
    BY <1>4, <1>6
  <2>3. PICK k \in 0 .. n :
          /\ k <= decoy.minute_count /\ n - k <= max_per_minute
          /\ \A i \in 1 .. n : i > k => decoyAges[i] > decoy.minute_window
    BY DEF DecoyInv, WindowsOfDecoys
  <2> DEFINE l == IF k < m THEN k ELSE m
  <2>4. /\ l \in 0 .. m /\ l <= decoy'.minute_count /\ m - l <= max_per_minute
        /\ \A i \in 1 .. m : i > l => i > k
    <3>1. n \in Nat /\ m \in 0 .. n /\ k \in 0 .. n /\ n - k <= max_per_minute
      BY <1>4, <1>5, <2>3
    <3>2. k <= decoy'.minute_count /\ decoy'.minute_count \in Nat
      BY <1>0, <1>3, <2>3
    <3> HIDE DEF n
    <3>3. l \in 0 .. m /\ l <= k /\ m - l <= max_per_minute /\ (l = k \/ l = m)
      BY <3>1, ShapingSizes
    <3> HIDE DEF l
    <3> QED
      BY <3>1, <3>2, <3>3
  <2>5. ASSUME NEW i \in 1 .. m, i > l PROVE decoyAges'[i] > window
    <3>1. decoyAges[i] > decoy.minute_window /\ i \in 1 .. n
      BY <1>6, <2>3, <2>4, <2>5
    <3>2. decoyAges'[i] = decoyAges[i] + 1 /\ decoyAges[i] \in Nat /\ decoyAges'[i] < Minute
      BY <1>4, <1>6, <3>1
    <3>3. \/ window = decoy.minute_window + 1
          \/ window = Minute /\ decoy.minute_window = Minute
      BY <1>1
    <3>4. decoyAges[i] < Minute /\ decoy.minute_window \in Nat
      <4>1. decoyAges[i] < Minute
        BY <1>4, <3>1
      <4> QED
        BY <1>0, <4>1, PacingSizes
    <3> HIDE DEF n, l
    <3>5. CASE window = decoy.minute_window + 1
      BY <3>1, <3>2, <3>4, <3>5
    <3>6. CASE window = Minute /\ decoy.minute_window = Minute
      BY <3>1, <3>2, <3>4, <3>6, PacingSizes
    <3> QED
      BY <3>3, <3>5, <3>6
  <2> HIDE DEF l
  <2> QED
    BY <1>3, <1>6, <2>1, <2>2, <2>4, <2>5 DEF WindowsOfDecoys
<1> QED
  BY <1>3, <1>7, <1>8 DEF DecoyInv


-----------------------------------------------------------------------------
(* Jittered sends                                                            *)
LEMMA JitterStep == ASSUME JitterInv, Shaping!JitterNext PROVE JitterInv'
<1>1. CASE Shaping!Schedule
  <2>1. PICK d \in Shaping!JitterDelays : pending' = Append(pending, [age |-> 0, delay |-> d])
    BY <1>1 DEF Shaping!Schedule
  <2>2. d \in min_jitter_ms .. max_jitter_ms - 1
    BY JitterLemma
  <2>3. [age |-> 0, delay |-> d] \in Jittered
    BY <2>2 DEF Jittered
  <2> QED
    BY <2>1, <2>3, AppendProperties DEF JitterInv
<1>2. ASSUME NEW i \in 1 .. 2, Shaping!SendJittered(i) PROVE JitterInv'
  <2>1. /\ i \in 1 .. Len(pending)
        /\ pending' = SubSeq(pending, 1, i - 1) \o SubSeq(pending, i + 1, Len(pending))
    BY <1>2 DEF Shaping!SendJittered
  <2>2. pending \in Seq(Jittered) /\ Len(pending) \in Nat
    BY LenProperties DEF JitterInv
  <2>3. \A j \in 1 .. Len(pending) : pending[j] \in Jittered
    BY <2>2, ElementOfSeq
  <2>4. SubSeq(pending, 1, i - 1) \in Seq(Jittered)
    <3>1. \A j \in 1 .. i - 1 : pending[j] \in Jittered
      BY <2>1, <2>2, <2>3
    <3> QED
      BY <2>1, <2>2, <3>1, SubSeqProperties
  <2>5. SubSeq(pending, i + 1, Len(pending)) \in Seq(Jittered)
    <3>1. \A j \in i + 1 .. Len(pending) : pending[j] \in Jittered
      BY <2>1, <2>2, <2>3
    <3> QED
      BY <2>1, <2>2, <3>1, SubSeqProperties
  <2> QED
    BY <2>1, <2>4, <2>5, ConcatProperties DEF JitterInv
<1> QED
  BY <1>1, <1>2 DEF Shaping!JitterNext

LEMMA JitterTick ==
  ASSUME JitterInv,
         pending' = [i \in DOMAIN pending |-> [pending[i] EXCEPT !.age = @ + 1]]
  PROVE  JitterInv'
<1>1. pending \in Seq(Jittered) /\ Len(pending) \in Nat /\ DOMAIN pending = 1 .. Len(pending)
  BY LenProperties DEF JitterInv
<1>2. ASSUME NEW i \in 1 .. Len(pending)
      PROVE  [pending[i] EXCEPT !.age = @ + 1] \in Jittered
  <2>1. pending[i] \in Jittered
    BY <1>1, ElementOfSeq
  <2> DEFINE age == pending[i].age + 1
  <2>2. age \in Nat
    BY <2>1 DEF Jittered
  <2>3. [pending[i] EXCEPT !.age = @ + 1] = [pending[i] EXCEPT !.age = age]
    OBVIOUS
  <2> HIDE DEF age
  <2> QED
    BY <2>1, <2>2, <2>3 DEF Jittered
<1>3. pending' \in [1 .. Len(pending) -> Jittered]
  BY <1>1, <1>2
<1> QED
  BY <1>1, <1>3, SeqDef DEF JitterInv

-----------------------------------------------------------------------------
(* The three on one clock                                                    *)
LEMMA ShapingStarts == ASSUME Shaping!Init PROVE ShapingInv
<1>1. TopicInv
  <2>1. topic = [counter |-> 1, msg_count |-> 0, age |-> 0, checked |-> FALSE]
    BY DEF Shaping!Init
  <2>2. topic \in Topics /\ topic.msg_count = 0
    BY <2>1 DEF Topics
  <2>3. topic.msg_count <= max_messages /\ topic.msg_count < max_messages
    BY <2>2, ShapingSizes
  <2> QED
    BY <2>2, <2>3, Zenon DEF TopicInv
<1>2. DecoyInv
  <2>1. PICK next \in Shaping!Intervals :
          /\ decoy = [next_send |-> next, minute_count |-> 0, minute_window |-> 0,
                      enabled |-> TRUE]
          /\ decoyAges = <<>>
    BY DEF Shaping!Init
  <2>2. next \in Nat /\ 0 \in 0 .. Minute
    BY IntervalsLemma, ShapingSizes
  <2>3. /\ decoy \in Decoys /\ decoy.minute_count = 0 /\ decoy.minute_window = 0
    BY <2>1, <2>2 DEF Decoys
  <2>4. decoyAges \in Seq(Nat) /\ Len(decoyAges) = 0
    BY <2>1
  <2>5. SpacedDecoys
    BY <2>4 DEF SpacedDecoys
  <2>6. WindowsOfDecoys
    <3>1. decoy.minute_count <= max_per_minute
      BY <2>3, ShapingSizes
    <3>2. /\ 0 \in 0 .. Len(decoyAges) /\ 0 <= decoy.minute_count
          /\ Len(decoyAges) - 0 <= max_per_minute
      BY <2>3, <2>4, ShapingSizes
    <3>3. \A i \in 1 .. Len(decoyAges) : FALSE
      BY <2>4
    <3> QED
      BY <3>1, <3>2, <3>3 DEF WindowsOfDecoys
  <2> QED
    BY <2>3, <2>5, <2>6 DEF DecoyInv
<1>3. JitterInv
  BY DEF Shaping!Init, JitterInv
<1> QED
  BY <1>1, <1>2, <1>3 DEF ShapingInv

LEMMA TopicTick ==
  ASSUME TopicInv, topic' = [topic EXCEPT !.age = Shaping!Later(@, max_duration)]
  PROVE  TopicInv'
<1> DEFINE age == Shaping!Later(topic.age, max_duration)
<1>1. topic \in Topics /\ topic' = [topic EXCEPT !.age = age]
  BY DEF TopicInv
<1>2. age = IF topic.age = max_duration THEN max_duration ELSE topic.age + 1
  BY DEF Shaping!Later
<1> HIDE DEF age
<1>3. topic.age \in Nat
  BY <1>1 DEF Topics
<1>4. age \in Nat
  BY <1>2, <1>3, ShapingSizes
<1>5. PICK c \in BOOLEAN : topic.checked = c
  BY <1>1 DEF Topics
<1>6. topic' \in Topics /\ topic'.msg_count = topic.msg_count /\ topic'.checked = c
  BY <1>1, <1>4, <1>5 DEF Topics
<1> QED
  BY <1>5, <1>6, Zenon DEF TopicInv

LEMMA ShapingStep ==
  ASSUME ShapingInv, Shaping!Next \/ UNCHANGED shapingVars
  PROVE  ShapingInv'
<1> USE DEF ShapingInv
<1>1. CASE Shaping!TopicNext
  <2>1. UNCHANGED <<decoy, decoyAges, pending>>
    BY <1>1, Zenon DEF Shaping!TopicNext, Shaping!Rotate, Shaping!CheckAndRotate, Shaping!RecordMessage
  <2>2. TopicInv'
    BY <1>1, TopicStep
  <2>3. DecoyInv' /\ JitterInv'
    BY <2>1 DEF DecoyInv, SpacedDecoys, WindowsOfDecoys, JitterInv
  <2> QED
    BY <2>2, <2>3
<1>2. CASE Shaping!DecoyNext
  <2>1. UNCHANGED <<topic, pending>>
    BY <1>2, Zenon DEF Shaping!DecoyNext, Shaping!SendDecoy, Shaping!SendNoDecoy, Shaping!SetEnabled
  <2>2. DecoyInv'
    BY <1>2, SendDecoyStep, SendNoDecoyStep, SetEnabledStep DEF Shaping!DecoyNext
  <2>3. TopicInv' /\ JitterInv'
    BY <2>1, Zenon DEF TopicInv, JitterInv
  <2> QED
    BY <2>2, <2>3
<1>3. CASE Shaping!JitterNext
  <2>1. UNCHANGED <<topic, decoy, decoyAges>>
    BY <1>3, Zenon DEF Shaping!JitterNext, Shaping!Schedule, Shaping!SendJittered
  <2>2. JitterInv'
    BY <1>3, JitterStep
  <2>3. TopicInv'
    BY <2>1, Zenon DEF TopicInv
  <2>4. DecoyInv'
    BY <2>1 DEF DecoyInv, SpacedDecoys, WindowsOfDecoys
  <2> QED
    BY <2>2, <2>3, <2>4
<1>4. CASE Shaping!Tick
  <2>1. TopicInv'
    BY <1>4, TopicTick DEF Shaping!Tick
  <2>2. DecoyInv'
    BY <1>4, DecoyTick DEF Shaping!Tick
  <2>3. JitterInv'
    BY <1>4, JitterTick DEF Shaping!Tick
  <2> QED
    BY <2>1, <2>2, <2>3
<1>5. CASE UNCHANGED shapingVars
  <2>1. UNCHANGED <<topic, decoy, decoyAges, pending>>
    BY <1>5 DEF shapingVars, Shaping!shapingVars
  <2>2. TopicInv'
    BY <2>1, Zenon DEF TopicInv
  <2>3. DecoyInv' /\ JitterInv'
    BY <2>1 DEF DecoyInv, SpacedDecoys, WindowsOfDecoys, JitterInv
  <2> QED
    BY <2>2, <2>3
<1> QED
  BY <1>1, <1>2, <1>3, <1>4, <1>5, Zenon DEF Shaping!Next

LEMMA PacedDecoys == ASSUME DecoyInv PROVE Shaping!DecoysPaced
<1> DEFINE n == Len(decoyAges)
<1>1. n \in Nat /\ decoy.minute_count \in Nat
  BY DecoyFacts
<1>2. ASSUME NEW i \in 1 .. n - 1
      PROVE  decoyAges[i + 1] - decoyAges[i] >= base_interval
  <2>1. i \in 1 .. n /\ i + 1 \in 1 .. n /\ i < i + 1
    BY <1>1
  <2> QED
    BY <2>1 DEF DecoyInv, SpacedDecoys
<1>3. n <= 2 * max_per_minute /\ decoy.minute_count <= max_per_minute
  <2>1. decoy.minute_count <= max_per_minute
    BY DEF DecoyInv, WindowsOfDecoys
  <2>2. PICK k \in 0 .. n : k <= decoy.minute_count /\ n - k <= max_per_minute
    BY DEF DecoyInv, WindowsOfDecoys
  <2> HIDE DEF n
  <2> QED
    BY <1>1, <2>1, <2>2, ShapingSizes
<1> QED
  BY <1>2, <1>3 DEF Shaping!DecoysPaced

LEMMA LocalReorder == ASSUME JitterInv PROVE Shaping!JitterReordersLocally
<1> SUFFICES ASSUME NEW i \in 1 .. Len(pending), NEW j \in 1 .. Len(pending),
                    Shaping!Due(j), ~Shaping!Due(i)
             PROVE  pending[i].age - pending[j].age < max_jitter_ms - min_jitter_ms
  BY DEF Shaping!JitterReordersLocally
<1>1. pending[i] \in Jittered /\ pending[j] \in Jittered
  BY ElementOfSeq DEF JitterInv
<1>2. /\ pending[i].age \in Nat /\ pending[i].delay \in min_jitter_ms .. max_jitter_ms - 1
      /\ pending[j].age \in Nat /\ pending[j].delay \in min_jitter_ms .. max_jitter_ms - 1
  BY <1>1 DEF Jittered
<1>3. pending[j].age >= pending[j].delay /\ ~(pending[i].age >= pending[i].delay)
  BY DEF Shaping!Due
<1> QED
  BY <1>2, <1>3, ShapingSizes

(* No topic carries more than its budget, two decoys are base_interval apart *)
(* and a minute holds those of two windows at most, and a message overtakes  *)
(* another by less than the range of the jitter (topic_rotation.rs 81-106,   *)
(* decoy.rs 73-101, tor_jitter.rs 34-63).                                    *)
THEOREM TrafficKeepsPace ==
  Shaping!Spec => [](/\ Shaping!TopicBudget /\ Shaping!DecoysPaced
                     /\ Shaping!JitterReordersLocally)
<1>1. Shaping!Init => ShapingInv
  BY ShapingStarts
<1>2. ShapingInv /\ [Shaping!Next]_shapingVars => ShapingInv'
  BY ShapingStep
<1>3. ShapingInv => /\ Shaping!TopicBudget /\ Shaping!DecoysPaced
                    /\ Shaping!JitterReordersLocally
  BY PacedDecoys, LocalReorder DEF ShapingInv, TopicInv, Shaping!TopicBudget
<1> QED
  BY <1>1, <1>2, <1>3, PTL DEF Shaping!Spec, Shaping!shapingVars, shapingVars

-----------------------------------------------------------------------------
(* The broker mesh and the receiver                                          *)

MeshStep == Next \/ StrangerArrives

Outcomes == {"idle", "publishing", "ok", "failed", "insufficient"}
Calls == [pc : Outcomes, left : SUBSET Brokers, topic : NoSlot .. MaxSlot,
          success_ids : SUBSET Brokers]

\* A call is publishing while it has brokers left.
CallInv ==
  /\ call \in [Nonces -> Calls]
  /\ \A m \in Nonces : call[m].pc = "publishing" <=> call[m].left # {}

\* The blacklist knows the rate: no low rate is off it, no high rate is on it.
JudgedBy(r) == /\ r.rate < Threshold => r.blacklisted
               /\ r.blacklisted => r.rate <= 2 * Threshold
BrokersInv ==
  /\ health \in [Brokers -> Health]
  /\ reputation \in [Brokers -> Reputation]
  /\ \A b \in Brokers : JudgedBy(reputation[b])

ReceiverInv ==
  /\ slot \in 0 .. MaxSlot
  /\ subscribed \in [ReceiveFrom -> NoSlot .. MaxSlot]
  /\ arriving \in [Nonces -> 0 .. MaxCopies]

\* What is remembered is the end of what was accepted: all of it, or more than
\* half a window.
Heard == Nonces \cup Strangers
DedupInv ==
  /\ dedup_order \in Seq(Heard) /\ accepted \in Seq(Heard)
  /\ Len(dedup_order) <= DedupWindow /\ Len(dedup_order) <= Len(accepted)
  /\ Len(dedup_order) = Len(accepted) \/ Len(dedup_order) > DedupWindow \div 2
  /\ \A i \in 1 .. Len(dedup_order) :
       dedup_order[i] = accepted[Len(accepted) - Len(dedup_order) + i]

MeshInv == CallInv /\ BrokersInv /\ ReceiverInv /\ DedupInv

LEMMA MeshSizes ==
  /\ ReceiveFrom \subseteq Brokers
  /\ BroadcastK \in Nat \ {0} /\ MaxSlot \in Nat /\ MaxCopies \in Nat
  /\ Perfect \in Nat /\ Threshold \in 1 .. Perfect
  /\ DecayBase \in Nat \ {0} /\ Decay \in 0 .. DecayBase
  /\ DedupWindow \in Nat /\ DedupWindow > 0 /\ DedupWindow % 2 = 0
BY ServiceConstants DEF MeshConstants

LEMMA Quotient ==
  ASSUME NEW x \in Nat, NEW d \in Nat \ {0}
  PROVE  /\ x \div d \in Nat
         /\ d * (x \div d) <= x /\ x < d * (x \div d) + d
OBVIOUS

LEMMA Scaled ==
  ASSUME NEW a \in Nat, NEW b \in Nat, NEW d \in Nat, a <= b
  PROVE  d * a <= d * b /\ d * a \in Nat /\ d * b \in Nat
OBVIOUS

LEMMA HalfOfWindow ==
  ASSUME NEW w \in Nat, w > 0, w % 2 = 0
  PROVE  w \div 2 \in Nat /\ w = 2 * (w \div 2) /\ w \div 2 >= 1
OBVIOUS

\* The quotient of what lies between two multiples lies between the factors.
LEMMA Between ==
  ASSUME NEW x \in Nat, NEW d \in Nat \ {0}, NEW low \in Nat, NEW high \in Nat,
         d * low <= x, x <= d * high
  PROVE  x \div d \in low .. high
<1> DEFINE q == x \div d
<1>1. q \in Nat /\ d * q <= x /\ x < d * q + d
  BY Quotient
<1> HIDE DEF q
<1>2. ASSUME q < low PROVE FALSE
  <2>1. d * (q + 1) <= d * low
    BY <1>1, <1>2, Scaled
  <2>2. d * (q + 1) = d * q + d
    BY <1>1
  <2> QED
    BY <1>1, <2>1, <2>2
<1>3. ASSUME q > high PROVE FALSE
  <2>1. d * (high + 1) <= d * q
    BY <1>1, <1>3, Scaled
  <2>2. d * (high + 1) = d * high + d
    OBVIOUS
  <2> QED
    BY <1>1, <2>1, <2>2
<1>4. q \in low .. high
  BY <1>1, <1>2, <1>3
<1> QED
  BY <1>4 DEF q

\* A success never lowers the rate, a failure never raises it.
LEMMA RateRises ==
  ASSUME NEW r \in 0 .. Perfect
  PROVE  (Decay * r + (DecayBase - Decay) * Perfect) \div DecayBase \in r .. Perfect
<1> DEFINE rest == DecayBase - Decay
           x == Decay * r + rest * Perfect
<1>1. /\ r \in Nat /\ Perfect \in Nat /\ r <= Perfect /\ Decay \in Nat /\ rest \in Nat
      /\ DecayBase = Decay + rest /\ DecayBase \in Nat \ {0}
  BY MeshSizes
<1> HIDE DEF rest
<1>2. /\ rest * r <= rest * Perfect /\ rest * r \in Nat /\ rest * Perfect \in Nat
      /\ Decay * r <= Decay * Perfect /\ Decay * r \in Nat /\ Decay * Perfect \in Nat
  BY <1>1, Scaled
<1>3. /\ DecayBase * r = Decay * r + rest * r
      /\ DecayBase * Perfect = Decay * Perfect + rest * Perfect
  BY <1>1
<1>4. x \in Nat /\ DecayBase * r <= x /\ x <= DecayBase * Perfect
  BY <1>2, <1>3
<1> HIDE DEF x
<1>5. x \div DecayBase \in r .. Perfect
  BY <1>1, <1>4, Between
<1> QED
  BY <1>5 DEF x, rest

LEMMA RateFalls ==
  ASSUME NEW r \in 0 .. Perfect
  PROVE  (Decay * r) \div DecayBase \in 0 .. r
<1> DEFINE x == Decay * r
<1>1. r \in Nat /\ Decay \in Nat /\ Decay <= DecayBase /\ DecayBase \in Nat \ {0}
  BY MeshSizes
<1>2. r * Decay <= r * DecayBase /\ r * Decay \in Nat /\ r * DecayBase \in Nat
  BY <1>1, Scaled
<1>3. r * Decay = x /\ r * DecayBase = DecayBase * r /\ DecayBase * 0 = 0
  BY <1>1
<1>4. x \in Nat /\ DecayBase * 0 <= x /\ x <= DecayBase * r
  BY <1>2, <1>3
<1> HIDE DEF x
<1>5. x \div DecayBase \in 0 .. r
  BY <1>1, <1>4, Between
<1> QED
  BY <1>5 DEF x

LEMMA SuccessJudged ==
  ASSUME NEW r \in Reputation, JudgedBy(r)
  PROVE  /\ AfterSuccess(r) \in Reputation /\ JudgedBy(AfterSuccess(r))
         /\ r.blacklisted /\ ~AfterSuccess(r).blacklisted
              => AfterSuccess(r).rate > 2 * Threshold
<1> DEFINE rate == (Decay * r.rate + (DecayBase - Decay) * Perfect) \div DecayBase
           listed == r.blacklisted /\ rate <= 2 * Threshold
           After == AfterSuccess(r)
<1>1. r.rate \in 0 .. Perfect
  BY DEF Reputation
<1>2. rate \in r.rate .. Perfect
  BY <1>1, RateRises
<1>3. After = [rate |-> rate, blacklisted |-> listed]
  BY DEF AfterSuccess
<1>4. listed \in BOOLEAN
  BY Zenon
<1>5. listed <=> r.blacklisted /\ rate <= 2 * Threshold
  OBVIOUS
<1> HIDE DEF rate, listed, After
<1>6. After.rate = rate /\ After.blacklisted = listed
  BY <1>3, Zenon
<1>7. rate \in 0 .. Perfect
  BY <1>1, <1>2, MeshSizes
<1>8. After \in Reputation
  BY <1>3, <1>4, <1>7 DEF Reputation
<1>9. /\ r.rate \in Int /\ rate \in Int /\ r.rate <= rate
      /\ Threshold \in Int /\ Threshold >= 1
  BY <1>1, <1>2, MeshSizes
<1>10. ASSUME rate < Threshold PROVE listed
  <2>1. r.rate < Threshold /\ rate <= 2 * Threshold
    BY <1>9, <1>10
  <2> QED
    BY <1>5, <2>1, Zenon DEF JudgedBy
<1>11. JudgedBy(After)
  BY <1>5, <1>6, <1>10, Zenon DEF JudgedBy
<1>12. r.blacklisted /\ ~listed => rate > 2 * Threshold
  <2>1. ~(rate <= 2 * Threshold) => rate > 2 * Threshold
    BY <1>9
  <2> QED
    BY <1>5, <2>1, Zenon
<1> QED
  BY <1>6, <1>8, <1>11, <1>12, Zenon DEF After

LEMMA FailureJudged ==
  ASSUME NEW r \in Reputation, JudgedBy(r)
  PROVE  /\ AfterFailure(r) \in Reputation /\ JudgedBy(AfterFailure(r))
         /\ r.blacklisted => AfterFailure(r).blacklisted
<1> DEFINE rate == (Decay * r.rate) \div DecayBase
           listed == r.blacklisted \/ rate < Threshold
           After == AfterFailure(r)
<1>1. r.rate \in 0 .. Perfect
  BY DEF Reputation
<1>2. rate \in 0 .. r.rate
  BY <1>1, RateFalls
<1>3. After = [rate |-> rate, blacklisted |-> listed]
  BY DEF AfterFailure
<1>4. listed \in BOOLEAN
  BY Zenon
<1>5. listed <=> r.blacklisted \/ rate < Threshold
  OBVIOUS
<1> HIDE DEF rate, listed, After
<1>6. After.rate = rate /\ After.blacklisted = listed
  BY <1>3, Zenon
<1>7. rate \in 0 .. Perfect
  BY <1>1, <1>2, MeshSizes
<1>8. After \in Reputation
  BY <1>3, <1>4, <1>7 DEF Reputation
<1>9. /\ r.rate \in Int /\ rate \in Int /\ rate <= r.rate
      /\ Threshold \in Int /\ Threshold >= 1
  BY <1>1, <1>2, MeshSizes
<1>10. /\ r.rate <= 2 * Threshold => rate <= 2 * Threshold
       /\ rate < Threshold => rate <= 2 * Threshold
  BY <1>9
<1>11. JudgedBy(After)
  BY <1>5, <1>6, <1>10, Zenon DEF JudgedBy
<1> QED
  BY <1>5, <1>6, <1>8, <1>11, Zenon DEF After

\* What select_targets may choose, and that it chooses someone.
LEMMA TargetsLemma ==
  ASSUME NEW T \in Selections
  PROVE  T \subseteq Eligible /\ T \subseteq Brokers /\ T # {}
<1>1. T \subseteq Pool /\ Cardinality(T) = BroadcastK
  BY DEF Selections
<1>2. T \subseteq Eligible /\ T \subseteq Brokers
  BY <1>1 DEF Pool, Eligible
<1>3. T # {}
  BY <1>1, FS_EmptySet, MeshSizes
<1> QED
  BY <1>2, <1>3

\* Half the window is left when it was full.
LEMMA EvictedLemma ==
  ASSUME NEW s \in Seq(Heard), Len(s) <= DedupWindow
  PROVE  LET e == Evicted(s) IN
         /\ e \in Seq(Heard) /\ Len(e) < DedupWindow /\ Len(e) <= Len(s)
         /\ Len(e) = Len(s) \/ Len(e) >= DedupWindow \div 2
         /\ \A i \in 1 .. Len(e) : e[i] = s[Len(s) - Len(e) + i]
<1> DEFINE half == DedupWindow \div 2
           e == Evicted(s)
<1>1. half \in Nat /\ DedupWindow = 2 * half /\ half >= 1
  BY MeshSizes, HalfOfWindow
<1> HIDE DEF half
<1>2. Len(s) \in Nat
  BY LenProperties
<1>3. CASE Len(s) < DedupWindow
  <2>1. e = s
    BY <1>3 DEF Evicted
  <2> HIDE DEF e
  <2>2. \A i \in 1 .. Len(e) : e[i] = s[Len(s) - Len(e) + i]
    BY <1>2, <2>1
  <2>3. e \in Seq(Heard) /\ Len(e) < DedupWindow /\ Len(e) = Len(s)
    BY <1>3, <2>1
  <2> QED
    BY <1>2, <2>2, <2>3 DEF e
<1>4. CASE ~(Len(s) < DedupWindow)
  <2>1. e = SubSeq(s, half + 1, Len(s))
    BY <1>4 DEF Evicted, half
  <2>2. Len(s) = 2 * half
    BY <1>1, <1>2, <1>4
  <2>3. \A i \in half + 1 .. Len(s) : s[i] \in Heard
    BY <1>1, <1>2, ElementOfSeq
  <2> HIDE DEF e
  <2>4. /\ e \in Seq(Heard)
        /\ Len(e) = IF half + 1 <= Len(s) THEN Len(s) - (half + 1) + 1 ELSE 0
        /\ \A i \in 1 .. Len(s) - (half + 1) + 1 : e[i] = s[(half + 1) + i - 1]
    BY <1>1, <1>2, <2>1, <2>3, SubSeqProperties
  <2>5. Len(e) = half
    BY <1>1, <2>2, <2>4
  <2>6. \A i \in 1 .. Len(e) : e[i] = s[Len(s) - Len(e) + i]
    BY <1>1, <2>2, <2>4, <2>5
  <2>7. Len(e) < DedupWindow /\ Len(e) <= Len(s) /\ Len(e) >= half
    BY <1>1, <2>2, <2>5
  <2> QED
    BY <2>4, <2>6, <2>7 DEF e, half
<1> QED
  BY <1>3, <1>4

LEMMA RecordedStep ==
  ASSUME DedupInv, NEW n \in Heard, Recorded(n)
  PROVE  DedupInv'
<1> DEFINE half == DedupWindow \div 2
           s == dedup_order
           e == Evicted(dedup_order)
           a == accepted
<1>1. dedup_order' = Append(e, n) /\ accepted' = Append(a, n)
  BY DEF Recorded
<1>2. /\ s \in Seq(Heard) /\ a \in Seq(Heard)
      /\ Len(s) <= DedupWindow /\ Len(s) <= Len(a)
      /\ Len(s) = Len(a) \/ Len(s) > half
      /\ \A i \in 1 .. Len(s) : s[i] = a[Len(a) - Len(s) + i]
  BY DEF DedupInv
<1>3. /\ e \in Seq(Heard) /\ Len(e) < DedupWindow /\ Len(e) <= Len(s)
      /\ Len(e) = Len(s) \/ Len(e) >= half
      /\ \A i \in 1 .. Len(e) : e[i] = s[Len(s) - Len(e) + i]
  BY <1>2, EvictedLemma
<1>4. half \in Nat /\ DedupWindow \in Nat
  BY MeshSizes, HalfOfWindow
<1>5. Len(s) \in Nat /\ Len(e) \in Nat /\ Len(a) \in Nat
  BY <1>2, <1>3, LenProperties
<1>6. /\ Append(e, n) \in Seq(Heard) /\ Len(Append(e, n)) = Len(e) + 1
      /\ \A i \in 1 .. Len(e) : Append(e, n)[i] = e[i]
      /\ Append(e, n)[Len(e) + 1] = n
  BY <1>3, AppendProperties
<1>7. /\ Append(a, n) \in Seq(Heard) /\ Len(Append(a, n)) = Len(a) + 1
      /\ \A i \in 1 .. Len(a) : Append(a, n)[i] = a[i]
      /\ Append(a, n)[Len(a) + 1] = n
  BY <1>2, AppendProperties
<1>8. /\ dedup_order' \in Seq(Heard) /\ Len(dedup_order') = Len(e) + 1
      /\ accepted' \in Seq(Heard) /\ Len(accepted') = Len(a) + 1
  BY <1>1, <1>6, <1>7
<1>9. /\ \A i \in 1 .. Len(e) : dedup_order'[i] = e[i]
      /\ dedup_order'[Len(e) + 1] = n
      /\ \A i \in 1 .. Len(a) : accepted'[i] = a[i]
      /\ accepted'[Len(a) + 1] = n
  BY <1>1, <1>6, <1>7
<1>10. /\ Len(e) + 1 <= DedupWindow /\ Len(e) + 1 <= Len(a) + 1
       /\ Len(e) + 1 = Len(a) + 1 \/ Len(e) + 1 > half
  <2> HIDE DEF e, s, a, half
  <2> QED
    BY <1>2, <1>3, <1>4, <1>5
<1>11. ASSUME NEW i \in 1 .. Len(e) + 1
       PROVE  dedup_order'[i] = accepted'[(Len(a) + 1) - (Len(e) + 1) + i]
  <2> HIDE DEF e, s, a, half
  <2>1. CASE i = Len(e) + 1
    <3>1. (Len(a) + 1) - (Len(e) + 1) + i = Len(a) + 1
      BY <1>5, <2>1
    <3> QED
      BY <1>9, <2>1, <3>1
  <2>2. CASE i # Len(e) + 1
    <3>1. i \in 1 .. Len(e) /\ Len(s) - Len(e) + i \in 1 .. Len(s)
      BY <1>3, <1>5, <2>2
    <3> DEFINE j == Len(s) - Len(e) + i
               k == Len(a) - Len(s) + j
    <3>2. e[i] = s[j] /\ s[j] = a[k]
      BY <1>2, <1>3, <3>1
    <3>3. k \in 1 .. Len(a) /\ k = (Len(a) + 1) - (Len(e) + 1) + i
      BY <1>2, <1>5, <3>1
    <3> HIDE DEF j, k
    <3> QED
      BY <1>9, <3>1, <3>2, <3>3
  <2> QED
    BY <2>1, <2>2
<1> HIDE DEF e, s, a
<1> QED
  BY <1>8, <1>10, <1>11 DEF DedupInv, half

LEMMA DedupRemembers == ASSUME DedupInv PROVE RemembersRecent
<1> DEFINE half == DedupWindow \div 2
           o == Len(dedup_order)
           a == Len(accepted)
<1>1. half \in Nat /\ o \in Nat /\ a \in Nat /\ DOMAIN dedup_order = 1 .. o
  BY MeshSizes, HalfOfWindow, LenProperties DEF DedupInv
<1>2. o <= a /\ (o = a \/ o > half)
      /\ \A i \in 1 .. o : dedup_order[i] = accepted[a - o + i]
  BY DEF DedupInv
<1>3. ASSUME NEW i \in 1 .. a, i >= a - half
      PROVE  accepted[i] \in dedup_set
  <2> DEFINE j == i - (a - o)
  <2> HIDE DEF half, a, o
  <2>1. j \in 1 .. o /\ i = a - o + j
    BY <1>1, <1>2, <1>3
  <2> HIDE DEF j
  <2>2. dedup_order[j] = accepted[i]
    BY <1>2, <2>1
  <2> QED
    BY <1>1, <2>1, <2>2 DEF dedup_set, ToSet
<1> QED
  BY <1>3 DEF RemembersRecent

\* A call that goes on has brokers left, and one that has none has ended.
LEMMA ContinuedLemma ==
  ASSUME NEW c \in Calls, NEW b \in Brokers, NEW won \in SUBSET Brokers,
         c.pc = "publishing"
  PROVE  LET d == Continued([c EXCEPT !.left = c.left \ {b}, !.success_ids = won]) IN
         /\ d \in Calls /\ d.pc # "idle"
         /\ d.pc = "publishing" <=> d.left # {}
<1> DEFINE left == c.left \ {b}
           e == [c EXCEPT !.left = left, !.success_ids = won]
           d == Continued(e)
<1>1. left \in SUBSET Brokers
  BY DEF Calls
<1> HIDE DEF left
<1>2. e \in Calls /\ e.left = left /\ e.pc = "publishing"
  BY <1>1 DEF Calls
<1> HIDE DEF e
<1>3. CASE e.left # {}
  <2>1. d = e
    BY <1>3 DEF Continued
  <2> HIDE DEF d
  <2>2. d \in Calls /\ d.pc = "publishing" /\ d.left # {}
    BY <1>2, <1>3, <2>1
  <2> QED
    BY <2>2 DEF d, e, left
<1>4. CASE e.left = {}
  <2>1. PICK pc \in {"failed", "ok"} : d = [Idle EXCEPT !.pc = pc]
    BY <1>4 DEF Continued
  <2>2. Idle.left = {} /\ Idle \in Calls
    BY MeshSizes DEF Idle, Calls, Outcomes, NoSlot
  <2> HIDE DEF d
  <2>3. d \in Calls /\ d.pc = pc /\ d.left = {}
    BY <2>1, <2>2 DEF Calls, Outcomes
  <2> QED
    BY <2>1, <2>3 DEF d, e, left
<1> QED
  BY <1>3, <1>4 DEF e, left

LEMMA BroadcastStep ==
  ASSUME MeshInv, NEW m \in Nonces, BeginBroadcast(m) \/ InsufficientBrokers(m)
  PROVE  CallInv'
<1>1. call \in [Nonces -> Calls] /\ call[m] \in Calls /\ slot \in 0 .. MaxSlot
  BY DEF MeshInv, CallInv, ReceiverInv
<1>2. CASE BeginBroadcast(m)
  <2>1. PICK T \in Selections :
          call' = [call EXCEPT ![m] = [pc |-> "publishing", left |-> T, topic |-> slot,
                                       success_ids |-> {}]]
    BY <1>2 DEF BeginBroadcast
  <2>2. T \subseteq Brokers /\ T # {}
    BY TargetsLemma
  <2>3. slot \in NoSlot .. MaxSlot
    BY <1>1, MeshSizes DEF NoSlot
  <2> DEFINE c == [pc |-> "publishing", left |-> T, topic |-> slot, success_ids |-> {}]
  <2>4. c \in Calls /\ c.pc = "publishing" /\ c.left # {}
    BY <2>2, <2>3 DEF Calls, Outcomes
  <2>5. call' = [call EXCEPT ![m] = c]
    BY <2>1
  <2> HIDE DEF c
  <2> QED
    BY <1>1, <2>4, <2>5 DEF MeshInv, CallInv
<1>3. CASE InsufficientBrokers(m)
  <2>1. call' = [call EXCEPT ![m].pc = "insufficient"] /\ call[m].pc = "idle"
    BY <1>3 DEF InsufficientBrokers
  <2> DEFINE c == [call[m] EXCEPT !.pc = "insufficient"]
  <2>2. c \in Calls /\ c.pc = "insufficient" /\ c.left = call[m].left
    BY <1>1 DEF Calls, Outcomes
  <2>3. call[m].left = {}
    BY <2>1 DEF MeshInv, CallInv
  <2>4. call' = [call EXCEPT ![m] = c]
    BY <2>1
  <2> HIDE DEF c
  <2> QED
    BY <1>1, <2>2, <2>3, <2>4 DEF MeshInv, CallInv
<1> QED
  BY <1>2, <1>3

LEMMA PublishStep ==
  ASSUME MeshInv, NEW m \in Nonces, NEW b \in Brokers,
         PublishQueued(m, b) \/ PublishFails(m, b)
  PROVE  /\ CallInv' /\ call'[m].pc # "idle" /\ \A k \in Nonces : k # m => call'[k] = call[k]
         /\ health' \in [Brokers -> Health] /\ arriving' \in [Nonces -> 0 .. MaxCopies]
<1>1. call \in [Nonces -> Calls] /\ call[m] \in Calls
  BY DEF MeshInv, CallInv
<1>2. call[m].left # {} /\ call[m].pc = "publishing"
  BY DEF PublishQueued, PublishFails, MeshInv, CallInv
<1>3. PICK won \in SUBSET Brokers :
        call' = [call EXCEPT ![m] = Continued([call[m] EXCEPT !.left = call[m].left \ {b},
                                                              !.success_ids = won])]
  <2>1. call[m].success_ids \in SUBSET Brokers
    BY <1>1 DEF Calls
  <2>2. CASE PublishQueued(m, b)
    <3>1. call' = [call EXCEPT ![m] = Continued([call[m] EXCEPT !.left = call[m].left \ {b},
                                         !.success_ids = call[m].success_ids \cup {b}])]
      BY <2>2 DEF PublishQueued
    <3>2. call[m].success_ids \cup {b} \in SUBSET Brokers
      BY <2>1
    <3> QED
      BY <3>1, <3>2
  <2>3. CASE PublishFails(m, b)
    <3>1. call' = [call EXCEPT ![m] = Continued([call[m] EXCEPT !.left = call[m].left \ {b}])]
      BY <2>3 DEF PublishFails
    <3>2. [call[m] EXCEPT !.left = call[m].left \ {b}]
            = [call[m] EXCEPT !.left = call[m].left \ {b},
                              !.success_ids = call[m].success_ids]
      BY <1>1 DEF Calls
    <3> QED
      BY <2>1, <3>1, <3>2
  <2> QED
    BY <2>2, <2>3
<1> DEFINE d == Continued([call[m] EXCEPT !.left = call[m].left \ {b}, !.success_ids = won])
<1>4. d \in Calls /\ d.pc # "idle" /\ (d.pc = "publishing" <=> d.left # {})
  BY <1>1, <1>2, ContinuedLemma
<1>5. call' = [call EXCEPT ![m] = d]
  BY <1>3
<1> HIDE DEF d
<1>6. CallInv'
  BY <1>1, <1>4, <1>5 DEF MeshInv, CallInv
<1>7. call'[m].pc # "idle" /\ \A k \in Nonces : k # m => call'[k] = call[k]
  BY <1>1, <1>4, <1>5
<1>8. health' \in [Brokers -> Health]
  BY DEF MeshInv, BrokersInv, PublishQueued, PublishFails, Health
<1>9. arriving' \in [Nonces -> 0 .. MaxCopies]
  <2>1. arriving \in [Nonces -> 0 .. MaxCopies]
    BY DEF MeshInv, ReceiverInv
  <2>2. CASE PublishQueued(m, b)
    <3>1. PICK n \in Forwarded(m, b) : arriving' = [arriving EXCEPT ![m] = arriving[m] + n]
      BY <2>2 DEF PublishQueued
    <3>2. arriving[m] + n \in 0 .. MaxCopies
      BY <2>1, <3>1, MeshSizes DEF Forwarded
    <3> QED
      BY <2>1, <3>1, <3>2
  <2>3. CASE PublishFails(m, b)
    BY <2>1, <2>3 DEF PublishFails
  <2> QED
    BY <2>2, <2>3
<1> QED
  BY <1>6, <1>7, <1>8, <1>9

LEMMA ReportStep ==
  ASSUME MeshInv, NEW b \in Brokers, Report(b)
  PROVE  /\ BrokersInv'
         /\ \A k \in Brokers : reputation[k].blacklisted /\ ~reputation'[k].blacklisted
              => reputation'[k].rate > 2 * Threshold
<1>1. /\ reputation \in [Brokers -> Reputation] /\ reputation[b] \in Reputation
      /\ JudgedBy(reputation[b])
  BY DEF MeshInv, BrokersInv
<1>2. PICK After \in {AfterSuccess(reputation[b]), AfterFailure(reputation[b])} :
        reputation' = [reputation EXCEPT ![b] = After]
  BY DEF Report
<1>3. /\ After \in Reputation /\ JudgedBy(After)
      /\ reputation[b].blacklisted /\ ~After.blacklisted => After.rate > 2 * Threshold
  <2>1. CASE After = AfterSuccess(reputation[b])
    BY <1>1, <2>1, SuccessJudged, Zenon
  <2>2. CASE After = AfterFailure(reputation[b])
    BY <1>1, <2>2, FailureJudged, Zenon
  <2> QED
    BY <1>2, <2>1, <2>2
<1>4. /\ reputation' \in [Brokers -> Reputation] /\ reputation'[b] = After
      /\ \A k \in Brokers : k # b => reputation'[k] = reputation[k]
  BY <1>1, <1>2, <1>3
<1>5. \A k \in Brokers : JudgedBy(reputation[k])
  BY DEF MeshInv, BrokersInv
<1>6. \A k \in Brokers : JudgedBy(reputation'[k])
  BY <1>3, <1>4, <1>5, Zenon
<1>7. \A k \in Brokers : reputation[k].blacklisted /\ ~reputation'[k].blacklisted
              => reputation'[k].rate > 2 * Threshold
  BY <1>3, <1>4, Zenon
<1>8. BrokersInv'
  BY <1>4, <1>6 DEF MeshInv, BrokersInv, Report, JudgedBy
<1> QED
  BY <1>7, <1>8

\* What a step of the mesh may do to the brokers that are chosen and judged.
MeshPromise ==
  /\ \A m \in Nonces : call'[m].pc = "publishing" /\ call[m].pc = "idle" =>
       \A b \in call'[m].left : reputation[b].rate >= Threshold
  /\ \A b \in Brokers :
       reputation[b].blacklisted /\ ~reputation'[b].blacklisted
         => reputation'[b].rate > 2 * Threshold

\* A call that is not at its beginning chooses nobody, and nobody is pardoned
\* while nothing is reported.
LEMMA NobodyJudged ==
  ASSUME reputation' = reputation
  PROVE  \A b \in Brokers : reputation[b].blacklisted /\ ~reputation'[b].blacklisted
           => reputation'[b].rate > 2 * Threshold
BY Zenon

LEMMA ChosenWell ==
  ASSUME MeshInv, NEW m \in Nonces, BeginBroadcast(m)
  PROVE  \A k \in Nonces : call'[k].pc = "publishing" /\ call[k].pc = "idle" =>
           \A b \in call'[k].left : reputation[b].rate >= Threshold
<1>1. call \in [Nonces -> Calls]
  BY DEF MeshInv, CallInv
<1>2. PICK T \in Selections :
          call' = [call EXCEPT ![m] = [pc |-> "publishing", left |-> T, topic |-> slot,
                                       success_ids |-> {}]]
  BY DEF BeginBroadcast
<1>3. T \subseteq Eligible
  BY TargetsLemma
<1>4. ASSUME NEW b \in T PROVE reputation[b].rate >= Threshold
  <2>1. b \in Brokers /\ ~reputation[b].blacklisted
    BY <1>3 DEF Eligible
  <2>2. ~(reputation[b].rate < Threshold)
    BY <2>1, Zenon DEF MeshInv, BrokersInv, JudgedBy
  <2>3. reputation[b].rate \in 0 .. Perfect
    BY <2>1 DEF MeshInv, BrokersInv, Reputation
  <2> QED
    BY <2>2, <2>3, MeshSizes
<1>5. call'[m].left = T /\ \A k \in Nonces : k # m => call'[k] = call[k]
  BY <1>1, <1>2
<1> QED
  BY <1>4, <1>5

LEMMA MeshInvStep ==
  ASSUME MeshInv, MeshStep \/ UNCHANGED vars
  PROVE  MeshInv' /\ MeshPromise
<1> USE DEF MeshInv
<1>1. ASSUME NEW m \in Nonces, BeginBroadcast(m) \/ InsufficientBrokers(m)
      PROVE  MeshInv' /\ MeshPromise
  <2>1. UNCHANGED <<health, reputation, slot, subscribed, arriving, reports, dedup_order, accepted>>
    BY <1>1, Zenon DEF BeginBroadcast, InsufficientBrokers, dedupVars
  <2>2. CallInv'
    BY <1>1, BroadcastStep
  <2>3. BrokersInv' /\ ReceiverInv' /\ DedupInv'
    BY <2>1 DEF BrokersInv, ReceiverInv, DedupInv, JudgedBy
  <2>4. \A k \in Nonces : call'[k].pc = "publishing" /\ call[k].pc = "idle" =>
           \A b \in call'[k].left : reputation[b].rate >= Threshold
    <3>1. CASE InsufficientBrokers(m)
      <4>1. call \in [Nonces -> Calls]
        BY DEF CallInv
      <4>2. call' = [call EXCEPT ![m].pc = "insufficient"]
        BY <3>1 DEF InsufficientBrokers
      <4>3. call'[m].pc = "insufficient" /\ \A k \in Nonces : k # m => call'[k] = call[k]
        BY <4>1, <4>2 DEF Calls
      <4> QED
        BY <4>3
    <3> QED
      BY <1>1, <3>1, ChosenWell
  <2> QED
    BY <2>1, <2>2, <2>3, <2>4, NobodyJudged DEF MeshPromise
<1>2. ASSUME NEW m \in Nonces, NEW b \in Brokers, PublishQueued(m, b) \/ PublishFails(m, b)
      PROVE  MeshInv' /\ MeshPromise
  <2>1. UNCHANGED <<reputation, slot, subscribed, reports, dedup_order, accepted>>
    BY <1>2, Zenon DEF PublishQueued, PublishFails, dedupVars
  <2>2. /\ CallInv' /\ call'[m].pc # "idle" /\ \A k \in Nonces : k # m => call'[k] = call[k]
        /\ health' \in [Brokers -> Health] /\ arriving' \in [Nonces -> 0 .. MaxCopies]
    BY <1>2, PublishStep
  <2>3. BrokersInv' /\ ReceiverInv' /\ DedupInv'
    BY <2>1, <2>2 DEF BrokersInv, ReceiverInv, DedupInv, JudgedBy
  <2>4. call[m].pc = "publishing"
    BY <1>2 DEF CallInv, PublishQueued, PublishFails
  <2>5. \A k \in Nonces : ~(call'[k].pc = "publishing" /\ call[k].pc = "idle")
    BY <2>2, <2>4
  <2> QED
    BY <2>1, <2>2, <2>3, <2>5, NobodyJudged DEF MeshPromise
<1>3. ASSUME NEW n \in Heard, Recorded(n) \/ SeenBefore(n) PROVE DedupInv'
  <2>1. CASE Recorded(n)
    BY <2>1, RecordedStep
  <2>2. CASE SeenBefore(n)
    BY <2>2 DEF SeenBefore, dedupVars, DedupInv
  <2> QED
    BY <1>3, <2>1, <2>2
<1>4. ASSUME UNCHANGED <<call, reputation>> PROVE MeshPromise
  BY <1>4, NobodyJudged DEF MeshPromise
<1>5. ASSUME NEW m \in Nonces, Arrive(m) PROVE MeshInv' /\ MeshPromise
  <2>1. UNCHANGED <<health, reputation, slot, call, subscribed, reports>>
    BY <1>5, Zenon DEF Arrive
  <2>2. DedupInv'
    BY <1>3, <1>5 DEF Arrive, Heard
  <2>3. arriving' \in [Nonces -> 0 .. MaxCopies]
    BY <1>5, MeshSizes DEF Arrive, ReceiverInv
  <2>4. CallInv' /\ BrokersInv' /\ ReceiverInv'
    BY <2>1, <2>3 DEF CallInv, BrokersInv, ReceiverInv, JudgedBy
  <2> QED
    BY <1>4, <2>1, <2>2, <2>4
<1>6. ASSUME NEW b \in ReceiveFrom, Subscribe(b) PROVE MeshInv' /\ MeshPromise
  <2>1. UNCHANGED <<health, reputation, slot, call, arriving, reports, dedup_order, accepted>>
    BY <1>6, Zenon DEF Subscribe, dedupVars
  <2>2. slot \in NoSlot .. MaxSlot
    BY MeshSizes DEF ReceiverInv, NoSlot
  <2>3. subscribed' \in [ReceiveFrom -> NoSlot .. MaxSlot]
    BY <1>6, <2>2 DEF Subscribe, ReceiverInv
  <2>4. CallInv' /\ BrokersInv' /\ ReceiverInv' /\ DedupInv'
    BY <2>1, <2>3 DEF CallInv, BrokersInv, ReceiverInv, DedupInv, JudgedBy
  <2> QED
    BY <1>4, <2>1, <2>4
<1>7. ASSUME NEW b \in Brokers, SetAlive(b) PROVE MeshInv' /\ MeshPromise
  <2>1. UNCHANGED <<reputation, slot, call, subscribed, arriving, reports, dedup_order, accepted>>
    BY <1>7, Zenon DEF SetAlive, dedupVars
  <2>2. health' \in [Brokers -> Health]
    BY <1>7 DEF SetAlive, BrokersInv, Health
  <2>3. CallInv' /\ BrokersInv' /\ ReceiverInv' /\ DedupInv'
    BY <2>1, <2>2 DEF CallInv, BrokersInv, ReceiverInv, DedupInv, JudgedBy
  <2> QED
    BY <1>4, <2>1, <2>3
<1>8. ASSUME NEW b \in Brokers, Report(b) PROVE MeshInv' /\ MeshPromise
  <2>1. UNCHANGED <<health, slot, call, subscribed, arriving, dedup_order, accepted>>
    BY <1>8, Zenon DEF Report, dedupVars
  <2>2. /\ BrokersInv'
        /\ \A k \in Brokers : reputation[k].blacklisted /\ ~reputation'[k].blacklisted
             => reputation'[k].rate > 2 * Threshold
    BY <1>8, ReportStep
  <2>3. CallInv' /\ ReceiverInv' /\ DedupInv'
    BY <2>1 DEF CallInv, ReceiverInv, DedupInv
  <2> QED
    BY <2>1, <2>2, <2>3 DEF MeshPromise
<1>9. CASE NextSlot
  <2>1. UNCHANGED <<health, reputation, call, subscribed, arriving, reports, dedup_order, accepted>>
    BY <1>9, Zenon DEF NextSlot, dedupVars
  <2>2. slot' \in 0 .. MaxSlot
    BY <1>9, MeshSizes DEF NextSlot, ReceiverInv
  <2>3. CallInv' /\ BrokersInv' /\ ReceiverInv' /\ DedupInv'
    BY <2>1, <2>2 DEF CallInv, BrokersInv, ReceiverInv, DedupInv, JudgedBy
  <2> QED
    BY <1>4, <2>1, <2>3
<1>10. CASE StrangerArrives
  <2>1. UNCHANGED <<health, reputation, slot, call, subscribed, arriving, reports>>
    BY <1>10 DEF StrangerArrives, meshVars
  <2>2. DedupInv'
    BY <1>3, <1>10 DEF StrangerArrives, Heard
  <2>3. CallInv' /\ BrokersInv' /\ ReceiverInv'
    BY <2>1 DEF CallInv, BrokersInv, ReceiverInv, JudgedBy
  <2> QED
    BY <1>4, <2>1, <2>2, <2>3
<1>11. CASE UNCHANGED vars
  <2>1. UNCHANGED <<health, reputation, slot, call, subscribed, arriving, reports, dedup_order, accepted>>
    BY <1>11 DEF vars, meshVars, dedupVars
  <2>2. CallInv' /\ BrokersInv' /\ ReceiverInv' /\ DedupInv'
    BY <2>1 DEF CallInv, BrokersInv, ReceiverInv, DedupInv, JudgedBy
  <2> QED
    BY <1>4, <2>1, <2>2
<1> HIDE DEF MeshInv
<1> QED
  BY <1>1, <1>2, <1>5, <1>6, <1>7, <1>8, <1>9, <1>10, <1>11, Zenon DEF MeshStep, Next, Publish

LEMMA MeshStarts == ASSUME Init PROVE MeshInv
<1>1. CallInv
  <2>1. Idle \in Calls /\ Idle.pc = "idle" /\ Idle.left = {}
    BY MeshSizes DEF Idle, Calls, Outcomes, NoSlot
  <2> QED
    BY <2>1 DEF Init, CallInv
<1>2. BrokersInv
  <2>1. NewReputation \in Reputation /\ NewReputation.rate = Perfect
        /\ NewReputation.blacklisted = FALSE
    BY MeshSizes DEF NewReputation, Reputation
  <2>2. ~(NewReputation.rate < Threshold)
    BY <2>1, MeshSizes
  <2>3. JudgedBy(NewReputation)
    BY <2>1, <2>2, Zenon DEF JudgedBy
  <2> QED
    BY <2>1, <2>3 DEF Init, BrokersInv, Health
<1>3. ReceiverInv
  BY MeshSizes DEF Init, ReceiverInv, NoSlot
<1>4. DedupInv
  <2>1. dedup_order = <<>> /\ accepted = <<>>
    BY DEF Init, DedupInit
  <2>2. /\ dedup_order \in Seq(Heard) /\ accepted \in Seq(Heard)
        /\ Len(dedup_order) = 0 /\ Len(accepted) = 0
    BY <2>1
  <2> QED
    BY <2>2, MeshSizes DEF DedupInv
<1> QED
  BY <1>1, <1>2, <1>3, <1>4 DEF MeshInv

LEMMA MeshTyped == ASSUME MeshInv PROVE TypeOK /\ LowRatedNotChosen
<1>1. ASSUME NEW m \in Nonces
      PROVE  /\ call[m].pc \in Outcomes /\ call[m].left \cup call[m].success_ids \subseteq Brokers
             /\ call[m].pc = "publishing" <=> call[m].left # {}
  <2>1. call[m] \in Calls
    BY DEF MeshInv, CallInv
  <2> QED
    BY <2>1 DEF MeshInv, CallInv, Calls
<1>2. TypeOK
  BY <1>1 DEF TypeOK, MeshInv, BrokersInv, ReceiverInv, Outcomes
<1>3. LowRatedNotChosen
  BY Zenon DEF LowRatedNotChosen, MeshInv, BrokersInv, JudgedBy, Eligible
<1> QED
  BY <1>2, <1>3

(* A mesh whose receiver also hears strangers: its state is typed, a broker  *)
(* whose rate is low is left out until the rate is high again, and the       *)
(* receiver remembers the nonces of the last half window (hydra.rs 146-165,  *)
(* 268-307, 340-360).                                                       *)
THEOREM MeshKeepsItsWord ==
  Init /\ [][MeshStep]_vars
    => [](TypeOK /\ RemembersRecent) /\ []LowRatedNotChosen /\ ChosenAreEligible
<1>1. Init => MeshInv
  BY MeshStarts
<1>2. MeshInv /\ [MeshStep]_vars => MeshInv' /\ MeshPromise
  BY MeshInvStep
<1>3. MeshInv => TypeOK /\ RemembersRecent /\ LowRatedNotChosen
  BY MeshTyped, DedupRemembers DEF MeshInv
<1>4. MeshPromise <=>
        /\ \A m \in Nonces : call'[m].pc = "publishing" /\ call[m].pc = "idle" =>
             \A b \in call'[m].left : reputation[b].rate >= Threshold
        /\ \A b \in Brokers :
             /\ reputation[b].blacklisted
             /\ ~reputation'[b].blacklisted
             => reputation'[b].rate > 2 * Threshold
  BY Zenon DEF MeshPromise
<1> QED
  BY <1>1, <1>2, <1>3, <1>4, PTL DEF ChosenAreEligible

-----------------------------------------------------------------------------
(* The services together: each step is one of one service, or none of it.    *)
LEMMA MeshServes == ServicesSpec => Init /\ [][MeshStep]_vars
<1>1. ServicesInit => Init
  BY Zenon DEF ServicesInit
<1>2. [ServicesNext]_allVars => [MeshStep]_vars
  <2>1. SUFFICES ASSUME [ServicesNext]_allVars PROVE [MeshStep]_vars
    OBVIOUS
  <2>2. MeshStep \/ UNCHANGED vars
    BY <2>1, Zenon DEF ServicesNext, allVars, MeshStep
  <2> QED
    BY <2>2, Zenon
<1> QED
  BY <1>1, <1>2, PTL DEF ServicesSpec

LEMMA GhostServes == ServicesSpec => Links!GhostSpec
<1>1. ServicesInit => Links!GhostInit
  BY Zenon DEF ServicesInit
<1>2. [ServicesNext]_allVars => [Links!GhostNext]_(Links!ghostVars)
  <2>1. SUFFICES ASSUME [ServicesNext]_allVars PROVE [Links!GhostNext]_(Links!ghostVars)
    OBVIOUS
  <2>2. Links!GhostNext \/ UNCHANGED ghostVars
    BY <2>1, Zenon DEF ServicesNext, allVars
  <2>3. UNCHANGED ghostVars => UNCHANGED Links!ghostVars
    BY DEF ghostVars, Links!ghostVars
  <2> QED
    BY <2>2, <2>3, Zenon
<1> QED
  BY <1>1, <1>2, PTL DEF ServicesSpec, Links!GhostSpec

LEMMA FallbackServes == ServicesSpec => Links!FallbackSpec
<1>1. ServicesInit => Links!FallbackInit
  BY Zenon DEF ServicesInit
<1>2. [ServicesNext]_allVars => [Links!FallbackNext]_(Links!fallbackVars)
  <2>1. SUFFICES ASSUME [ServicesNext]_allVars PROVE [Links!FallbackNext]_(Links!fallbackVars)
    OBVIOUS
  <2>2. Links!FallbackNext \/ UNCHANGED fallbackVars
    BY <2>1, Zenon DEF ServicesNext, allVars
  <2>3. UNCHANGED fallbackVars => UNCHANGED Links!fallbackVars
    BY DEF fallbackVars, Links!fallbackVars
  <2> QED
    BY <2>2, <2>3, Zenon
<1> QED
  BY <1>1, <1>2, PTL DEF ServicesSpec, Links!FallbackSpec

LEMMA ChatServes == ServicesSpec => Chat!Spec
<1>1. ServicesInit => Chat!Init
  BY Zenon DEF ServicesInit
<1>2. [ServicesNext]_allVars => [Chat!Next]_(Chat!messagingVars)
  <2>1. SUFFICES ASSUME [ServicesNext]_allVars PROVE [Chat!Next]_(Chat!messagingVars)
    OBVIOUS
  <2>2. Chat!Next \/ UNCHANGED chatVars
    BY <2>1, Zenon DEF ServicesNext, allVars
  <2>3. UNCHANGED chatVars => UNCHANGED Chat!messagingVars
    BY DEF chatVars, Chat!messagingVars
  <2> QED
    BY <2>2, <2>3, Zenon
<1> QED
  BY <1>1, <1>2, PTL DEF ServicesSpec, Chat!Spec

LEMMA ShapingServes == ServicesSpec => Shaping!Spec
<1>1. ServicesInit => Shaping!Init
  BY Zenon DEF ServicesInit
<1>2. [ServicesNext]_allVars => [Shaping!Next]_(Shaping!shapingVars)
  <2>1. SUFFICES ASSUME [ServicesNext]_allVars PROVE [Shaping!Next]_(Shaping!shapingVars)
    OBVIOUS
  <2>2. Shaping!Next \/ UNCHANGED shapingVars
    BY <2>1, Zenon DEF ServicesNext, allVars
  <2>3. UNCHANGED shapingVars => UNCHANGED Shaping!shapingVars
    BY DEF shapingVars, Shaping!shapingVars
  <2> QED
    BY <2>2, <2>3, Zenon
<1> QED
  BY <1>1, <1>2, PTL DEF ServicesSpec, Shaping!Spec

(* So of the services together: no circuit is dialled through that is too    *)
(* old, and what could not be sent stays queued until a flush                *)
(* (ghost_link.rs 134-153, 270-310, sat_mesh.rs 112-185).                    *)
THEOREM CarriersAreFaithful == ServicesSpec => []CarriersKeepFaith
<1>1. Links!DialsAreFresh /\ Links!QueuedUntilFlushed => CarriersKeepFaith
  BY Zenon DEF CarriersKeepFaith
<1> QED
  BY <1>1, GhostServes, DialsStayFresh, FallbackServes, QueueKeepsAll, PTL

(* A session returns each message once and none that is old, and the mesh's  *)
(* receiver remembers the last half window of nonces (messaging.rs,          *)
(* hydra.rs 340-360).                                                        *)
THEOREM MessagesAreRecent == ServicesSpec => []OnceAndRecent
<1>1. RemembersRecent /\ Chat!OnceAndRecent => OnceAndRecent
  BY Zenon DEF OnceAndRecent
<1> QED
  BY <1>1, MeshServes, MeshKeepsItsWord, ChatServes, MessagesOnceAndRecent, PTL

(* The shapers keep to their budgets and intervals.                          *)
THEOREM TrafficIsPaced == ServicesSpec => []TrafficPaced
<1>1. Shaping!TopicBudget /\ Shaping!DecoysPaced /\ Shaping!JitterReordersLocally
        => TrafficPaced
  BY Zenon DEF TrafficPaced
<1> QED
  BY <1>1, ShapingServes, TrafficKeepsPace, PTL

(* No broadcast goes to a broker of low rate, whatever calls and reports     *)
(* come in between, and none comes back before its rate is high (hydra.rs    *)
(* 146-165, 268-307).                                                        *)
THEOREM BadBrokersStayOut == ServicesSpec => BadBrokersLeftOut
BY MeshServes, MeshKeepsItsWord, PTL DEF BadBrokersLeftOut

(* The state of the mesh and of the Tor link is typed.                       *)
THEOREM NetServicesTyped == ServicesSpec => []TypesOK
<1>1. TypeOK /\ Links!TypeOK => TypesOK
  BY Zenon DEF TypesOK
<1> QED
  BY <1>1, MeshServes, MeshKeepsItsWord, GhostServes, DialsStayFresh, PTL
=============================================================================
