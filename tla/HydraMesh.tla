----------------------------- MODULE HydraMesh ------------------------------
(***************************************************************************)
(* The broker mesh of hydra.rs.  broadcast_message awaits between its      *)
(* publishes and takes &self, so calls interleave with each other, with    *)
(* the owner's health and reputation reports, with the hour that changes   *)
(* the topic and with the receiver, who subscribed under the topic of some *)
(* earlier hour.  One message stands for one call and for the nonce it     *)
(* carries.  The brokers and rumqttc are external: publish only queues the *)
(* message, so a publish that returns Ok may still reach nobody.           *)
(***************************************************************************)
EXTENDS Integers, Sequences, SequencesExt, FiniteSets

CONSTANTS
  Brokers,       \* the brokers, numbered in the order of the vector
  ReceiveFrom,   \* the brokers the receiver subscribes on
  BroadcastK,    \* BROADCAST_K (3)
  MaxSlot,       \* bound: the last time slot (TOPIC_ROTATION_SECS each)
  MaxCopies,     \* bound: copies of one message on their way at once
  MaxReports,    \* bound: reports of deliveries by the owner
  Perfect,             \* the rate written 1.0; rates are parts of it
  Decay, DecayBase,    \* the decay factor Decay / DecayBase (0.9)
  Threshold,           \* blacklist_threshold, in parts of Perfect (0.3)
  Nonces,              \* the messages, each with its nonce
  DedupWindow          \* DEDUP_WINDOW (2000), even

MeshConstants ==
  /\ Brokers \subseteq Nat /\ ReceiveFrom \subseteq Brokers
  /\ BroadcastK \in Nat \ {0} /\ {MaxSlot, MaxCopies, MaxReports} \subseteq Nat
  /\ Perfect \in Nat /\ Threshold \in 1 .. Perfect
  /\ DecayBase \in Nat \ {0} /\ Decay \in 0 .. DecayBase
  /\ DedupWindow \in Nat /\ DedupWindow > 0 /\ DedupWindow % 2 = 0

VARIABLES
  health,        \* per broker, HEALTH_DEAD, HEALTH_SICK or HEALTH_ALIVE
  reputation,    \* per broker, its BrokerReputation
  slot,          \* the current time slot; it determines the topic
  call,          \* the state of the broadcast_message call of each message
  subscribed,    \* per broker, the slot whose topic the receiver listens to
  arriving,      \* per message, copies forwarded to the receiver
  reports,       \* how many reports the owner has made
  dedup_order,   \* the receiver's nonces remembered, the oldest first; the
                 \* dedup_set of the code always holds what this lists
  accepted       \* history: every nonce found new, in order

meshVars == <<health, reputation, slot, call, subscribed, arriving, reports>>
dedupVars == <<dedup_order, accepted>>
vars == <<meshVars, dedupVars>>

-----------------------------------------------------------------------------
(* BrokerReputation: a moving average of successes and the blacklist with  *)
(* its hysteresis.  A rounding step is one part of Perfect.  The totals of *)
(* successes and failures, which nothing reads, are left out.              *)

Reputation == [rate : 0 .. Perfect, blacklisted : BOOLEAN]

NewReputation == [rate |-> Perfect, blacklisted |-> FALSE]

(* Mutant: one success is enough to leave the blacklist. *)
MutForgive(r) ==
  [rate |-> (Decay * r.rate + (DecayBase - Decay) * Perfect) \div DecayBase,
   blacklisted |-> FALSE]

AfterSuccess(r) ==
  LET rate == (Decay * r.rate + (DecayBase - Decay) * Perfect) \div DecayBase
  IN [rate |-> rate, blacklisted |-> r.blacklisted /\ rate <= 2 * Threshold]

AfterFailure(r) ==
  LET rate == (Decay * r.rate) \div DecayBase
  IN [rate |-> rate, blacklisted |-> r.blacklisted \/ rate < Threshold]

Score(r) == IF r.blacklisted THEN 0 ELSE r.rate

-----------------------------------------------------------------------------
(* check_and_record_nonce: set and queue are written under the set's lock. *)

DedupInit == dedup_order = <<>> /\ accepted = <<>>

dedup_set == ToSet(dedup_order)

(* Mutant: the newest half is evicted. *)
MutEvictNewest(order) ==
  IF Len(order) < DedupWindow THEN order ELSE SubSeq(order, 1, DedupWindow \div 2)

(* A full window loses its older half before the next nonce is stored. *)
Evicted(order) ==
  IF Len(order) < DedupWindow THEN order
                              ELSE SubSeq(order, DedupWindow \div 2 + 1, Len(order))

(* Mutant: nonces are told apart by their high bytes only. *)
MutSeenBefore(n) == (\E k \in dedup_set : k \div 4 = n \div 4) /\ UNCHANGED dedupVars

SeenBefore(n) == n \in dedup_set /\ UNCHANGED dedupVars

Recorded(n) ==
  /\ n \notin dedup_set
  /\ dedup_order' = Append(Evicted(dedup_order), n)
  /\ accepted' = Append(accepted, n)

-----------------------------------------------------------------------------
Health == {"HEALTH_DEAD", "HEALTH_SICK", "HEALTH_ALIVE"}
NoSlot == -1
Idle == [pc |-> "idle", left |-> {}, topic |-> NoSlot, success_ids |-> {}]

Init ==
  /\ health = [b \in Brokers |-> "HEALTH_DEAD"]
  /\ reputation = [b \in Brokers |-> NewReputation]
  /\ slot = 0
  /\ call = [m \in Nonces |-> Idle]
  /\ subscribed = [b \in ReceiveFrom |-> NoSlot]
  /\ arriving = [m \in Nonces |-> 0]
  /\ reports = 0
  /\ DedupInit

-----------------------------------------------------------------------------
(* select_targets with the policy RandomK *)

(* Mutant: the blacklist is not looked at. *)
MutEligible == {b \in Brokers : health[b] = "HEALTH_ALIVE"}

Eligible == {b \in Brokers : health[b] = "HEALTH_ALIVE" /\ ~reputation[b].blacklisted}

(* The sort is stable: equal scores keep the order of the vector. *)
Outranks(c, b) ==
  \/ Score(reputation[c]) > Score(reputation[b])
  \/ Score(reputation[c]) = Score(reputation[b]) /\ c < b

Pool == {b \in Eligible :
           Cardinality({c \in Eligible : Outranks(c, b)}) < 2 * BroadcastK}

Selections == {T \in SUBSET Pool : Cardinality(T) = BroadcastK}

(* The targets are chosen, then the topic is derived from the clock. *)
BeginBroadcast(m) ==
  /\ call[m].pc = "idle"
  /\ Cardinality(Eligible) >= BroadcastK
  /\ \E T \in Selections :
       call' = [call EXCEPT ![m] = [pc |-> "publishing", left |-> T, topic |-> slot,
                                    success_ids |-> {}]]
  /\ UNCHANGED <<health, reputation, slot, subscribed, arriving, reports, dedupVars>>

InsufficientBrokers(m) ==
  /\ call[m].pc = "idle"
  /\ Cardinality(Eligible) < BroadcastK
  /\ call' = [call EXCEPT ![m].pc = "insufficient"]
  /\ UNCHANGED <<health, reputation, slot, subscribed, arriving, reports, dedupVars>>

(* What the brokers make of a queued publish: nothing, or one copy, or two *)
(* (QoS 1), for a receiver that listens to the topic on that broker.       *)
Forwarded(m, b) ==
  IF b \in ReceiveFrom /\ subscribed[b] = call[m].topic
  THEN {n \in 0 .. 2 : arriving[m] + n <= MaxCopies} ELSE {0}

(* Mutant: a call none of whose publishes was queued does not return. *)
MutContinued(c) ==
  IF c.left # {} \/ c.success_ids = {} THEN c ELSE [Idle EXCEPT !.pc = "ok"]

(* The call goes on with the remaining targets, or returns the ids of the  *)
(* brokers that took the message, or an error when there is none.          *)
Continued(c) ==
  IF c.left # {} THEN c
  ELSE [Idle EXCEPT !.pc = IF c.success_ids = {} THEN "failed" ELSE "ok"]

PublishQueued(m, b) ==
  /\ b \in call[m].left
  /\ call' = [call EXCEPT ![m] = Continued([call[m] EXCEPT !.left = @ \ {b},
                                                          !.success_ids = @ \cup {b}])]
  /\ \E n \in Forwarded(m, b) : arriving' = [arriving EXCEPT ![m] = @ + n]
  /\ UNCHANGED <<health, reputation, slot, subscribed, reports, dedupVars>>

(* Mutant: a broker that fails is tried again. *)
MutPublishFails(m, b) ==
  /\ b \in call[m].left
  /\ health' = [health EXCEPT ![b] = "HEALTH_SICK"]
  /\ UNCHANGED <<call, reputation, slot, subscribed, arriving, reports, dedupVars>>

PublishFails(m, b) ==
  /\ b \in call[m].left
  /\ call' = [call EXCEPT ![m] = Continued([call[m] EXCEPT !.left = @ \ {b}])]
  /\ health' = [health EXCEPT ![b] = "HEALTH_SICK"]
  /\ UNCHANGED <<reputation, slot, subscribed, arriving, reports, dedupVars>>

-----------------------------------------------------------------------------
(* the receiver *)

(* subscribe_channel: the topic is the one of this hour; nothing renews it. *)
Subscribe(b) ==
  /\ subscribed' = [subscribed EXCEPT ![b] = slot]
  /\ UNCHANGED <<health, reputation, slot, call, arriving, reports, dedupVars>>

(* check_and_record_nonce on a copy that arrives. *)
Arrive(m) ==
  /\ arriving[m] > 0
  /\ arriving' = [arriving EXCEPT ![m] = @ - 1]
  /\ Recorded(m) \/ SeenBefore(m)
  /\ UNCHANGED <<health, reputation, slot, call, subscribed, reports>>

-----------------------------------------------------------------------------
(* the owner and the clock *)

SetAlive(b) ==
  /\ health[b] # "HEALTH_ALIVE"
  /\ health' = [health EXCEPT ![b] = "HEALTH_ALIVE"]
  /\ UNCHANGED <<reputation, slot, call, subscribed, arriving, reports, dedupVars>>

(* record_success and record_failure; broadcast_message calls neither. *)
Report(b) ==
  /\ reports < MaxReports
  /\ reports' = reports + 1
  /\ \E After \in {AfterSuccess(reputation[b]), AfterFailure(reputation[b])} :
       reputation' = [reputation EXCEPT ![b] = After]
  /\ UNCHANGED <<health, slot, call, subscribed, arriving, dedupVars>>

NextSlot ==
  /\ slot < MaxSlot
  /\ slot' = slot + 1
  /\ UNCHANGED <<health, reputation, call, subscribed, arriving, reports, dedupVars>>

Publish(m) == \E b \in Brokers : PublishQueued(m, b) \/ PublishFails(m, b)

Next ==
  \/ \E m \in Nonces : BeginBroadcast(m) \/ InsufficientBrokers(m)
  \/ \E m \in Nonces : Publish(m)
  \/ \E m \in Nonces : Arrive(m)
  \/ \E b \in ReceiveFrom : Subscribe(b)
  \/ \E b \in Brokers : SetAlive(b) \/ Report(b)
  \/ NextSlot

(* The runtime polls every task it holds: a call that has begun goes on,   *)
(* and the receiver keeps polling its event loop.                          *)
Fairness == \A m \in Nonces : /\ WF_vars(Publish(m))
                              /\ WF_vars(Arrive(m))

Spec == Init /\ [][Next]_vars /\ Fairness

-----------------------------------------------------------------------------
TypeOK ==
  /\ health \in [Brokers -> Health]
  /\ reputation \in [Brokers -> Reputation]
  /\ slot \in 0 .. MaxSlot
  /\ \A m \in Nonces : /\ call[m].pc \in {"idle", "publishing", "ok", "failed", "insufficient"}
                       /\ call[m].left \cup call[m].success_ids \subseteq Brokers
                       /\ call[m].pc = "publishing" <=> call[m].left # {}
  /\ subscribed \in [ReceiveFrom -> NoSlot .. MaxSlot]
  /\ arriving \in [Nonces -> 0 .. MaxCopies]

(* A broker whose success rate has fallen below the threshold is not       *)
(* chosen again before its rate has risen above twice the threshold, even  *)
(* with several calls and reports in between (hydra.rs 146-165, 268-307).  *)
LowRatedNotChosen ==
  \A b \in Brokers :
    /\ reputation[b].rate < Threshold => b \notin Eligible
    /\ reputation[b].blacklisted => reputation[b].rate <= 2 * Threshold
ChosenAreEligible ==
  [][/\ \A m \in Nonces : call'[m].pc = "publishing" /\ call[m].pc = "idle" =>
          \A b \in call'[m].left : reputation[b].rate >= Threshold
     /\ \A b \in Brokers :
          /\ reputation[b].blacklisted
          /\ ~reputation'[b].blacklisted
          => reputation'[b].rate > 2 * Threshold]_vars

(* Whatever the order of arrivals, a nonce is remembered at least until    *)
(* half a window of other nonces has been accepted after it.               *)
RemembersRecent ==
  \A i \in 1 .. Len(accepted) :
    i >= Len(accepted) - DedupWindow \div 2 => accepted[i] \in dedup_set

(* Every call returns, and a copy that reaches the receiver is never taken *)
(* for a duplicate of a message that was not received: the application     *)
(* gets each message of which a copy arrives.                              *)
BroadcastReturns ==
  \A m \in Nonces : call[m].pc = "publishing" ~> call[m].pc \in {"ok", "failed"}
ArrivedIsAccepted ==
  \A m \in Nonces : arriving[m] > 0 ~> m \in ToSet(accepted)
=============================================================================
