----------------------------- MODULE MCNetServices -----------------------------
(* The services of hidra_net on small sizes: the broker mesh with two messages *)
(* and three brokers, once with a receiver and once with an owner who reports  *)
(* deliveries, its receiver with more senders than it remembers, the Tor link, *)
(* the fallback transports, the messaging session of two parties whose clocks  *)
(* differ, and the three traffic shapers.                                      *)
(* They share no state, so one of them runs in each behaviour.                 *)
EXTENDS HydraMesh, TLC

CONSTANTS rotation_interval, MIN_CIRCUIT_AGE, MaxAge, MaxCircuits,
          Payloads, max_queue, MaxCalls,
          MAX_TIMESTAMP_SKEW_MS, ENVELOPE_BLOCK_SIZE, Ahead, MaxSent, MaxTime,
          MaxRestarts,
          max_messages, max_duration, base_interval, max_jitter, max_per_minute,
          Minute, min_jitter_ms, max_jitter_ms, MaxTopics,
          Strangers, MaxAccepted

VARIABLES subject,
          mode, state, last_rotation, circuit_count, dial,
          fhealth, active_mode, retry_queue, calls, flushed, told,
          now, session, wires, copies, received, incarnation,
          topic, decoy, decoyAges, pending

Links == INSTANCE CarrierLinks
Chat == INSTANCE Messaging
Shaping == INSTANCE TrafficShaping

ASSUME ServiceConstants ==
  /\ MeshConstants
  /\ Links!GhostConstants /\ Links!FallbackConstants
  /\ Chat!MessagingConstants /\ Shaping!ShapingConstants

ghostVars == <<mode, state, last_rotation, circuit_count, dial>>
fallbackVars == <<fhealth, active_mode, retry_queue, calls, flushed, told>>
chatVars == <<now, session, wires, copies, received, incarnation>>
shapingVars == <<topic, decoy, decoyAges, pending>>
allVars == <<subject, vars, ghostVars, fallbackVars, chatVars, shapingVars>>

ServicesInit ==
  /\ subject \in {"mesh", "owner", "inbox", "ghost", "fallback", "chat", "shaping"}
  /\ Init /\ Links!GhostInit /\ Links!FallbackInit /\ Chat!Init /\ Shaping!Init
  /\ subject # "ghost" => mode = "Tor"
  /\ subject # "shaping" => decoy.next_send = base_interval

(* The receiver alone, with the messages of more senders than its window       *)
(* remembers, each any number of times and in any order.                       *)
StrangerArrives ==
  /\ Len(accepted) < MaxAccepted /\ UNCHANGED meshVars
  /\ \E n \in Strangers : Recorded(n) \/ SeenBefore(n)

ServicesNext ==
  /\ UNCHANGED subject
  /\ \/ subject = "mesh" /\ Next /\ UNCHANGED reports
        /\ UNCHANGED <<ghostVars, fallbackVars, chatVars, shapingVars>>
     \/ subject = "owner" /\ Next /\ UNCHANGED <<subscribed, slot>>
        /\ UNCHANGED <<ghostVars, fallbackVars, chatVars, shapingVars>>
     \/ subject = "inbox" /\ StrangerArrives
        /\ UNCHANGED <<ghostVars, fallbackVars, chatVars, shapingVars>>
     \/ subject = "ghost" /\ Links!GhostNext
        /\ UNCHANGED <<vars, fallbackVars, chatVars, shapingVars>>
     \/ subject = "fallback" /\ Links!FallbackNext
        /\ UNCHANGED <<vars, ghostVars, chatVars, shapingVars>>
     \/ subject = "chat" /\ Chat!Next
        /\ UNCHANGED <<vars, ghostVars, fallbackVars, shapingVars>>
     \/ subject = "shaping" /\ Shaping!Next
        /\ UNCHANGED <<vars, ghostVars, fallbackVars, chatVars>>

\* Only the mesh promises progress, and only its calls and event loop are fair.
ServicesSpec == ServicesInit /\ [][ServicesNext]_allVars /\ Fairness
--------------------------------------------------------------------------------
TypesOK == TypeOK /\ Links!TypeOK

(* A broker whose owner reports failures is left out until it recovers,        *)
(* whatever calls and reports come in between.                                 *)
BadBrokersLeftOut == []LowRatedNotChosen /\ ChosenAreEligible

(* Every broadcast returns, and what arrives is accepted.                      *)
MeshProgress == BroadcastReturns /\ ArrivedIsAccepted

(* A circuit is not dialled through after the age at which it must rotate,     *)
(* and what the fallback could not send stays queued until a flush.            *)
CarriersKeepFaith == Links!DialsAreFresh /\ Links!QueuedUntilFlushed

(* The receiver of the mesh remembers the nonces of the last half window, and *)
(* a session returns each message at most once and none that is old.          *)
OnceAndRecent == RemembersRecent /\ Chat!OnceAndRecent

(* The shapers keep to their budgets and intervals.                            *)
TrafficPaced ==
  Shaping!TopicBudget /\ Shaping!DecoysPaced /\ Shaping!JitterReordersLocally
================================================================================
