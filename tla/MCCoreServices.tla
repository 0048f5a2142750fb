---------------------------- MODULE MCCoreServices ----------------------------
(* The services around the device on small sizes: the anti-replay window with *)
(* a counter of six values that wraps, the bridge to the device, the session  *)
(* guard, the audit log, the operator's console and two whole devices, and of *)
(* titan-core the dead drop, the ratchet of its messages and the sentry that  *)
(* polls for them.                                                            *)
(* They share no state, so one of them runs in each behaviour.                *)
EXTENDS SequenceValidator, TLC

CONSTANTS Subjects,
          DeviceMaxSeq, MaxCalls, max_messages, max_duration, warning_percent,
          max_entries, MaxLogged, MaxEdits, Letters, Period, MaxDraft, MaxTyped,
          CheckpointPeriod, max_lookahead, TTL, MaxDrops, MaxDropTime, MaxCrashes,
          MaxKeys, MaxTurns, Peers, EpochTicks, MaxDrift, Drifts, MaxTime,
          Devices, MaxSkip, DeviceMessages, MaxNumber

VARIABLES subject,
          sim_mode, connected, heartbeat_counter, calls, request, device, done,
          guard_sent, messages_received, elapsed, valid, warned,
          entries, chain_key, next_seq, critical_count, logged, edits,
          phase, mode, panel, input, running, lazarus_blink, tick_count,
          key_loaded, messages, messages_sent, outgoing_queue, frame, typed, kept,
          drop_now, slots, s_out, n_in, compass, dropped, got, expired,
          forgotten, crashes,
          root, chain, count, drop, taken, crossed,
          sentry_mode, time_drift_warned, now, drift, lastScan, dht, awake,
          recorded, expired_at, send_number, recv, wires, opened, audit, unlogged

Bridge == INSTANCE TitanBridge WITH MaxSeq <- DeviceMaxSeq
Keeping == INSTANCE SessionAudit WITH messages_sent <- guard_sent
Console == INSTANCE OperatorConsole WITH MaxSent <- MaxTyped
Drops == INSTANCE DeadDrop
  WITH Period <- CheckpointPeriod, MaxSent <- MaxDrops, MaxTime <- MaxDropTime,
       now <- drop_now, sent <- dropped
Ends == INSTANCE TitanRatchet
Watch == INSTANCE Sentry WITH mode <- sentry_mode
Pair == INSTANCE HidraDevice
  WITH max_messages <- DeviceMessages, expired <- expired_at, got <- opened

ASSUME ServicesSizes ==
  /\ Bridge!BridgeConstants /\ Keeping!GuardConstants /\ Keeping!AuditConstants
  /\ Console!ConsoleConstants /\ Drops!DropConstants /\ Ends!EndsConstants
  /\ Watch!SentryConstants /\ Pair!DeviceConstants

bridgeVars == <<sim_mode, connected, heartbeat_counter, calls, request, device, done>>
guardVars == <<guard_sent, messages_received, elapsed, valid, warned>>
auditVars == <<entries, chain_key, next_seq, critical_count, logged, edits>>
consoleVars == <<phase, mode, panel, input, running, lazarus_blink, tick_count,
                 key_loaded, messages, messages_sent, outgoing_queue, frame, typed, kept>>
dropVars == <<drop_now, slots, s_out, n_in, compass, dropped, got, expired,
              forgotten, crashes>>
endsVars == <<root, chain, count, drop, taken, crossed>>
watchVars == <<sentry_mode, time_drift_warned, now, drift, lastScan, dht, awake>>

pairVars == <<recorded, expired_at, send_number, recv, wires, opened, audit, unlogged>>

hidraVars == <<vars, bridgeVars, guardVars, auditVars, consoleVars, pairVars>>
titanVars == <<dropVars, endsVars, watchVars>>

ServicesInit ==
  /\ subject \in Subjects
  /\ Init /\ Keeping!GuardInit /\ Keeping!AuditInit /\ Console!Init /\ Bridge!Init
  /\ Drops!Init /\ Ends!Init /\ Watch!Init /\ Pair!Init
  /\ subject # "bridge" => ~sim_mode
  /\ subject # "sentry" => drift = 0

HidraStep ==
  /\ UNCHANGED titanVars
  /\ \/ subject = "validator" /\ Next
        /\ UNCHANGED <<bridgeVars, guardVars, auditVars, consoleVars, pairVars>>
     \/ subject = "bridge" /\ Bridge!Next
        /\ UNCHANGED <<vars, guardVars, auditVars, consoleVars, pairVars>>
     \/ subject = "guard" /\ Keeping!GuardNext
        /\ UNCHANGED <<vars, bridgeVars, auditVars, consoleVars, pairVars>>
     \/ subject = "audit" /\ Keeping!AuditNext
        /\ UNCHANGED <<vars, bridgeVars, guardVars, consoleVars, pairVars>>
     \/ subject = "console" /\ Console!Next
        /\ UNCHANGED <<vars, bridgeVars, guardVars, auditVars, pairVars>>
     \/ subject = "devices" /\ Pair!Next
        /\ UNCHANGED <<vars, bridgeVars, guardVars, auditVars, consoleVars>>

TitanStep ==
  /\ UNCHANGED hidraVars
  /\ \/ subject = "drop" /\ Drops!Next /\ UNCHANGED <<endsVars, watchVars>>
     \/ subject = "ends" /\ Ends!Next /\ UNCHANGED <<dropVars, watchVars>>
     \/ subject = "sentry" /\ Watch!Next /\ UNCHANGED <<dropVars, endsVars>>

ServicesNext == UNCHANGED subject /\ (HidraStep \/ TitanStep)

ServicesSpec == ServicesInit /\ [][ServicesNext]_<<subject, hidraVars, titanVars>>
-------------------------------------------------------------------------------
TypesOK ==
  /\ TypeOK /\ Bridge!TypeOK /\ Keeping!AuditTypeOK /\ Console!TypeOK
  /\ Drops!TypeOK /\ Ends!TypeOK /\ Watch!TypeOK

(* What verify_chain tells of a log that was changed by hand, and a session   *)
(* is warned about before it is refused.                                      *)
GuardsExact == Keeping!ChainVerdictExact /\ Keeping!WarnedBeforeExpiry

(* What the bridge believes of the device's answers.                          *)
AnswersBelieved == Bridge!AnswersBelieved

(* What the console shows, keeps and seals is what was typed.                 *)
ConsoleFaithful == Console!ConsoleFaithful

(* A message dropped is found and its signal noticed, up to restarts, expiry  *)
(* and drift, and the two ends take the same keys for it.                     *)
TitanDelivers == Drops!SweepFindsAll /\ Ends!KeysMeet /\ Watch!NoticedInItsEpoch

(* Two devices that share a session honour each number once, and lose track   *)
(* of no call.                                                                *)
DeviceKeepsCount == Pair!DeviceKeepsCount

(* What e2e main.rs 33 claims of the keys of the messages.                    *)
UniqueKeys == Pair!UniqueKeys

(* What titan_hopping lib.rs 33 claims of the coordinate of a message.        *)
OneTimeCoordinate == Drops!OneTimeCoordinate
===============================================================================
