------------------------------- MODULE Sentry -------------------------------
(***************************************************************************)
(* titan_sentry with titan_dht: a peer that has left a message puts an     *)
(* Active signal under its key of its epoch; the device scans the keys of  *)
(* its own epoch at the interval of its polling mode and wakes Tor on a    *)
(* signal.  The two clocks differ by a drift the device checks.            *)
(***************************************************************************)
EXTENDS Naturals, Sequences, FiniteSets

CONSTANTS Peers,
          EpochTicks,    \* ticks of one epoch, which is the slow polling interval
          MaxDrift,      \* epochs of drift check_time_drift accepts
          Drifts,        \* the drifts tried: the device's clock is this far ahead
          MaxTime        \* bound: ticks

SentryConstants ==
  EpochTicks \in Nat \ {0} /\ MaxDrift \in Nat /\ Drifts \subseteq Nat /\ MaxTime \in Nat

VARIABLES
  mode, time_drift_warned,
  now, drift,
  lastScan,  \* the tick of the last poll
  dht,       \* the signals put: peer, epoch and tick
  awake      \* history: per peer woken for, its signal and the tick of the scan

sentryVars == <<mode, time_drift_warned, now, drift, lastScan, dht, awake>>

Modes == {"Foreground", "Background", "Doze"}

(* current_epoch at the peer and at the device. *)
PeerEpoch == now \div EpochTicks
DeviceEpoch == now \div EpochTicks + drift

(* interval: the foreground polls every tick. *)
Interval(m) == IF m = "Foreground" THEN 1 ELSE EpochTicks

Init ==
  /\ mode = "Foreground" /\ time_drift_warned = FALSE
  /\ now = 0 /\ drift \in Drifts /\ lastScan = 0 /\ dht = {} /\ awake = {}

SetMode(m) ==
  /\ mode' = m
  /\ UNCHANGED <<time_drift_warned, now, drift, lastScan, dht, awake>>

(* Mutant: the largest drift allowed is refused. *)
MutCheckTimeDrift == drift < MaxDrift

CheckTimeDrift == drift <= MaxDrift

Check ==
  /\ time_drift_warned' = ~CheckTimeDrift
  /\ UNCHANGED <<mode, now, drift, lastScan, dht, awake>>

(* put under derive_notify_key(secret, epoch). *)
Put(p) ==
  /\ dht' = dht \cup {[peer |-> p, epoch |-> PeerEpoch, at |-> now]}
  /\ UNCHANGED <<mode, time_drift_warned, now, drift, lastScan, awake>>

(* Mutant: the scan also asks for the epoch before. *)
MutEpochScan(epoch) == {s \in dht : s.epoch \in {epoch, epoch - 1}}

(* epoch_scan asks for the keys of one epoch; the decoy keys change        *)
(* nothing.                                                                *)
EpochScan(epoch) == {s \in dht : s.epoch = epoch}

(* should_wake_tor. *)
ShouldWakeTor(signal) == mode = "Foreground" \/ signal

(* The poll, due an interval after the last. *)
Poll ==
  /\ now - lastScan >= Interval(mode)
  /\ lastScan' = now
  /\ awake' = IF ShouldWakeTor(EpochScan(DeviceEpoch) # {})
              THEN awake \cup {[signal |-> s, at |-> now] : s \in EpochScan(DeviceEpoch)}
              ELSE awake
  /\ UNCHANGED <<mode, time_drift_warned, now, drift, dht>>

(* Time does not pass a poll that is due. *)
Tick ==
  /\ now < MaxTime /\ now - lastScan < Interval(mode)
  /\ now' = now + 1
  /\ UNCHANGED <<mode, time_drift_warned, drift, lastScan, dht, awake>>

Next ==
  \/ Check \/ Poll \/ Tick
  \/ \E m \in Modes : SetMode(m)
  \/ \E p \in Peers : Put(p)

Spec == Init /\ [][Next]_sentryVars

-----------------------------------------------------------------------------
TypeOK ==
  /\ mode \in Modes /\ time_drift_warned \in BOOLEAN
  /\ now \in 0 .. MaxTime /\ drift \in Drifts /\ lastScan \in 0 .. now
  /\ \A s \in dht : s.peer \in Peers /\ s.at \in 0 .. now

(* titan_dht 60-106, titan_sentry 60-85: a signal is noticed only in the   *)
(* epoch whose number it carries, after it was put, so within an epoch of  *)
(* it, and never when the device is an epoch or more ahead, a drift of     *)
(* which the device is not warned while it is at most MaxDrift.            *)
NoticedInItsEpoch ==
  /\ \A w \in awake :
       /\ w.at >= w.signal.at /\ w.at - w.signal.at < EpochTicks
       /\ drift = 0
  /\ time_drift_warned => drift > MaxDrift
=============================================================================
