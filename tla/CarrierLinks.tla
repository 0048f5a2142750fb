---------------------------- MODULE CarrierLinks ----------------------------
(***************************************************************************)
(* What carries messages to the network of hidra_net: the Tor link of      *)
(* ghost_link.rs, and the satellite and mesh fallback of sat_mesh.rs.      *)
(* They do not call each other and share no state.                         *)
(*                                                                         *)
(* The Tor link: connect_tcp holds &mut self across its awaits, so only    *)
(* time passes while it dials.  A circuit exists for the code as the time  *)
(* of its last rotation; the ages are capped.                              *)
(***************************************************************************)
EXTENDS Integers, Sequences, FiniteSets

CONSTANTS
  rotation_interval,   \* GhostConfig (600 s)
  MIN_CIRCUIT_AGE,     \* 30 s
  MaxAge,              \* bound: ages are counted up to here
  MaxCircuits          \* bound: circuits counted

GhostConstants ==
  /\ rotation_interval \in Nat /\ MIN_CIRCUIT_AGE \in Nat \ {0}
  /\ MaxAge \in Nat /\ MaxAge > rotation_interval /\ MaxAge > MIN_CIRCUIT_AGE
  /\ MaxCircuits \in Nat

VARIABLES
  mode,            \* GhostConfig.mode
  state,           \* CircuitState
  last_rotation,   \* the age of the circuit, Never without one
  circuit_count,
  dial             \* how connect_tcp is dialling, and the age it began at

ghostVars == <<mode, state, last_rotation, circuit_count, dial>>

Modes == {"Tor", "Direct", "TorWithFallback"}
Never == -1
NotDialling == [via |-> "none", age |-> 0, tor_failed |-> FALSE]

GhostInit ==
  /\ mode \in Modes
  /\ state = "Disconnected" /\ last_rotation = Never /\ circuit_count = 0
  /\ dial = NotDialling

Idle == dial.via \in {"none", "stream"}
Counted(n) == IF circuit_count + n > MaxCircuits THEN MaxCircuits ELSE circuit_count + n

-----------------------------------------------------------------------------
NeedsRotation(age) == age = Never \/ age >= rotation_interval
RotationTooFrequent(age) == age # Never /\ age < MIN_CIRCUIT_AGE

Connect ==
  /\ Idle
  /\ state' = "Connected" /\ last_rotation' = 0 /\ circuit_count' = Counted(1)
  /\ UNCHANGED <<mode, dial>>

Disconnect ==
  /\ Idle
  /\ state' = "Disconnected" /\ last_rotation' = Never
  /\ UNCHANGED <<mode, circuit_count, dial>>

RotateCircuit ==
  /\ Idle /\ ~RotationTooFrequent(last_rotation)
  /\ state' = "Connected" /\ last_rotation' = 0 /\ circuit_count' = Counted(1)
  /\ UNCHANGED <<mode, dial>>

-----------------------------------------------------------------------------
(* connect_tcp up to its first await: connect unless connected, rotate     *)
(* when it is time (a refused rotation is ignored), then dial.             *)

(* Mutant: the age is only looked at when there was no connection. *)
MutDialAge == IF state = "Connected" THEN last_rotation ELSE 0

DialAge ==
  LET age == IF state = "Connected" THEN last_rotation ELSE 0
  IN IF NeedsRotation(age) /\ ~RotationTooFrequent(age) THEN 0 ELSE age

BeginDial ==
  /\ Idle
  /\ state' = "Connected" /\ last_rotation' = DialAge
  /\ circuit_count' = Counted(IF state # "Connected" \/ DialAge # last_rotation THEN 1 ELSE 0)
  /\ dial' = [via |-> IF mode = "Direct" THEN "direct" ELSE "tor",
              age |-> DialAge, tor_failed |-> FALSE]
  /\ UNCHANGED mode

Dialled ==
  /\ dial.via \in {"tor", "direct"}
  /\ dial' = [dial EXCEPT !.via = "stream"]
  /\ UNCHANGED <<mode, state, last_rotation, circuit_count>>

(* The state stays Connected: what fails is one dial. *)
DialFailed ==
  /\ dial.via = "direct" \/ (dial.via = "tor" /\ mode = "Tor")
  /\ dial' = NotDialling
  /\ UNCHANGED <<mode, state, last_rotation, circuit_count>>

FallBack ==
  /\ dial.via = "tor" /\ mode = "TorWithFallback"
  /\ dial' = [dial EXCEPT !.via = "direct", !.tor_failed = TRUE]
  /\ UNCHANGED <<mode, state, last_rotation, circuit_count>>

(* Time also passes while a dial waits. *)
Tick ==
  /\ last_rotation \in 0 .. MaxAge - 1
  /\ last_rotation' = last_rotation + 1
  /\ UNCHANGED <<mode, state, circuit_count, dial>>

GhostNext ==
  \/ Connect \/ Disconnect \/ RotateCircuit
  \/ BeginDial \/ Dialled \/ DialFailed \/ FallBack
  \/ Tick

GhostSpec == GhostInit /\ [][GhostNext]_ghostVars

-----------------------------------------------------------------------------
TypeOK ==
  /\ mode \in Modes /\ state \in {"Disconnected", "Connected"}
  /\ last_rotation \in Never .. MaxAge
  /\ circuit_count \in 0 .. MaxCircuits
  /\ dial.via \in {"none", "tor", "direct", "stream"}

Longer == IF rotation_interval > MIN_CIRCUIT_AGE THEN rotation_interval ELSE MIN_CIRCUIT_AGE

(* No dial begins on a circuit older than the interval (or than the        *)
(* minimum age, where that is longer), whatever connects, rotations and    *)
(* disconnections came before; a connected link always has a circuit, and  *)
(* the address is exposed only in direct mode or after Tor has failed in   *)
(* fallback mode (ghost_link.rs 134-153, 270-310).                         *)
DialsAreFresh ==
  /\ dial.via # "none" => dial.age < Longer
  /\ state = "Connected" <=> last_rotation # Never
  /\ dial.via = "direct" => mode = "Direct" \/ (mode = "TorWithFallback" /\ dial.tor_failed)

-----------------------------------------------------------------------------
(***************************************************************************)
(* The fallback: a failover order over four modes, a queue for what cannot *)
(* be sent now, a flush when a mode is back.  The transmission is left out *)
(* of the code: where a mode is connected send answers Ok and drops the    *)
(* payload, and a flush empties the queue and returns the count of what it *)
(* took to be sent.  A caller that gets NoConnectivity may call again,     *)
(* which is how a message gets queued twice.                               *)
(***************************************************************************)

CONSTANTS
  Payloads,      \* the messages the caller has
  max_queue,     \* 50
  MaxCalls       \* bound: calls of send per message

VARIABLES
  fhealth,       \* TransportHealth per mode
  active_mode,
  retry_queue,   \* payload and attempts
  calls,         \* per message, calls of send so far
  flushed,       \* per message, how often flush_queue counted it as sent
  told           \* per message, answers of send: Ok, NoConnectivity, QueueFull

fallbackVars == <<fhealth, active_mode, retry_queue, calls, flushed, told>>

Order == <<"Cellular", "IridiumSbd", "LoraMesh", "BleRelay">>
Carriers == {Order[i] : i \in 1 .. 4}
MaxAttempts == 5

FallbackConstants == max_queue \in Nat /\ MaxCalls \in Nat

FallbackInit ==
  /\ fhealth = [m \in Carriers |-> IF m = "Cellular" THEN "Connected" ELSE "Disconnected"]
  /\ active_mode = "Cellular"
  /\ retry_queue = <<>>
  /\ calls = [p \in Payloads |-> 0]
  /\ flushed = [p \in Payloads |-> 0]
  /\ told = [p \in Payloads |-> [Ok |-> 0, NoConnectivity |-> 0, QueueFull |-> 0]]

UpdateHealth(m, h) ==
  /\ fhealth[m] # h
  /\ fhealth' = [fhealth EXCEPT ![m] = h]
  /\ UNCHANGED <<active_mode, retry_queue, calls, flushed, told>>

(* select_best: the first connected mode; a degraded one does not count. *)
Best ==
  IF \E i \in 1 .. 4 : fhealth[Order[i]] = "Connected"
  THEN Order[CHOOSE i \in 1 .. 4 : /\ fhealth[Order[i]] = "Connected"
                                   /\ \A j \in 1 .. i - 1 : fhealth[Order[j]] # "Connected"]
  ELSE "Offline"

Answer(p, a) ==
  /\ told' = [told EXCEPT ![p][a] = @ + 1]
  /\ calls' = [calls EXCEPT ![p] = @ + 1]
  /\ active_mode' = Best
  /\ UNCHANGED fhealth

(* A connected mode: the payload, or its fragments, go nowhere. *)
SendNow(p) ==
  /\ calls[p] < MaxCalls /\ Best # "Offline"
  /\ Answer(p, "Ok")
  /\ UNCHANGED <<retry_queue, flushed>>

(* Mutant: the oldest queued message makes room. *)
MutEnqueue(p) ==
  /\ calls[p] < MaxCalls /\ Best = "Offline"
  /\ retry_queue' = Append(IF Len(retry_queue) < max_queue THEN retry_queue
                           ELSE Tail(retry_queue), [payload |-> p, attempts |-> 0])
  /\ Answer(p, "NoConnectivity")
  /\ UNCHANGED flushed

Enqueue(p) ==
  /\ calls[p] < MaxCalls /\ Best = "Offline" /\ Len(retry_queue) < max_queue
  /\ retry_queue' = Append(retry_queue, [payload |-> p, attempts |-> 0])
  /\ Answer(p, "NoConnectivity")
  /\ UNCHANGED flushed

QueueFull(p) ==
  /\ calls[p] < MaxCalls /\ Best = "Offline" /\ Len(retry_queue) >= max_queue
  /\ Answer(p, "QueueFull")
  /\ UNCHANGED <<retry_queue, flushed>>

\* Where a message stands in the queue.
Waiting(p) == {i \in DOMAIN retry_queue : retry_queue[i].payload = p}

(* flush_queue: every message has one attempt more, is dropped at the      *)
(* fifth and counted as sent before that; either way it leaves the queue.  *)
FlushQueue ==
  /\ retry_queue # <<>> /\ Best # "Offline"
  /\ flushed' = [p \in Payloads |-> flushed[p] +
       Cardinality({i \in Waiting(p) : retry_queue[i].attempts + 1 < MaxAttempts})]
  /\ retry_queue' = <<>>
  /\ active_mode' = Best
  /\ UNCHANGED <<fhealth, calls, told>>

FallbackNext ==
  \/ \E m \in Carriers, h \in {"Connected", "Degraded"} : UpdateHealth(m, h)
  \/ \E p \in Payloads : SendNow(p) \/ Enqueue(p) \/ QueueFull(p)
  \/ FlushQueue

FallbackSpec == FallbackInit /\ [][FallbackNext]_fallbackVars

-----------------------------------------------------------------------------
Queued(p) == Cardinality(Waiting(p))

(* Every message that send refused for want of a connection waits in the   *)
(* queue, as often as it was so refused, until a flush counts it as sent:  *)
(* nothing else is queued or leaves the queue, at its limit neither, and   *)
(* the attempt limit drops nothing.  Whether anything is sent is not       *)
(* claimed: this code sends nothing (sat_mesh.rs 112-185).                 *)
QueuedUntilFlushed ==
  /\ \A p \in Payloads : flushed[p] + Queued(p) = told[p].NoConnectivity
  /\ Len(retry_queue) <= max_queue
=============================================================================
