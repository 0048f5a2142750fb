----------------------------- MODULE HidraDevice ----------------------------
(***************************************************************************)
(* HidraDevice of hidra_e2e: the whole stack of one endpoint, and two of   *)
(* them that share the session keys of one key exchange.  A wire carries   *)
(* the number its sender's ratchet gave it, but only inside the key: the   *)
(* number a receiver opens it with comes from its caller.  The network may *)
(* deliver a wire to either device, its sender included, any number of     *)
(* times, late or damaged.  The skipped keys are those of                  *)
(* SymmetricRatchet, without the limit of the cache, which so few numbers  *)
(* do not reach.                                                           *)
(***************************************************************************)
EXTENDS Naturals, FiniteSets

CONSTANTS
  Devices,         \* the two devices
  max_messages,    \* SessionConfig::max_messages
  MaxSkip,         \* RatchetState::max_skip
  MaxNumber        \* bound: the last number a sender or a caller uses

DeviceConstants == {max_messages, MaxSkip, MaxNumber} \subseteq Nat

VARIABLES
  recorded,        \* SessionGuard: messages_sent + messages_received
  expired,         \* SessionGuard: max_duration has passed
  send_number,     \* the number of the send ratchet
  recv,            \* the receive ratchet: its number, and the skipped keys
  wires,           \* the messages on the network
  got,             \* the wires opened, as a function to how often
  audit,           \* how many AuthFailure and ReplayDetected entries
  unlogged         \* history: sends and receives that failed with no entry

deviceVars == <<recorded, expired, send_number, recv, wires, got, audit, unlogged>>

Numbers == 0 .. MaxNumber
Wire == [from : Devices, n : Numbers]

(* Both ratchets of both devices start from the ratchet_root of the session. *)
Init ==
  /\ recorded = [d \in Devices |-> 0] /\ expired = [d \in Devices |-> FALSE]
  /\ send_number = [d \in Devices |-> 0]
  /\ recv = [d \in Devices |-> [number |-> 0, skipped |-> {}]]
  /\ wires = {}
  /\ got = [d \in Devices |-> [w \in Wire |-> 0]]
  /\ audit = [d \in Devices |-> [layer0 |-> 0, layer1 |-> 0, replay |-> 0]]
  /\ unlogged = [d \in Devices |-> 0]

(* record_send and record_receive: first of all, whatever comes after. *)
Record(d) ==
  /\ ~expired[d] /\ recorded[d] < max_messages
  /\ recorded' = [recorded EXCEPT ![d] = @ + 1]
  /\ UNCHANGED expired

(* send: the ratchet moves before the steps that can fail. *)
Send(d) ==
  /\ send_number[d] \in Numbers /\ Record(d)
  /\ send_number' = [send_number EXCEPT ![d] = @ + 1]
  /\ wires' = wires \cup {[from |-> d, n |-> send_number[d]]}
  /\ UNCHANGED <<recv, got, audit, unlogged>>

(* A text too long, a bridge that refuses, too few healthy brokers. *)
SendFails(d) ==
  /\ send_number[d] \in Numbers /\ Record(d)
  /\ send_number' = [send_number EXCEPT ![d] = @ + 1]
  /\ unlogged' = [unlogged EXCEPT ![d] = @ + 1]
  /\ UNCHANGED <<recv, wires, got, audit>>

-----------------------------------------------------------------------------
(* key_for: a key is there for a skipped number and for a number ahead. *)
HasKey(r, seq) == seq \in r.skipped \/ seq \in r.number .. r.number + MaxSkip

(* Mutant: a skipped key stays where it was. *)
MutKeyFor(r, seq) ==
  IF seq \in r.skipped THEN r
  ELSE [number |-> seq + 1, skipped |-> r.skipped \cup r.number .. seq - 1]

KeyFor(r, seq) ==
  IF seq \in r.skipped THEN [r EXCEPT !.skipped = @ \ {seq}]
  ELSE [number |-> seq + 1, skipped |-> r.skipped \cup r.number .. seq - 1]

Log(d, entry) == audit' = [audit EXCEPT ![d][entry] = @ + 1]

(* The envelope does not parse: an error, and no entry. *)
Unparsed(d) ==
  /\ wires # {} /\ Record(d)
  /\ unlogged' = [unlogged EXCEPT ![d] = @ + 1]
  /\ UNCHANGED <<send_number, recv, wires, got, audit>>

(* The envelope is damaged or older than its window. *)
EnvelopeRefused(d) ==
  /\ wires # {} /\ Record(d) /\ Log(d, "layer0")
  /\ UNCHANGED <<send_number, recv, wires, got, unlogged>>

(* Every error of the ratchet is logged as a replay, a gap beyond max_skip *)
(* too.                                                                    *)
KeyRefused(d, seq) ==
  /\ wires # {} /\ ~HasKey(recv[d], seq) /\ Record(d) /\ Log(d, "replay")
  /\ UNCHANGED <<send_number, recv, wires, got, unlogged>>

(* The key of another number: it is used up, and the message not opened. *)
Misnumbered(d, w, seq) ==
  /\ seq # w.n /\ HasKey(recv[d], seq) /\ Record(d) /\ Log(d, "layer1")
  /\ recv' = [recv EXCEPT ![d] = KeyFor(@, seq)]
  /\ UNCHANGED <<send_number, wires, got, unlogged>>

Opened(d, w) ==
  /\ HasKey(recv[d], w.n) /\ Record(d)
  /\ recv' = [recv EXCEPT ![d] = KeyFor(@, w.n)]
  /\ got' = [got EXCEPT ![d][w] = @ + 1]
  /\ UNCHANGED <<send_number, wires, audit, unlogged>>

(* receive *)
Receive(d) ==
  \/ Unparsed(d)
  \/ EnvelopeRefused(d)
  \/ \E seq \in Numbers : KeyRefused(d, seq)
  \/ \E w \in wires, seq \in Numbers : Misnumbered(d, w, seq)
  \/ \E w \in wires : Opened(d, w)

(* The session is 24 hours old. *)
Expire(d) ==
  /\ ~expired[d] /\ expired' = [expired EXCEPT ![d] = TRUE]
  /\ UNCHANGED <<recorded, send_number, recv, wires, got, audit, unlogged>>

Next == \E d \in Devices : Send(d) \/ SendFails(d) \/ Receive(d) \/ Expire(d)

Spec == Init /\ [][Next]_deviceVars

-----------------------------------------------------------------------------
OpenedBy(d) == {w \in Wire : got[d][w] > 0}

(* A device opens a message at most once, and of two messages with the     *)
(* same number, its own and its peer's, only one: each number is honoured  *)
(* at most once whatever the caller asks for (main.rs 231-278).            *)
HonouredOnce ==
  \A d \in Devices, n \in Numbers :
    \A w, x \in OpenedBy(d) : w.n = n /\ x.n = n => w = x /\ got[d][w] = 1

(* The number a receive ratchet has reached is made up of the messages     *)
(* opened, the keys still waiting and the keys that a wrong number used    *)
(* up; what the session counted is made up of the messages sent, those     *)
(* opened, the entries of the audit log and the errors without an entry.   *)
(* No call is missing from either account, and failures use up the session *)
(* like messages do (main.rs 182-278).                                     *)
LedgersBalance ==
  \A d \in Devices :
    /\ recv[d].number =
         Cardinality(OpenedBy(d)) + Cardinality(recv[d].skipped) + audit[d].layer1
    /\ recorded[d] =
         Cardinality({w \in wires : w.from = d}) + Cardinality(OpenedBy(d))
         + audit[d].layer0 + audit[d].layer1 + audit[d].replay + unlogged[d]

DeviceKeepsCount == HonouredOnce /\ LedgersBalance

(* Criterion 4 of the test suite: "Each message uses a unique key"         *)
(* (main.rs 33).  The key of a message is the one of its number.           *)
UniqueKeys == \A w, x \in wires : w.n = x.n => w = x
=============================================================================
