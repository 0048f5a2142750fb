------------------------------ MODULE DeadDrop ------------------------------
(***************************************************************************)
(* One direction of a titan-core conversation, composed as the integration *)
(* tests compose it: the sender stores at the coordinate of its counter    *)
(* s_out in a MemoryDeadDrop, the receiver sweeps the coordinates from its *)
(* counter n_in, and each saves its Navigator every Period messages in a   *)
(* MemoryKeyStore that survives a crash.                                   *)
(***************************************************************************)
EXTENDS Naturals, Sequences, FiniteSets, FiniteSetsExt

CONSTANTS Period,       \* messages between two checkpoints
          max_lookahead,
          TTL,
          MaxSent, MaxTime, MaxCrashes   \* bounds

DropConstants ==
  Period \in Nat \ {0} /\ {max_lookahead, TTL, MaxSent, MaxTime, MaxCrashes} \subseteq Nat

VARIABLES
  now,
  slots,     \* the standing envelopes: coordinate, message, time of creation
  s_out, n_in,
  compass,   \* the key store: the checkpoint of each side that has one
  sent,      \* history: the coordinate of each message
  got,       \* history: the messages picked up, in order
  expired,   \* history: how many envelopes expired
  forgotten, \* history: how many pick-ups the receiver's restarts forgot
  crashes    \* history: restarts per side

dropVars ==
  <<now, slots, s_out, n_in, compass, sent, got, expired, forgotten, crashes>>

Sides == {"sender", "receiver"}

Init ==
  /\ now = 0 /\ slots = {} /\ s_out = 0 /\ n_in = 0
  /\ compass = [side \in {} |-> 0]
  /\ sent = <<>> /\ got = <<>> /\ expired = 0 /\ forgotten = 0
  /\ crashes = [side \in Sides |-> 0]

(* Mutant: a coordinate in use keeps both envelopes. *)
MutStoreAt(addr, msg) == slots \cup {[addr |-> addr, msg |-> msg, created |-> now]}

(* store: an envelope at the same coordinate is replaced. *)
StoreAt(addr, msg) ==
  {s \in slots : s.addr # addr} \cup {[addr |-> addr, msg |-> msg, created |-> now]}

(* Mutant: picking up leaves the envelope where it is. *)
MutRetrieve(addr) == slots

Retrieve(addr) == {s \in slots : s.addr # addr}

Due(count) == count % Period = 0

(* checkpoint, after every Period messages. *)
Checkpoint(side, count) ==
  IF Due(count)
  THEN [s \in DOMAIN compass \cup {side} |-> IF s = side THEN count ELSE compass[s]]
  ELSE compass

(* Mutant: a restored counter is one too far. *)
MutFromCheckpoint(side) == IF side \in DOMAIN compass THEN compass[side] + 1 ELSE 0

(* from_checkpoint; without one the navigator starts anew. *)
FromCheckpoint(side) == IF side \in DOMAIN compass THEN compass[side] ELSE 0

Send ==
  /\ Len(sent) < MaxSent
  /\ slots' = StoreAt(s_out, Len(sent) + 1)
  /\ sent' = Append(sent, s_out)
  /\ s_out' = s_out + 1
  /\ compass' = Checkpoint("sender", s_out + 1)
  /\ UNCHANGED <<now, n_in, got, expired, forgotten, crashes>>

(* sweep_addresses, then the first coordinate that holds an envelope. *)
Swept == {s \in slots : s.addr \in n_in .. n_in + max_lookahead - 1}

PickUp ==
  \E s \in Swept :
    /\ \A t \in Swept : s.addr <= t.addr
    /\ slots' = Retrieve(s.addr)
    /\ got' = Append(got, s.msg)
    /\ n_in' = n_in + 1
    /\ compass' = Checkpoint("receiver", n_in + 1)
    /\ Len(got) < 2 * MaxSent
    /\ UNCHANGED <<now, s_out, sent, expired, forgotten, crashes>>

Old(s) == now - s.created >= TTL

(* expire_old runs when somebody calls it, and only then. *)
ExpireOld ==
  /\ slots' = {s \in slots : ~Old(s)}
  /\ expired' = expired + Cardinality({s \in slots : Old(s)})
  /\ UNCHANGED <<now, s_out, n_in, compass, sent, got, forgotten, crashes>>

Tick ==
  /\ now < MaxTime /\ now' = now + 1
  /\ UNCHANGED <<slots, s_out, n_in, compass, sent, got, expired, forgotten, crashes>>

(* The process ends, the navigator is lost and read back. *)
Crash(side) ==
  /\ crashes[side] < MaxCrashes
  /\ crashes' = [crashes EXCEPT ![side] = @ + 1]
  /\ IF side = "sender"
     THEN s_out' = FromCheckpoint(side) /\ UNCHANGED <<n_in, forgotten>>
     ELSE /\ n_in' = FromCheckpoint(side)
          /\ forgotten' = forgotten + (n_in - FromCheckpoint(side))
          /\ UNCHANGED s_out
  /\ UNCHANGED <<now, slots, compass, sent, got, expired>>

Next == Send \/ PickUp \/ ExpireOld \/ Tick \/ \E side \in Sides : Crash(side)

Spec == Init /\ [][Next]_dropVars

-----------------------------------------------------------------------------
TypeOK ==
  /\ now \in 0 .. MaxTime /\ s_out \in 0 .. MaxSent /\ n_in \in 0 .. 2 * MaxSent
  /\ slots \subseteq [addr : 0 .. MaxSent - 1, msg : 1 .. MaxSent, created : 0 .. MaxTime]
  /\ \A side \in DOMAIN compass : side \in Sides /\ compass[side] \in 1 .. 2 * MaxSent

(* dead_drop 64-105, navigator 29-82: no message is picked up twice,       *)
(* whatever restarts; and as long as the sender has not restarted they     *)
(* come in the order of sending, and the next envelope stands no further   *)
(* ahead of n_in than envelopes expired and pick-ups were forgotten, so a  *)
(* sweep longer than both together misses nothing.                         *)
SweepFindsAll ==
  /\ \A i, j \in 1 .. Len(got) : i # j => got[i] # got[j]
  /\ crashes["sender"] = 0 =>
       /\ \A i, j \in 1 .. Len(got) : i < j => got[i] < got[j]
       /\ slots # {} =>
            LET first == Min({s.addr : s \in slots}) IN
            /\ first <= n_in + expired + forgotten
            /\ expired + forgotten < max_lookahead => Swept # {}

(* titan_hopping lib.rs 33: each message gets a coordinate of its own. *)
OneTimeCoordinate ==
  \A i, j \in 1 .. Len(sent) : i # j => sent[i] # sent[j]
=============================================================================
