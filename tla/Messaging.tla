------------------------------ MODULE Messaging -----------------------------
(***************************************************************************)
(* Two Sessions of messaging.rs that share a key, over a medium that may   *)
(* delay, reorder, lose and repeat.  Nothing of a Session is persistent: a *)
(* restarted party begins with both counters at zero.                      *)
(***************************************************************************)
EXTENDS Naturals, Integers, Sequences

CONSTANTS
  MAX_TIMESTAMP_SKEW_MS,
  ENVELOPE_BLOCK_SIZE,
  Ahead,         \* bound: how far Bob's clock is ahead of Alice's
  MaxSent,       \* bound: messages of both parties
  MaxCopies,     \* bound: copies delivered of one message
  MaxTime,       \* bound: the last instant
  MaxRestarts    \* bound: restarts of each party

MessagingConstants ==
  {MAX_TIMESTAMP_SKEW_MS, Ahead, MaxSent, MaxCopies, MaxTime, MaxRestarts} \subseteq Nat

Envelope == INSTANCE Envelope

Party == {"Alice", "Bob"}

VARIABLES
  now,
  session,       \* per party: tx_seq, rx_seq_last, tx_count, rx_count
  wires,         \* every wire sealed: sender, sequence number, type, instant
  copies,        \* per wire, copies delivered
  received,      \* history: what receive returned, to whom and when
  incarnation    \* per party, how often it restarted

messagingVars == <<now, session, wires, copies, received, incarnation>>

NewSession == [tx_seq |-> 0, rx_seq_last |-> 0, tx_count |-> 0, rx_count |-> 0]
Clock(p) == IF p = "Bob" THEN now + Ahead ELSE now

Init ==
  /\ now = 0
  /\ session = [p \in Party |-> NewSession]
  /\ wires = <<>> /\ received = <<>>
  /\ copies = [i \in 1 .. MaxSent |-> 0]
  /\ incarnation = [p \in Party |-> 0]

(* send_payload, for send_text, send_file, send_command and send_ack. *)
SendPayload(p, msg_type) ==
  LET seq == session[p].tx_seq + 1 IN
  /\ Len(wires) < MaxSent
  /\ session' = [session EXCEPT ![p].tx_seq = seq, ![p].tx_count = @ + 1]
  /\ wires' = Append(wires, [from |-> p, seq |-> seq, msg_type |-> msg_type,
                             timestamp_ms |-> Clock(p), at |-> now])
  /\ UNCHANGED <<now, copies, received, incarnation>>

(* An acknowledgement is a message like any other and is answered by       *)
(* nobody: there are no retries.                                           *)
SendAck(p) ==
  /\ \E n \in 1 .. Len(received) : received[n].to = p
  /\ SendPayload(p, "Ack")

Delivered(i) ==
  /\ i \in 1 .. Len(wires) /\ copies[i] < MaxCopies
  /\ copies' = [copies EXCEPT ![i] = @ + 1]
  /\ UNCHANGED <<now, wires, incarnation>>

(* Mutants: the check lets the last number through; the age is not read.   *)
MutSequenceReplay(p, w) == w.seq < session[p].rx_seq_last
MutTimely(p, w) == TRUE

SequenceReplay(p, w) == w.seq <= session[p].rx_seq_last
Timely(p, w) == Envelope!InWindow(w.timestamp_ms, Clock(p))

(* receive does not look at the sender: a party's own message, echoed to   *)
(* it, is returned like one of its peer.                                   *)
Receive(p, i) ==
  /\ Delivered(i)
  /\ LET w == wires[i]
     IN /\ Timely(p, w) /\ ~SequenceReplay(p, w)
        /\ session' = [session EXCEPT ![p].rx_seq_last = w.seq, ![p].rx_count = @ + 1]
        /\ received' = Append(received, [to |-> p, wire |-> i, at |-> now,
                                         in |-> incarnation[p]])

Refuse(p, i) ==
  /\ Delivered(i)
  /\ ~Timely(p, wires[i]) \/ SequenceReplay(p, wires[i])
  /\ UNCHANGED <<session, received>>

Restart(p) ==
  /\ incarnation[p] < MaxRestarts
  /\ incarnation' = [incarnation EXCEPT ![p] = @ + 1]
  /\ session' = [session EXCEPT ![p] = NewSession]
  /\ UNCHANGED <<now, wires, copies, received>>

Tick ==
  /\ now < MaxTime
  /\ now' = now + 1
  /\ UNCHANGED <<session, wires, copies, received, incarnation>>

Next ==
  \/ \E p \in Party : SendPayload(p, "Text") \/ SendAck(p) \/ Restart(p)
  \/ \E p \in Party, i \in 1 .. MaxSent : Receive(p, i) \/ Refuse(p, i)
  \/ Tick

Spec == Init /\ [][Next]_messagingVars

-----------------------------------------------------------------------------
(* One session returns messages, its own echoed to it among them, in       *)
(* increasing order of their numbers, hence none twice; across restarts,   *)
(* where the counters are forgotten, what bounds a replay is the clock:    *)
(* nothing is returned longer after it was sealed than the skew and the    *)
(* difference of the clocks allow (messaging.rs 117-134, framing.rs        *)
(* 312-321).                                                               *)
OnceAndRecent ==
  /\ \A m, n \in 1 .. Len(received) :
       m < n /\ received[m].to = received[n].to /\ received[m].in = received[n].in
         => wires[received[m].wire].seq < wires[received[n].wire].seq
  /\ \A n \in 1 .. Len(received) :
       received[n].at - wires[received[n].wire].at <= MAX_TIMESTAMP_SKEW_MS + Ahead
=============================================================================
