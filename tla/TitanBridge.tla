----------------------------- MODULE TitanBridge ----------------------------
(***************************************************************************)
(* TitanBridge of titan_spi.rs.  A call builds a request, sends it in one  *)
(* SPI transfer, waits a fixed time and reads what the device then holds:  *)
(* nothing readable, the response to this request, or still the one to an  *)
(* earlier request.  The device is external: it speaks HLP and answers     *)
(* each kind of request with its own kind of response.                     *)
(***************************************************************************)
EXTENDS Integers, Sequences, FiniteSets

CONSTANTS MaxSeq,     \* u32::MAX
          MaxCalls    \* bound: calls that take a sequence number

BridgeConstants == MaxSeq \in Nat /\ MaxCalls \in Nat

VARIABLES
  sim_mode, connected, heartbeat_counter,
  calls,     \* next_seq calls so far; sequence is calls modulo its range
  request,   \* the request of the call in progress, None between calls
  device,    \* the requests that reached the device, oldest first
  done       \* history: per finished call its operation, verdict and source

bridgeVars == <<sim_mode, connected, heartbeat_counter, calls, request, device, done>>

None == [op |-> "none"]
Ops == {"encrypt", "decrypt", "status", "heartbeat", "kill"}

(* The response the device gives to each request. *)
ResponseTo == [encrypt |-> "EncryptResponse", decrypt |-> "DecryptResponse",
               status |-> "StatusResponse", heartbeat |-> "HeartbeatAck",
               kill |-> "KillAck"]

Init ==
  /\ sim_mode \in BOOLEAN /\ connected = FALSE /\ heartbeat_counter = 0
  /\ calls = 0 /\ request = None /\ device = <<>> /\ done = <<>>

Idle == request = None /\ Len(done) < MaxCalls

(* connect opens nothing and cannot fail. *)
Connect ==
  /\ Idle /\ connected' = TRUE
  /\ UNCHANGED <<sim_mode, heartbeat_counter, calls, request, device, done>>

(* Mutant: the number does not move when a heartbeat takes it. *)
MutNextSeq(op) ==
  IF op = "heartbeat" /\ ~sim_mode THEN calls
  ELSE IF sim_mode /\ op \in {"status", "heartbeat"} THEN calls ELSE calls + 1

(* next_seq; a simulated status or heartbeat takes no number. *)
NextSeq(op) ==
  IF sim_mode /\ op \in {"status", "heartbeat"} THEN calls ELSE calls + 1

(* encrypt and decrypt ask for a connection, the others do not. *)
MayCall(op) == op \in {"encrypt", "decrypt"} => connected

Result(op, ok, of) == [op |-> op, call |-> calls, ok |-> ok, of |-> of]

(* In simulation the answer comes from the bridge itself. *)
SimCall(op) ==
  /\ Idle /\ sim_mode /\ MayCall(op)
  /\ calls' = NextSeq(op)
  /\ heartbeat_counter' = heartbeat_counter + (IF op = "heartbeat" THEN 1 ELSE 0)
  /\ done' = Append(done, Result(op, TRUE, [op |-> op, call |-> calls]))
  /\ UNCHANGED <<sim_mode, connected, request, device>>

Call(op) ==
  /\ Idle /\ ~sim_mode /\ MayCall(op)
  /\ request' = [op |-> op, call |-> calls, seq |-> calls % (MaxSeq + 1),
                 counter |-> heartbeat_counter]
  /\ calls' = NextSeq(op)
  /\ UNCHANGED <<sim_mode, connected, heartbeat_counter, device, done>>

Finish(ok, of) ==
  /\ done' = Append(done, [op |-> request.op, call |-> request.call, ok |-> ok, of |-> of])
  /\ request' = None
  /\ heartbeat_counter' = heartbeat_counter + (IF ok /\ request.op = "heartbeat" THEN 1 ELSE 0)
  /\ UNCHANGED <<sim_mode, connected, calls>>

(* Opening the device or an ioctl before or of the transfer fails: an      *)
(* error, false for a heartbeat, and Ok for kill all the same.             *)
TransferFails ==
  /\ request # None
  /\ Finish(request.op = "kill", None)
  /\ UNCHANGED device

(* Mutant: every response that parses will do. *)
MutAccepts(op, answered, long) == op = "status" => long

(* What each caller asks of a response that parses: its kind, for a        *)
(* heartbeat 36 bytes and a valid MAC over the counter they carry, for a   *)
(* status 24 bytes of whatever kind.                                       *)
Accepts(op, answered, long) ==
  CASE op \in {"encrypt", "decrypt"} -> ResponseTo[answered.op] = ResponseTo[op]
    [] op = "heartbeat" -> ResponseTo[answered.op] = "HeartbeatAck" /\ long
    [] op = "status" -> long
    [] op = "kill" -> TRUE

(* The rest of spi_transact: the request is out, and what is read answers  *)
(* request i of all that reached the device; long tells whether its        *)
(* payload has the size asked for.                                         *)
ReadResponse(i, long) ==
  /\ request # None
  /\ device' = Append(device, request)
  /\ LET answered == device'[i] IN
     /\ answered.op \in {"status", "heartbeat"} => long
     /\ answered.op = "kill" => ~long
     /\ IF Accepts(request.op, answered, long)
        THEN Finish(TRUE, [op |-> answered.op, call |-> answered.call])
        ELSE Finish(FALSE, None)

(* The response read is not a packet, or the second ioctl fails. *)
ReadFails ==
  /\ request # None
  /\ device' = Append(device, request)
  /\ Finish(request.op = "kill", None)

Next ==
  \/ Connect \/ TransferFails \/ ReadFails
  \/ \E op \in Ops : SimCall(op) \/ Call(op)
  \/ \E i \in 1 .. Len(device) + 1, long \in BOOLEAN : ReadResponse(i, long)

Spec == Init /\ [][Next]_bridgeVars

-----------------------------------------------------------------------------
TypeOK ==
  /\ sim_mode \in BOOLEAN /\ connected \in BOOLEAN
  /\ heartbeat_counter \in 0 .. MaxCalls /\ calls \in 0 .. MaxCalls
  /\ request = None \/ (request.op \in Ops /\ request.seq \in 0 .. MaxSeq)
  /\ Len(device) <= calls /\ Len(done) <= MaxCalls

(* A result of encrypt, decrypt or heartbeat comes from a request of the   *)
(* same operation; the heartbeat counter is the number of heartbeats       *)
(* answered, whatever failed in between, so a heartbeat repeats a counter  *)
(* only after an unanswered one; and sequence numbers repeat only after    *)
(* the whole range (titan_spi.rs 181-307, 473).                            *)
AnswersBelieved ==
  /\ \A i \in 1 .. Len(done) :
       done[i].ok /\ done[i].op \in {"encrypt", "decrypt", "heartbeat"}
         => done[i].of.op = done[i].op
  /\ heartbeat_counter =
       Cardinality({i \in DOMAIN done : done[i].ok /\ done[i].op = "heartbeat"})
  /\ \A i, j \in 1 .. Len(device) :
       i < j /\ device[i].seq = device[j].seq => device[j].call - device[i].call > MaxSeq
=============================================================================
