--------------------------- MODULE TrafficShaping ---------------------------
(***************************************************************************)
(* What shapes the traffic of a node: TopicRotator (topic_rotation.rs),    *)
(* DecoyGenerator (decoy.rs) and JitteredSend (tor_jitter.rs).  Time is    *)
(* relative: ages and delays in ticks, counted no further than they        *)
(* matter.  The owner asks check_and_rotate before each message it sends   *)
(* and polls should_send whenever it likes.                                *)
(***************************************************************************)
EXTENDS Integers, Sequences

CONSTANTS
  max_messages, max_duration,      \* TopicRotationConfig (100, 1 h)
  base_interval, max_jitter,       \* DecoyConfig (30 s, 15 s)
  max_per_minute, Minute,          \* DecoyConfig (10), 60 s
  min_jitter_ms, max_jitter_ms,    \* TorJitterConfig (500, 5000)
  MaxTopics                        \* bound: rotations counted

ShapingConstants ==
  /\ {max_messages, max_duration, base_interval, Minute} \subseteq Nat \ {0}
  /\ {max_jitter, max_per_minute, min_jitter_ms, max_jitter_ms, MaxTopics} \subseteq Nat
  /\ min_jitter_ms < max_jitter_ms       \* else compute_jitter divides by zero

VARIABLES
  topic,      \* TopicRotator: counter, msg_count, age; checked since the last send
  decoy,      \* DecoyGenerator: next_send, minute_count, minute_window; enabled
  decoyAges,  \* history: ages of the decoys of the last Minute, newest first
  pending     \* JitteredSends not yet sent, oldest first: age, delay

shapingVars == <<topic, decoy, decoyAges, pending>>

(* compute_jitter *)
JitterDelays == {min_jitter_ms + (r % (max_jitter_ms - min_jitter_ms)) :
                   r \in 0 .. 2 * max_jitter_ms}

(* compute_jittered_interval: the jitter is only ever added. *)
Intervals == IF max_jitter = 0 THEN {base_interval}
             ELSE {base_interval + (r % max_jitter) : r \in 0 .. 2 * max_jitter}

Init ==
  /\ topic = [counter |-> 1, msg_count |-> 0, age |-> 0, checked |-> FALSE]
  /\ \E i \in Intervals :
       decoy = [next_send |-> i, minute_count |-> 0, minute_window |-> 0, enabled |-> TRUE]
  /\ decoyAges = <<>> /\ pending = <<>>

-----------------------------------------------------------------------------
(* topic_rotation.rs *)
Rotated(checked) == [counter |-> topic.counter + 1, msg_count |-> 0, age |-> 0,
                     checked |-> checked]

(* Mutant: one message too many. *)
MutShouldRotate == topic.msg_count > max_messages \/ topic.age >= max_duration
ShouldRotate == topic.msg_count >= max_messages \/ topic.age >= max_duration

Rotate ==
  /\ topic.counter < MaxTopics /\ topic' = Rotated(FALSE)
  /\ UNCHANGED <<decoy, decoyAges, pending>>

CheckAndRotate ==
  /\ topic.counter < MaxTopics
  /\ topic' = IF ShouldRotate THEN Rotated(TRUE) ELSE [topic EXCEPT !.checked = TRUE]
  /\ UNCHANGED <<decoy, decoyAges, pending>>

RecordMessage ==
  /\ topic.checked
  /\ topic' = [topic EXCEPT !.msg_count = @ + 1, !.checked = FALSE]
  /\ UNCHANGED <<decoy, decoyAges, pending>>

-----------------------------------------------------------------------------
(* decoy.rs: the window is renewed whether a decoy is due or not. *)
Window == IF decoy.minute_window >= Minute
          THEN [decoy EXCEPT !.minute_count = 0, !.minute_window = 0] ELSE decoy

(* Mutant: the limit is looked at after the decoy was counted. *)
MutLimited == Window.minute_count > max_per_minute
Limited == Window.minute_count >= max_per_minute

SendDecoy ==
  /\ decoy.enabled /\ ~Limited /\ decoy.next_send = 0
  /\ \E i \in Intervals :
       decoy' = [Window EXCEPT !.next_send = i, !.minute_count = @ + 1]
  /\ decoyAges' = <<0>> \o decoyAges
  /\ UNCHANGED <<topic, pending>>

SendNoDecoy ==
  /\ decoy.enabled /\ (Limited \/ decoy.next_send > 0)
  /\ decoy' = Window
  /\ UNCHANGED <<topic, decoyAges, pending>>

SetEnabled ==
  /\ decoy' = [decoy EXCEPT !.enabled = ~@]
  /\ UNCHANGED <<topic, decoyAges, pending>>

-----------------------------------------------------------------------------
(* tor_jitter.rs: every message has a delay of its own. *)
Schedule ==
  /\ Len(pending) < 2
  /\ \E d \in JitterDelays : pending' = Append(pending, [age |-> 0, delay |-> d])
  /\ UNCHANGED <<topic, decoy, decoyAges>>

Due(i) == pending[i].age >= pending[i].delay
SendJittered(i) ==
  /\ i \in 1 .. Len(pending) /\ Due(i)
  /\ pending' = SubSeq(pending, 1, i - 1) \o SubSeq(pending, i + 1, Len(pending))
  /\ UNCHANGED <<topic, decoy, decoyAges>>

Earlier(n) == IF n = 0 THEN 0 ELSE n - 1
Later(n, cap) == IF n = cap THEN cap ELSE n + 1

(* A send whose delay is over goes out before time passes. *)
Tick ==
  /\ \A i \in 1 .. Len(pending) : ~Due(i)
  /\ topic' = [topic EXCEPT !.age = Later(@, max_duration)]
  /\ decoy' = [decoy EXCEPT !.next_send = Earlier(@), !.minute_window = Later(@, Minute)]
  /\ decoyAges' = [i \in {j \in DOMAIN decoyAges : decoyAges[j] + 1 < Minute} |->
                      decoyAges[i] + 1]
  /\ pending' = [i \in DOMAIN pending |-> [pending[i] EXCEPT !.age = @ + 1]]

(* The three shapers share only the clock. *)
TopicNext == Rotate \/ CheckAndRotate \/ RecordMessage
DecoyNext == SendDecoy \/ SendNoDecoy \/ SetEnabled
JitterNext == Schedule \/ \E i \in 1 .. 2 : SendJittered(i)

Next == TopicNext \/ DecoyNext \/ JitterNext \/ Tick
Spec == Init /\ [][Next]_shapingVars

-----------------------------------------------------------------------------
(* However rotations by count, by age and by hand mix, no topic carries    *)
(* more than max_messages (topic_rotation.rs 81-106).                      *)
TopicBudget == topic.msg_count <= max_messages

(* However polls are timed, two decoys are base_interval apart, and a      *)
(* minute that starts anywhere holds at most the budget of two windows:    *)
(* the window restarts at a poll, so max_per_minute bounds a window and    *)
(* not a minute (decoy.rs 73-101).                                         *)
DecoysPaced ==
  /\ \A i \in 1 .. Len(decoyAges) - 1 : decoyAges[i + 1] - decoyAges[i] >= base_interval
  /\ Len(decoyAges) <= 2 * max_per_minute
  /\ decoy.minute_count <= max_per_minute

(* Messages overtake each other, but never by more than the range of the   *)
(* jitter: one that may go has no elder, older by that range, still        *)
(* waiting (tor_jitter.rs 34-63).                                          *)
JitterReordersLocally ==
  \A i, j \in 1 .. Len(pending) :
    i < j /\ Due(j) /\ ~Due(i)
      => pending[i].age - pending[j].age < max_jitter_ms - min_jitter_ms
=============================================================================
