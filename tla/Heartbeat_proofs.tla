--------------------------- MODULE Heartbeat_proofs ---------------------------
(* For every interval, timeout and length of an HMAC, what the heartbeat of  *)
(* the two FPGAs promises: the verdict on the other FPGA is earned by an     *)
(* answer to the last challenge and does not outlive a round, and a ready    *)
(* tag is the one the responder means.                                       *)
EXTENDS MCBoard, SequenceTheorems, TLAPS

HbStates == {"HB_IDLE", "HB_RANDOM_WAIT", "HB_GET_NONCE", "HB_COMPUTE", "HB_WAIT_HMAC",
             "HB_SEND_CHALLENGE", "HB_WAIT_RESPONSE", "HB_VERIFY", "HB_DONE"}

Registers ==
  [state : HbStates, interval_cnt : 0 .. INTERVAL_CYCLES - 1,
   resp_timer : 0 .. RESP_TIMEOUT - 1, random_delay_cnt : 0 .. MaxDelay,
   nonce_words : 0 .. 1, nonce : 0 .. MaxRounds, counter : 0 .. MaxRounds,
   our_tag : Heartbeat!Challenges, hb_ok_reg : BOOLEAN,
   hb_fail_reg : BOOLEAN, hmac_start : BOOLEAN, challenge_valid : BOOLEAN]
CtrlTypes == ctrl \in Registers
CoreTypes(c) == c \in [left : 0 .. HmacCycles, msg : Heartbeat!Challenges]
LinkTypes ==
  /\ response \in [valid : BOOLEAN, tag : Heartbeat!Challenges]
  /\ fetched \subseteq Heartbeat!Challenges /\ tags \subseteq Heartbeat!Challenges
  /\ drawn \in 0 .. MaxRounds /\ age \in Nat
RespTypes ==
  /\ resp \in [state : {"RS_IDLE", "RS_COMPUTING", "RS_READY"},
               challenge_reg : Heartbeat!Challenges, tag_reg : Heartbeat!Challenges,
               ready_reg : BOOLEAN, hmac_start : BOOLEAN]
  /\ crossed \in {"nothing", "result", "computation"}

\* The core of the controller works in HB_WAIT_HMAC alone, on its challenge.
CoreInv ==
  IF ctrl.state = "HB_WAIT_HMAC"
  THEN IF ctrl.hmac_start THEN core.left = 0
       ELSE core.left > 0 /\ core.msg = Heartbeat!Challenge
  ELSE core.left = 0 /\ ~ctrl.hmac_start

\* From the draw to the verdict the nonce is one, and then the tag its own.
RoundInv ==
  /\ ctrl.counter <= drawn
  /\ ctrl.challenge_valid => ctrl.state = "HB_WAIT_RESPONSE"
  /\ ctrl.state \in {"HB_COMPUTE", "HB_WAIT_HMAC", "HB_SEND_CHALLENGE",
                     "HB_WAIT_RESPONSE", "HB_VERIFY"} => ctrl.nonce > 0
  /\ ctrl.state \in {"HB_SEND_CHALLENGE", "HB_WAIT_RESPONSE", "HB_VERIFY"}
     => ctrl.our_tag = Heartbeat!Challenge
  /\ ctrl.state = "HB_RANDOM_WAIT" => ctrl.random_delay_cnt > 0

VerdictInv ==
  /\ response.tag \in tags \cup {Heartbeat!Zero}
  /\ ctrl.hb_ok_reg => last \in tags /\ ~ctrl.hb_fail_reg

Drawing == 1 + INTERVAL_CYCLES + MaxDelay

\* How old the verdict can be in each state of the round.
AgeInv ==
  /\ ~ctrl.hb_ok_reg => age = 0
  /\ ctrl.state = "HB_IDLE" => age <= 1 + ctrl.interval_cnt
  /\ ctrl.state = "HB_RANDOM_WAIT" => age + ctrl.random_delay_cnt <= Drawing
  /\ ctrl.state = "HB_GET_NONCE" => age <= Drawing + ctrl.nonce_words
  /\ ctrl.state = "HB_COMPUTE" => age <= Drawing + 2
  /\ ctrl.state = "HB_WAIT_HMAC" =>
       age <= Drawing + 3 + (IF ctrl.hmac_start THEN 0 ELSE 1 + HmacCycles - core.left)
  /\ ctrl.state = "HB_SEND_CHALLENGE" => age <= Drawing + 4 + HmacCycles
  /\ ctrl.state = "HB_WAIT_RESPONSE" => age <= Drawing + 5 + HmacCycles + ctrl.resp_timer
  /\ ctrl.state = "HB_VERIFY" => age <= Drawing + 5 + HmacCycles + RESP_TIMEOUT
  /\ ctrl.state = "HB_DONE" => age = 0

CtrlInv == /\ CtrlTypes /\ CoreTypes(core) /\ LinkTypes
           /\ CoreInv /\ RoundInv /\ VerdictInv /\ AgeInv

\* A tag comes from a challenge the master took, by way of the core.
FetchedInv ==
  /\ tags \subseteq fetched
  /\ resp.hmac_start => resp.challenge_reg \in fetched
  /\ resp_core.left > 0 => resp_core.msg \in fetched
  /\ resp.ready_reg => resp.tag_reg \in fetched

\* In RS_COMPUTING a result is on its way, that of the last challenge but for
\* one that crossed it; in RS_READY it is there, but for one that a challenge
\* took back, whose own result is never stored.
OnOffer ==
  /\ resp.state = "RS_IDLE" => ~resp.ready_reg /\ ~resp.hmac_start /\ resp_core.left = 0
  /\ resp.state = "RS_COMPUTING" =>
       /\ ~resp.ready_reg /\ crossed # "result"
       /\ resp_core.left > 0 \/ resp.hmac_start
       /\ crossed = "nothing" =>
            IF resp_core.left > 0
            THEN resp_core.msg = resp.challenge_reg /\ ~resp.hmac_start
            ELSE resp.hmac_start
  /\ resp.state = "RS_READY" =>
       IF crossed = "result" THEN ~resp.ready_reg
       ELSE /\ resp.ready_reg /\ resp_core.left = 0 /\ ~resp.hmac_start
            /\ resp.tag_reg = resp.challenge_reg \/ crossed = "computation"

RespInv == RespTypes /\ CoreTypes(resp_core) /\ LinkTypes /\ FetchedInv /\ OnOffer
HeartbeatInv == CtrlInv /\ RespInv
-----------------------------------------------------------------------------
LEMMA HeartbeatSizes ==
  /\ INTERVAL_CYCLES \in Nat \ {0} /\ RESP_TIMEOUT \in Nat \ {0}
  /\ MaxDelay \in Nat \ {0} /\ MaxRounds \in Nat \ {0} /\ HmacCycles \in Nat \ {0, 1}
PROOF BY TimerSizes DEF Heartbeat!HeartbeatConstants

LEMMA ZeroTypes == Heartbeat!Zero \in Heartbeat!Challenges /\ Heartbeat!Zero.nonce = 0
PROOF BY HeartbeatSizes DEF Heartbeat!Zero, Heartbeat!Challenges

LEMMA CoreSteps ==
  ASSUME NEW c, CoreTypes(c), NEW start \in BOOLEAN, NEW m \in Heartbeat!Challenges,
         NEW d, d = Heartbeat!CoreStep(c, start, m)
  PROVE  /\ CoreTypes(d)
         /\ c.left > 0 => d.left = c.left - 1 /\ d.msg = c.msg
         /\ c.left = 0 /\ start => d.left = HmacCycles /\ d.msg = m
         /\ c.left = 0 /\ ~start => d = c
PROOF
<1> USE HeartbeatSizes
<1>1. c.left \in 0 .. HmacCycles /\ c.msg \in Heartbeat!Challenges
  BY DEF CoreTypes
<1>2. CASE c.left > 0
  <2>1. d = [c EXCEPT !.left = @ - 1]
    BY <1>2, Zenon DEF Heartbeat!CoreStep
  <2> QED BY <1>1, <1>2, <2>1 DEF CoreTypes
<1>3. CASE ~(c.left > 0) /\ start
  <2>1. d = [left |-> HmacCycles, msg |-> m]
    BY <1>3, Zenon DEF Heartbeat!CoreStep
  <2>2. CoreTypes(d) /\ d.left = HmacCycles /\ d.msg = m
    BY <2>1 DEF CoreTypes
  <2> QED BY <1>3, <2>2, Zenon
<1>4. CASE ~(c.left > 0) /\ ~start
  <2>1. d = c
    BY <1>4, Zenon DEF Heartbeat!CoreStep
  <2> QED BY <1>1, <1>4, <2>1, Zenon
<1> QED BY <1>2, <1>3, <1>4, Zenon

Cleared == [ctrl EXCEPT !.hmac_start = FALSE, !.challenge_valid = FALSE]

Restarted ==
  /\ Cleared \in Registers /\ ctrl \in Registers
  /\ Cleared.state = ctrl.state /\ Cleared.interval_cnt = ctrl.interval_cnt
  /\ Cleared.resp_timer = ctrl.resp_timer
  /\ Cleared.random_delay_cnt = ctrl.random_delay_cnt
  /\ Cleared.nonce_words = ctrl.nonce_words /\ Cleared.nonce = ctrl.nonce
  /\ Cleared.counter = ctrl.counter /\ Cleared.our_tag = ctrl.our_tag
  /\ Cleared.hb_ok_reg = ctrl.hb_ok_reg /\ Cleared.hb_fail_reg = ctrl.hb_fail_reg
  /\ Cleared.hmac_start = FALSE /\ Cleared.challenge_valid = FALSE

LEMMA ClearedFields == CtrlInv => Restarted
PROOF BY DEF CtrlInv, CtrlTypes, Cleared, Registers, Restarted

\* What a cycle does to the rest of the state, whatever the controller does.
LEMMA EdgeFrame ==
  ASSUME CtrlInv, Heartbeat!CtrlEdge
  PROVE  /\ core' = Heartbeat!CoreStep(core, ctrl.hmac_start, Heartbeat!Challenge)
         /\ response' \in [valid : BOOLEAN, tag : Heartbeat!Challenges]
         /\ response'.tag \in tags \cup {Heartbeat!Zero}
         /\ fetched \subseteq fetched' /\ fetched' \subseteq Heartbeat!Challenges
         /\ UNCHANGED <<resp, resp_core, tags, crossed>>
PROOF
<1> USE DEF CtrlInv
<1>1. Heartbeat!Challenge \in Heartbeat!Challenges
  BY DEF Heartbeat!Challenge, Heartbeat!Challenges, CtrlTypes, Registers
<1>2. /\ core' = Heartbeat!CoreStep(core, ctrl.hmac_start, Heartbeat!Challenge)
      /\ UNCHANGED <<resp, resp_core, tags, crossed>>
  BY Zenon DEF Heartbeat!CtrlEdge
<1>3. \/ response' = [response EXCEPT !.valid = FALSE]
      \/ \E tag \in tags \cup {Heartbeat!Zero} : response' = [valid |-> TRUE, tag |-> tag]
  BY Zenon DEF Heartbeat!CtrlEdge, Heartbeat!NoCommand, Heartbeat!CmdHbChallenge,
     Heartbeat!CmdHeartbeat
<1>4. fetched' = fetched \/ fetched' = fetched \cup {Heartbeat!Challenge}
  BY Zenon DEF Heartbeat!CtrlEdge, Heartbeat!NoCommand, Heartbeat!CmdHbChallenge,
     Heartbeat!CmdHeartbeat
<1>5. response' \in [valid : BOOLEAN, tag : Heartbeat!Challenges]
      /\ response'.tag \in tags \cup {Heartbeat!Zero}
  <2>1. CASE response' = [response EXCEPT !.valid = FALSE]
    BY <2>1 DEF LinkTypes, VerdictInv
  <2>2. ASSUME NEW tag \in tags \cup {Heartbeat!Zero}, response' = [valid |-> TRUE, tag |-> tag]
        PROVE  <1>5!1 /\ <1>5!2
    BY <2>2, ZeroTypes DEF LinkTypes
  <2> QED BY <1>3, <2>1, <2>2
<1> QED BY <1>1, <1>2, <1>4, <1>5 DEF LinkTypes

\* The verdict ages by a cycle at most, and a round that ends renews it.
LEMMA HistoryFrame ==
  ASSUME CtrlInv, Heartbeat!CtrlEdge
  PROVE  /\ age' \in Nat /\ age' <= age + 1
         /\ ~ctrl'.hb_ok_reg => age' = 0
         /\ Heartbeat!Ending => age' = 0 /\ last' = Heartbeat!Challenge
         /\ ~Heartbeat!Ending => last' = last
         /\ ctrl.state = "HB_GET_NONCE" /\ ctrl' = ctrl => age' \in {0, age}
PROOF
<1>1. age \in Nat
  BY DEF CtrlInv, LinkTypes
<1>2. Heartbeat!CtrlHistory
  BY Zenon DEF Heartbeat!CtrlEdge
<1>3. CASE ~ctrl'.hb_ok_reg \/ Heartbeat!Ending
  <2>1. age' = 0
    BY <1>2, <1>3, Zenon DEF Heartbeat!CtrlHistory
  <2>2. 0 \in Nat /\ 0 <= age + 1 /\ 0 \in {0, age}
    BY <1>1
  <2> QED BY <1>2, <2>1, <2>2, Zenon DEF Heartbeat!CtrlHistory
<1>4. CASE ~(~ctrl'.hb_ok_reg \/ Heartbeat!Ending)
  <2>1. age' = IF ctrl.state = "HB_GET_NONCE" /\ ctrl' = ctrl THEN age ELSE age + 1
    BY <1>2, <1>4, Zenon DEF Heartbeat!CtrlHistory
  <2>2. /\ age' \in Nat /\ age' <= age + 1
        /\ ctrl.state = "HB_GET_NONCE" /\ ctrl' = ctrl => age' \in {0, age}
    BY <1>1, <2>1
  <2> QED BY <1>2, <1>4, <2>2, Zenon DEF Heartbeat!CtrlHistory
<1> QED BY <1>3, <1>4, Zenon

\* What no state but HB_GET_NONCE, HB_WAIT_HMAC and the two that judge changes.
SameRound ==
  /\ ctrl' \in Registers
  /\ ctrl'.nonce = ctrl.nonce /\ ctrl'.counter = ctrl.counter
  /\ ctrl'.our_tag = ctrl.our_tag
  /\ ctrl'.hb_ok_reg = ctrl.hb_ok_reg /\ ctrl'.hb_fail_reg = ctrl.hb_fail_reg

LEMMA IdleOutcome ==
  ASSUME CtrlInv, NEW wait \in 1 .. MaxDelay, ctrl.state = "HB_IDLE",
         ctrl' = Heartbeat!HbIdle(Cleared, wait)
  PROVE  /\ SameRound /\ ctrl'.hmac_start = FALSE /\ ctrl'.challenge_valid = FALSE
         /\ \/ ctrl'.state = "HB_IDLE" /\ ctrl'.interval_cnt = ctrl.interval_cnt + 1
            \/ ctrl'.state = "HB_RANDOM_WAIT" /\ ctrl'.random_delay_cnt = wait
PROOF
<1> USE HeartbeatSizes
<1>1. Restarted
  BY ClearedFields
<1>2. CASE ctrl.interval_cnt >= INTERVAL_CYCLES - 1
  <2>1. ctrl' = [Cleared EXCEPT !.interval_cnt = 0, !.state = "HB_RANDOM_WAIT",
                                !.random_delay_cnt = wait, !.nonce_words = 0]
    BY <1>1, <1>2, Zenon DEF Heartbeat!HbIdle, Restarted
  <2>2. /\ 0 \in 0 .. INTERVAL_CYCLES - 1 /\ wait \in 0 .. MaxDelay /\ 0 \in 0 .. 1
        /\ "HB_RANDOM_WAIT" \in HbStates
    BY DEF HbStates
  <2> QED BY <1>1, <2>1, <2>2 DEF Restarted, SameRound, Registers, HbStates
<1>3. CASE ~(ctrl.interval_cnt >= INTERVAL_CYCLES - 1)
  <2>1. ctrl' = [Cleared EXCEPT !.interval_cnt = @ + 1]
    BY <1>1, <1>3, Zenon DEF Heartbeat!HbIdle, Restarted
  <2>2. ctrl.interval_cnt + 1 \in 0 .. INTERVAL_CYCLES - 1
    BY <1>1, <1>3 DEF Restarted, Registers
  <2> QED BY <1>1, <1>3, <2>1, <2>2 DEF Restarted, SameRound, Registers, HbStates
<1> QED BY <1>2, <1>3, Zenon

LEMMA RandomWaitOutcome ==
  ASSUME CtrlInv, ctrl.state = "HB_RANDOM_WAIT", ctrl' = Heartbeat!HbRandomWait(Cleared)
  PROVE  /\ SameRound /\ ctrl'.hmac_start = FALSE /\ ctrl'.challenge_valid = FALSE
         /\ \/ ctrl'.state = "HB_GET_NONCE"
            \/ /\ ctrl'.state = "HB_RANDOM_WAIT" /\ ctrl.random_delay_cnt > 1
               /\ ctrl'.random_delay_cnt = ctrl.random_delay_cnt - 1
PROOF
<1> USE HeartbeatSizes
<1>1. Restarted
  BY ClearedFields
<1>2. CASE ctrl.random_delay_cnt <= 1
  <2>1. ctrl' = [Cleared EXCEPT !.state = "HB_GET_NONCE"]
    BY <1>1, <1>2, Zenon DEF Heartbeat!HbRandomWait, Restarted
  <2> QED BY <1>1, <1>2, <2>1 DEF Restarted, SameRound, Registers, HbStates
<1>3. CASE ~(ctrl.random_delay_cnt <= 1)
  <2>1. ctrl' = [Cleared EXCEPT !.random_delay_cnt = @ - 1]
    BY <1>1, <1>3, Zenon DEF Heartbeat!HbRandomWait, Restarted
  <2>2. ctrl.random_delay_cnt - 1 \in 0 .. MaxDelay /\ ctrl.random_delay_cnt > 1
    BY <1>1, <1>3 DEF Restarted, Registers
  <2> QED BY <1>1, <1>3, <2>1, <2>2 DEF Restarted, SameRound, Registers, HbStates
<1> QED BY <1>2, <1>3, Zenon

\* HB_GET_NONCE when a word of the TRNG is there.
Drew == IF Cleared.nonce_words = 0 THEN [Cleared EXCEPT !.nonce_words = 1]
        ELSE [Cleared EXCEPT !.nonce = drawn + 1, !.counter = @ + 1,
                             !.state = "HB_COMPUTE"]

LEMMA GetNonceOutcome ==
  ASSUME CtrlInv, ctrl.state = "HB_GET_NONCE",
         \/ ctrl' = Cleared
         \/ drawn < MaxRounds /\ ctrl' = Drew
  PROVE  /\ ctrl' \in Registers /\ ctrl'.our_tag = ctrl.our_tag
         /\ ctrl'.hb_ok_reg = ctrl.hb_ok_reg /\ ctrl'.hb_fail_reg = ctrl.hb_fail_reg
         /\ ctrl'.hmac_start = FALSE /\ ctrl'.challenge_valid = FALSE
         /\ \/ ctrl' = Cleared /\ SameRound
            \/ /\ ctrl'.state = "HB_GET_NONCE" /\ ctrl.nonce_words = 0
               /\ ctrl'.nonce_words = 1 /\ SameRound
            \/ /\ ctrl'.state = "HB_COMPUTE" /\ ctrl.nonce_words = 1 /\ drawn < MaxRounds
               /\ ctrl'.nonce = drawn + 1 /\ ctrl'.counter = ctrl.counter + 1
PROOF
<1> USE HeartbeatSizes
<1>1. Restarted
  BY ClearedFields
<1>2. CASE ctrl' = Cleared
  BY <1>1, <1>2 DEF Restarted, SameRound, Registers, HbStates
<1>3. CASE ctrl' = Drew /\ ctrl.nonce_words = 0
  <2>1. ctrl' = [Cleared EXCEPT !.nonce_words = 1] /\ ctrl.nonce_words = 0 /\ 1 \in 0 .. 1
    BY <1>1, <1>3 DEF Drew, Restarted
  <2> QED BY <1>1, <2>1 DEF Restarted, SameRound, Registers, HbStates
<1>4. CASE /\ drawn < MaxRounds /\ ctrl' = Drew
           /\ ctrl.nonce_words # 0
  <2>1. ctrl' = [Cleared EXCEPT !.nonce = drawn + 1, !.counter = @ + 1,
                                !.state = "HB_COMPUTE"]
    BY <1>1, <1>4, Zenon DEF Drew, Restarted
  <2>2. drawn < MaxRounds
    BY <1>4
  <2>3. ctrl.nonce_words = 1 /\ drawn + 1 \in 0 .. MaxRounds /\ ctrl.counter + 1 \in 0 .. MaxRounds
    BY <1>1, <1>4, <2>2 DEF Restarted, Registers, CtrlInv, LinkTypes, RoundInv
  <2> DEFINE n == drawn + 1
             k == ctrl.counter + 1
  <2>4. /\ ctrl' = [Cleared EXCEPT !.nonce = n, !.counter = k, !.state = "HB_COMPUTE"]
        /\ n \in 0 .. MaxRounds /\ k \in 0 .. MaxRounds /\ "HB_COMPUTE" \in HbStates
    BY <1>1, <2>1, <2>3 DEF Restarted, HbStates
  <2> HIDE DEF n, k
  <2>5. /\ ctrl' \in Registers /\ ctrl'.nonce = n /\ ctrl'.counter = k
        /\ ctrl'.state = "HB_COMPUTE" /\ ctrl'.our_tag = ctrl.our_tag
        /\ ctrl'.hb_ok_reg = ctrl.hb_ok_reg /\ ctrl'.hb_fail_reg = ctrl.hb_fail_reg
        /\ ctrl'.hmac_start = FALSE /\ ctrl'.challenge_valid = FALSE
    BY <1>1, <2>4 DEF Restarted, Registers
  <2> QED BY <2>2, <2>3, <2>5, Zenon DEF n, k
<1> QED BY <1>2, <1>3, <1>4, Zenon

LEMMA ComputeOutcome ==
  ASSUME CtrlInv, ctrl.state = "HB_COMPUTE", ctrl' = Heartbeat!HbCompute(Cleared)
  PROVE  /\ SameRound /\ ctrl'.hmac_start = TRUE /\ ctrl'.challenge_valid = FALSE
         /\ ctrl'.state = "HB_WAIT_HMAC"
PROOF
<1> USE HeartbeatSizes
<1>1. Restarted
  BY ClearedFields
<1>2. ctrl' = [Cleared EXCEPT !.hmac_start = TRUE, !.state = "HB_WAIT_HMAC"]
  BY Zenon DEF Heartbeat!HbCompute
<1> QED BY <1>1, <1>2 DEF Restarted, SameRound, Registers, HbStates

LEMMA WaitHmacOutcome ==
  ASSUME CtrlInv, ctrl.state = "HB_WAIT_HMAC", ctrl' = Heartbeat!HbWaitHmac(Cleared)
  PROVE  /\ ctrl' \in Registers /\ ctrl'.nonce = ctrl.nonce /\ ctrl'.counter = ctrl.counter
         /\ ctrl'.hb_ok_reg = ctrl.hb_ok_reg /\ ctrl'.hb_fail_reg = ctrl.hb_fail_reg
         /\ ctrl'.hmac_start = FALSE /\ ctrl'.challenge_valid = FALSE
         /\ \/ /\ core.left = 1 /\ ctrl'.our_tag = core.msg
               /\ ctrl'.state = "HB_SEND_CHALLENGE"
            \/ /\ core.left # 1 /\ ctrl'.our_tag = ctrl.our_tag
               /\ ctrl'.state = "HB_WAIT_HMAC"
PROOF
<1> USE HeartbeatSizes
<1>1. Restarted
  BY ClearedFields
<1>2. CASE core.left = 1
  <2>1. ctrl' = [Cleared EXCEPT !.our_tag = core.msg, !.state = "HB_SEND_CHALLENGE"]
    BY <1>1, <1>2, Zenon DEF Heartbeat!HbWaitHmac, Heartbeat!Valid, Restarted
  <2>2. core.msg \in Heartbeat!Challenges
    BY DEF CtrlInv, CoreTypes
  <2> QED BY <1>1, <1>2, <2>1, <2>2 DEF Restarted, SameRound, Registers, HbStates
<1>3. CASE core.left # 1
  <2>1. ctrl' = Cleared
    BY <1>1, <1>3, Zenon DEF Heartbeat!HbWaitHmac, Heartbeat!Valid, Restarted
  <2> QED BY <1>1, <1>3, <2>1 DEF Restarted, SameRound, Registers, HbStates
<1> QED BY <1>2, <1>3, Zenon

LEMMA SendOutcome ==
  ASSUME CtrlInv, ctrl.state = "HB_SEND_CHALLENGE", ctrl' = Heartbeat!HbSendChallenge(Cleared)
  PROVE  /\ SameRound /\ ctrl'.hmac_start = FALSE
         /\ ctrl'.state = "HB_WAIT_RESPONSE" /\ ctrl'.resp_timer = 0
PROOF
<1> USE HeartbeatSizes
<1>1. Restarted
  BY ClearedFields
<1>2. ctrl' = [Cleared EXCEPT !.challenge_valid = TRUE, !.resp_timer = 0,
                           !.state = "HB_WAIT_RESPONSE"]
  BY Zenon DEF Heartbeat!HbSendChallenge
<1>3. 0 \in 0 .. RESP_TIMEOUT - 1
  OBVIOUS
<1> QED BY <1>1, <1>2, <1>3 DEF Restarted, SameRound, Registers, HbStates

LEMMA WaitResponseOutcome ==
  ASSUME CtrlInv, ctrl.state = "HB_WAIT_RESPONSE", ctrl' = Heartbeat!HbWaitResponse(Cleared)
  PROVE  /\ ctrl'.hmac_start = FALSE /\ ctrl'.challenge_valid = FALSE /\ ctrl' \in Registers
         /\ ctrl'.nonce = ctrl.nonce /\ ctrl'.counter = ctrl.counter
         /\ ctrl'.our_tag = ctrl.our_tag
         /\ \/ SameRound /\ ctrl'.state = "HB_VERIFY"
            \/ ctrl'.hb_ok_reg = FALSE /\ ctrl'.state = "HB_DONE"
            \/ /\ SameRound /\ ctrl'.state = "HB_WAIT_RESPONSE"
               /\ ctrl'.resp_timer = ctrl.resp_timer + 1
PROOF
<1> USE HeartbeatSizes
<1>1. Restarted
  BY ClearedFields
<1>2. CASE response.valid
  <2>1. ctrl' = [Cleared EXCEPT !.state = "HB_VERIFY"]
    BY <1>1, <1>2, Zenon DEF Heartbeat!HbWaitResponse, Restarted
  <2> QED BY <1>1, <1>2, <2>1 DEF Restarted, SameRound, Registers, HbStates
<1>3. CASE ~response.valid /\ ctrl.resp_timer >= RESP_TIMEOUT - 1
  <2>1. ctrl' = [Cleared EXCEPT !.hb_fail_reg = TRUE, !.hb_ok_reg = FALSE,
                                !.state = "HB_DONE"]
    BY <1>1, <1>3, Zenon DEF Heartbeat!HbWaitResponse, Restarted
  <2> QED BY <1>1, <1>3, <2>1 DEF Restarted, SameRound, Registers, HbStates
<1>4. CASE ~response.valid /\ ~(ctrl.resp_timer >= RESP_TIMEOUT - 1)
  <2>1. ctrl' = [Cleared EXCEPT !.resp_timer = @ + 1]
    BY <1>1, <1>4, Zenon DEF Heartbeat!HbWaitResponse, Restarted
  <2>2. ctrl.resp_timer + 1 \in 0 .. RESP_TIMEOUT - 1
    BY <1>1, <1>4 DEF Restarted, Registers
  <2> QED BY <1>1, <1>4, <2>1, <2>2 DEF Restarted, SameRound, Registers, HbStates
<1> QED BY <1>2, <1>3, <1>4, Zenon

LEMMA VerifyOutcome ==
  ASSUME CtrlInv, ctrl.state = "HB_VERIFY", ctrl' = Heartbeat!HbVerify(Cleared)
  PROVE  /\ ctrl'.hmac_start = FALSE /\ ctrl'.challenge_valid = FALSE /\ ctrl' \in Registers
         /\ ctrl'.nonce = ctrl.nonce /\ ctrl'.counter = ctrl.counter
         /\ ctrl'.our_tag = ctrl.our_tag /\ ctrl'.state = "HB_DONE"
         /\ \/ ctrl.our_tag = response.tag /\ ctrl'.hb_fail_reg = FALSE
            \/ ctrl'.hb_ok_reg = FALSE
PROOF
<1> USE HeartbeatSizes
<1>1. Restarted
  BY ClearedFields
<1>2. CASE ctrl.our_tag = response.tag
  <2>1. ctrl' = [Cleared EXCEPT !.hb_ok_reg = TRUE, !.hb_fail_reg = FALSE,
                                !.state = "HB_DONE"]
    BY <1>1, <1>2, Zenon DEF Heartbeat!HbVerify, Restarted
  <2> QED BY <1>1, <1>2, <2>1 DEF Restarted, SameRound, Registers, HbStates
<1>3. CASE ctrl.our_tag # response.tag
  <2>1. ctrl' = [Cleared EXCEPT !.hb_ok_reg = FALSE, !.hb_fail_reg = TRUE,
                                !.state = "HB_DONE"]
    BY <1>1, <1>3, Zenon DEF Heartbeat!HbVerify, Restarted
  <2> QED BY <1>1, <1>3, <2>1 DEF Restarted, SameRound, Registers, HbStates
<1> QED BY <1>2, <1>3, Zenon

LEMMA DoneOutcome ==
  ASSUME CtrlInv, ctrl.state = "HB_DONE", ctrl' = Heartbeat!HbDone(Cleared)
  PROVE  /\ SameRound /\ ctrl'.hmac_start = FALSE /\ ctrl'.challenge_valid = FALSE
         /\ ctrl'.state = "HB_IDLE"
PROOF
<1> USE HeartbeatSizes
<1>1. Restarted
  BY ClearedFields
<1>2. ctrl' = [Cleared EXCEPT !.state = "HB_IDLE"]
  BY Zenon DEF Heartbeat!HbDone
<1> QED BY <1>1, <1>2 DEF Restarted, SameRound, Registers, HbStates

LEMMA StateSteps ==
  ASSUME CtrlInv, NEW trng_valid \in BOOLEAN, NEW wait \in 1 .. MaxDelay
  PROVE  LET step == Heartbeat!CtrlStep(trng_valid, wait)
         IN /\ ctrl.state = "HB_IDLE" => step = Heartbeat!HbIdle(Cleared, wait)
            /\ ctrl.state = "HB_RANDOM_WAIT" => step = Heartbeat!HbRandomWait(Cleared)
            /\ ctrl.state = "HB_GET_NONCE" => step = Heartbeat!HbGetNonce(Cleared, trng_valid)
            /\ ctrl.state = "HB_COMPUTE" => step = Heartbeat!HbCompute(Cleared)
            /\ ctrl.state = "HB_WAIT_HMAC" => step = Heartbeat!HbWaitHmac(Cleared)
            /\ ctrl.state = "HB_SEND_CHALLENGE" => step = Heartbeat!HbSendChallenge(Cleared)
            /\ ctrl.state = "HB_WAIT_RESPONSE" => step = Heartbeat!HbWaitResponse(Cleared)
            /\ ctrl.state = "HB_VERIFY" => step = Heartbeat!HbVerify(Cleared)
            /\ ctrl.state = "HB_DONE" => step = Heartbeat!HbDone(Cleared)
PROOF
<1>1. Cleared.state = ctrl.state
  BY ClearedFields, Zenon DEF Restarted
<1> QED BY <1>1 DEF Heartbeat!CtrlStep, Cleared

\* What the controller's edge owes to CtrlInv, but for what EdgeFrame gives.
Kept ==
  /\ ctrl' \in Registers /\ drawn' \in 0 .. MaxRounds
  /\ CoreInv' /\ RoundInv' /\ AgeInv'
  /\ ctrl'.hb_ok_reg => last' \in tags /\ ~ctrl'.hb_fail_reg

LEMMA CoreFrame ==
  ASSUME CtrlInv, Heartbeat!CtrlEdge
  PROVE  /\ CoreTypes(core)'
         /\ core.left > 0 => core'.left = core.left - 1 /\ core'.msg = core.msg
         /\ core.left = 0 /\ ctrl.hmac_start
              => core'.left = HmacCycles /\ core'.msg = Heartbeat!Challenge
         /\ core.left = 0 /\ ~ctrl.hmac_start => core'.left = 0
PROOF
<1>1. Heartbeat!Challenge \in Heartbeat!Challenges /\ ctrl.hmac_start \in BOOLEAN
  BY DEF CtrlInv, Heartbeat!Challenge, Heartbeat!Challenges, CtrlTypes, Registers
<1>2. CoreTypes(core) /\ core' = Heartbeat!CoreStep(core, ctrl.hmac_start, Heartbeat!Challenge)
  BY EdgeFrame, Zenon DEF CtrlInv
<1>3. /\ CoreTypes(core')
      /\ core.left > 0 => core'.left = core.left - 1 /\ core'.msg = core.msg
      /\ core.left = 0 /\ ctrl.hmac_start
           => core'.left = HmacCycles /\ core'.msg = Heartbeat!Challenge
      /\ core.left = 0 /\ ~ctrl.hmac_start => core' = core
  BY <1>1, <1>2, CoreSteps
<1> QED BY <1>3, Zenon DEF CoreTypes

\* A step that leaves nonce and counter alone draws nothing.
LEMMA NothingDrawn ==
  ASSUME CtrlInv, Heartbeat!CtrlEdge, ctrl'.nonce = ctrl.nonce, ctrl'.counter = ctrl.counter
  PROVE  /\ drawn' = drawn /\ drawn \in 0 .. MaxRounds
         /\ Heartbeat!Challenge' = Heartbeat!Challenge
PROOF
<1>1. drawn' = IF ctrl'.counter # ctrl.counter THEN drawn + 1 ELSE drawn
  BY Zenon DEF Heartbeat!CtrlEdge
<1> QED BY <1>1 DEF CtrlInv, LinkTypes, Heartbeat!Challenge


\* The states one by one.
LEMMA QuietRound ==
  ASSUME CtrlInv, Heartbeat!CtrlEdge, SameRound, ctrl'.state # "HB_DONE"
  PROVE  /\ ctrl' \in Registers /\ drawn' = drawn /\ drawn \in 0 .. MaxRounds
         /\ Heartbeat!Challenge' = Heartbeat!Challenge
         /\ ctrl'.hb_ok_reg => last' \in tags /\ ~ctrl'.hb_fail_reg
PROOF
<1>1. last' = last
  BY HistoryFrame, Zenon DEF Heartbeat!Ending
<1>2. ctrl'.hb_ok_reg => last' \in tags /\ ~ctrl'.hb_fail_reg
  BY <1>1, Zenon DEF SameRound, CtrlInv, VerdictInv
<1> QED BY <1>2, NothingDrawn, Zenon DEF SameRound

LEMMA KeepsIdle ==
  ASSUME CtrlInv, Heartbeat!CtrlEdge, ctrl.state = "HB_IDLE"
  PROVE  Kept
PROOF
<1> USE HeartbeatSizes
<1>1. PICK wait \in 1 .. MaxDelay : ctrl' = Heartbeat!HbIdle(Cleared, wait)
  BY StateSteps, Zenon DEF Heartbeat!CtrlEdge
<1>2. /\ SameRound /\ ctrl'.hmac_start = FALSE /\ ctrl'.challenge_valid = FALSE
      /\ \/ ctrl'.state = "HB_IDLE" /\ ctrl'.interval_cnt = ctrl.interval_cnt + 1
         \/ \E drawnWait \in 1 .. MaxDelay :
              ctrl'.state = "HB_RANDOM_WAIT" /\ ctrl'.random_delay_cnt = drawnWait
  BY <1>1, IdleOutcome
<1>3. ctrl \in Registers /\ age \in Nat
  BY DEF CtrlInv, CtrlTypes, LinkTypes
<1>4. /\ ctrl' \in Registers /\ drawn' = drawn /\ drawn \in 0 .. MaxRounds
      /\ Heartbeat!Challenge' = Heartbeat!Challenge
      /\ ctrl'.hb_ok_reg => last' \in tags /\ ~ctrl'.hb_fail_reg
  BY <1>2, <1>3, QuietRound
<1>5. CoreInv'
  <2>1. core.left = 0 /\ ~ctrl.hmac_start
    BY DEF CtrlInv, CoreInv
  <2> QED BY <1>2, <2>1, CoreFrame DEF CoreInv
<1>6. RoundInv'
  BY <1>2, <1>3, <1>4 DEF CtrlInv, RoundInv, SameRound, Registers
<1>7. AgeInv'
  BY <1>2, <1>3, <1>4, HistoryFrame DEF CtrlInv, AgeInv, Drawing, Registers
<1> QED BY <1>4, <1>5, <1>6, <1>7, Zenon DEF Kept

LEMMA KeepsRandomWait ==
  ASSUME CtrlInv, Heartbeat!CtrlEdge, ctrl.state = "HB_RANDOM_WAIT"
  PROVE  Kept
PROOF
<1> USE HeartbeatSizes
<1>1. ctrl' = Heartbeat!HbRandomWait(Cleared)
  BY StateSteps, Zenon DEF Heartbeat!CtrlEdge
<1>2. /\ SameRound /\ ctrl'.hmac_start = FALSE /\ ctrl'.challenge_valid = FALSE
      /\ \/ ctrl'.state = "HB_GET_NONCE"
         \/ /\ ctrl'.state = "HB_RANDOM_WAIT" /\ ctrl.random_delay_cnt > 1
            /\ ctrl'.random_delay_cnt = ctrl.random_delay_cnt - 1
  BY <1>1, RandomWaitOutcome
<1>3. ctrl \in Registers /\ age \in Nat
  BY DEF CtrlInv, CtrlTypes, LinkTypes
<1>4. /\ ctrl' \in Registers /\ drawn' = drawn /\ drawn \in 0 .. MaxRounds
      /\ Heartbeat!Challenge' = Heartbeat!Challenge
      /\ ctrl'.hb_ok_reg => last' \in tags /\ ~ctrl'.hb_fail_reg
  BY <1>2, <1>3, QuietRound
<1>5. CoreInv'
  <2>1. core.left = 0 /\ ~ctrl.hmac_start
    BY DEF CtrlInv, CoreInv
  <2> QED BY <1>2, <2>1, CoreFrame DEF CoreInv
<1>6. RoundInv'
  BY <1>2, <1>3, <1>4 DEF CtrlInv, RoundInv, SameRound, Registers
<1>7. AgeInv'
  BY <1>2, <1>3, <1>4, HistoryFrame DEF CtrlInv, AgeInv, Drawing, Registers, RoundInv
<1> QED BY <1>4, <1>5, <1>6, <1>7, Zenon DEF Kept

LEMMA KeepsGetNonce ==
  ASSUME CtrlInv, Heartbeat!CtrlEdge, ctrl.state = "HB_GET_NONCE"
  PROVE  Kept
PROOF
<1> USE HeartbeatSizes
<1>1. \/ ctrl' = Cleared
      \/ drawn < MaxRounds /\ ctrl' = Drew
  BY StateSteps, Zenon DEF Heartbeat!CtrlEdge, Heartbeat!HbGetNonce, Drew
<1>2. /\ ctrl' \in Registers /\ ctrl'.our_tag = ctrl.our_tag
      /\ ctrl'.hb_ok_reg = ctrl.hb_ok_reg /\ ctrl'.hb_fail_reg = ctrl.hb_fail_reg
      /\ ctrl'.hmac_start = FALSE /\ ctrl'.challenge_valid = FALSE
      /\ \/ ctrl' = Cleared /\ SameRound
         \/ /\ ctrl'.state = "HB_GET_NONCE" /\ ctrl.nonce_words = 0
            /\ ctrl'.nonce_words = 1 /\ SameRound
         \/ /\ ctrl'.state = "HB_COMPUTE" /\ ctrl.nonce_words = 1 /\ drawn < MaxRounds
            /\ ctrl'.nonce = drawn + 1 /\ ctrl'.counter = ctrl.counter + 1
  BY <1>1, GetNonceOutcome, Zenon
<1>3. ctrl \in Registers /\ age \in Nat /\ drawn \in 0 .. MaxRounds /\ Cleared.state = ctrl.state
  BY ClearedFields DEF CtrlInv, CtrlTypes, LinkTypes, Restarted
<1>4. drawn' = IF ctrl'.counter # ctrl.counter THEN drawn + 1 ELSE drawn
  BY Zenon DEF Heartbeat!CtrlEdge
<1>a. ctrl'.state \in {"HB_GET_NONCE", "HB_COMPUTE"} /\ ~ctrl'.hmac_start
  BY <1>2, <1>3
<1>b. drawn' \in 0 .. MaxRounds /\ drawn <= drawn'
      /\ (ctrl'.counter # ctrl.counter => drawn' = drawn + 1 /\ ctrl'.counter = ctrl.counter + 1)
  BY <1>2, <1>3, <1>4 DEF SameRound
<1>5. CoreInv'
  <2>1. core.left = 0 /\ ~ctrl.hmac_start
    BY DEF CtrlInv, CoreInv
  <2> QED BY <1>a, <2>1, CoreFrame DEF CoreInv
<1>6. RoundInv'
  <2>1. ctrl'.counter <= drawn'
    BY <1>2, <1>3, <1>b DEF CtrlInv, RoundInv, Registers
  <2>2. ctrl'.state = "HB_COMPUTE" => ctrl'.nonce > 0
    BY <1>2, <1>3
  <2> QED BY <1>2, <1>a, <2>1, <2>2 DEF RoundInv
<1>7. AgeInv'
  <2>1. CASE ctrl' = Cleared
    <3>1. ctrl' = ctrl
      <4>1. ctrl.hmac_start = FALSE /\ ctrl.challenge_valid = FALSE
        BY <1>3 DEF CtrlInv, CoreInv, RoundInv, Registers
      <4>2. Cleared = ctrl
        BY <1>3, <4>1 DEF Cleared, Registers
      <4> QED BY <2>1, <4>2
    <3>2. age' \in {0, age}
      BY <3>1, HistoryFrame
    <3>3. age <= Drawing + ctrl.nonce_words /\ Drawing \in Nat
      BY DEF CtrlInv, AgeInv, Drawing
    <3> QED BY <1>3, <3>1, <3>2, <3>3, HistoryFrame DEF AgeInv, Registers
  <2>2. CASE ctrl'.state = "HB_GET_NONCE" /\ ctrl.nonce_words = 0 /\ ctrl'.nonce_words = 1
    BY <1>3, <2>2, HistoryFrame DEF CtrlInv, AgeInv, Drawing
  <2>3. CASE ctrl'.state = "HB_COMPUTE" /\ ctrl.nonce_words = 1
    BY <1>3, <2>3, HistoryFrame DEF CtrlInv, AgeInv, Drawing
  <2> QED BY <1>2, <2>1, <2>2, <2>3
<1>8. ctrl'.hb_ok_reg => last' \in tags /\ ~ctrl'.hb_fail_reg
  <2>1. last' = last
    BY <1>a, HistoryFrame DEF Heartbeat!Ending
  <2> QED BY <1>2, <2>1, Zenon DEF CtrlInv, VerdictInv
<1> QED BY <1>2, <1>b, <1>5, <1>6, <1>7, <1>8, Zenon DEF Kept

LEMMA KeepsCompute ==
  ASSUME CtrlInv, Heartbeat!CtrlEdge, ctrl.state = "HB_COMPUTE"
  PROVE  Kept
PROOF
<1> USE HeartbeatSizes
<1>1. ctrl' = Heartbeat!HbCompute(Cleared)
  BY StateSteps, Zenon DEF Heartbeat!CtrlEdge
<1>2. /\ SameRound /\ ctrl'.hmac_start = TRUE /\ ctrl'.challenge_valid = FALSE
      /\ ctrl'.state = "HB_WAIT_HMAC"
  BY <1>1, ComputeOutcome
<1>3. ctrl \in Registers /\ age \in Nat
  BY DEF CtrlInv, CtrlTypes, LinkTypes
<1>4. /\ ctrl' \in Registers /\ drawn' = drawn /\ drawn \in 0 .. MaxRounds
      /\ Heartbeat!Challenge' = Heartbeat!Challenge
      /\ ctrl'.hb_ok_reg => last' \in tags /\ ~ctrl'.hb_fail_reg
  BY <1>2, <1>3, QuietRound
<1>5. CoreInv'
  <2>1. core.left = 0 /\ ~ctrl.hmac_start
    BY DEF CtrlInv, CoreInv
  <2> QED BY <1>2, <2>1, CoreFrame DEF CoreInv
<1>6. RoundInv'
  BY <1>2, <1>3, <1>4 DEF CtrlInv, RoundInv, SameRound, Registers
<1>7. AgeInv'
  BY <1>2, <1>3, <1>4, HistoryFrame DEF CtrlInv, AgeInv, Drawing, Registers
<1> QED BY <1>4, <1>5, <1>6, <1>7, Zenon DEF Kept

LEMMA KeepsWaitHmac ==
  ASSUME CtrlInv, Heartbeat!CtrlEdge, ctrl.state = "HB_WAIT_HMAC"
  PROVE  Kept
PROOF
<1> USE HeartbeatSizes
<1>1. ctrl' = Heartbeat!HbWaitHmac(Cleared)
  BY StateSteps, Zenon DEF Heartbeat!CtrlEdge
<1>2. /\ ctrl' \in Registers /\ ctrl'.nonce = ctrl.nonce /\ ctrl'.counter = ctrl.counter
      /\ ctrl'.hb_ok_reg = ctrl.hb_ok_reg /\ ctrl'.hb_fail_reg = ctrl.hb_fail_reg
      /\ ctrl'.hmac_start = FALSE /\ ctrl'.challenge_valid = FALSE
      /\ \/ /\ core.left = 1 /\ ctrl'.our_tag = core.msg
            /\ ctrl'.state = "HB_SEND_CHALLENGE"
         \/ /\ core.left # 1 /\ ctrl'.our_tag = ctrl.our_tag
            /\ ctrl'.state = "HB_WAIT_HMAC"
  BY <1>1, WaitHmacOutcome
<1>3. ctrl \in Registers /\ age \in Nat /\ core.left \in 0 .. HmacCycles
  BY DEF CtrlInv, CtrlTypes, LinkTypes, CoreTypes
<1>4. /\ drawn' = drawn /\ drawn \in 0 .. MaxRounds /\ Heartbeat!Challenge' = Heartbeat!Challenge
  BY <1>2, NothingDrawn
<1>a. \/ /\ ctrl.hmac_start /\ core.left = 0 /\ core'.left = HmacCycles
         /\ core'.msg = Heartbeat!Challenge
      \/ /\ ~ctrl.hmac_start /\ core.left > 0 /\ core'.left = core.left - 1
         /\ core.msg = Heartbeat!Challenge /\ core'.msg = core.msg
  BY CoreFrame DEF CtrlInv, CoreInv
<1>b. \/ ctrl'.state = "HB_SEND_CHALLENGE" /\ core.left = 1 /\ core'.left = 0
         /\ ctrl'.our_tag = Heartbeat!Challenge
      \/ ctrl'.state = "HB_WAIT_HMAC" /\ core'.left > 0 /\ core'.msg = Heartbeat!Challenge
  BY <1>2, <1>3, <1>a
<1>5. CoreInv'
  BY <1>2, <1>4, <1>b DEF CoreInv
<1>6. RoundInv'
  BY <1>2, <1>4, <1>b DEF CtrlInv, RoundInv
<1>7. AgeInv'
  <2>1. age <= Drawing + 3 + (IF ctrl.hmac_start THEN 0 ELSE 1 + HmacCycles - core.left)
    BY DEF CtrlInv, AgeInv
  <2>2. /\ ctrl'.state = "HB_SEND_CHALLENGE" => age' <= Drawing + 4 + HmacCycles
        /\ ctrl'.state = "HB_WAIT_HMAC" => age' <= Drawing + 4 + HmacCycles - core'.left
    <3>1. CASE ctrl.hmac_start
      <4>1. core.left = 0 /\ core'.left = HmacCycles /\ age <= Drawing + 3 + 0
        BY <1>a, <2>1, <3>1, Zenon
      <4> QED BY <1>2, <1>3, <4>1, HistoryFrame DEF Drawing
    <3>2. CASE ~ctrl.hmac_start
      <4>1. age <= Drawing + 4 + HmacCycles - core.left /\ core'.left = core.left - 1
        BY <1>3, <1>a, <2>1, <3>2 DEF Drawing
      <4> QED BY <1>2, <1>3, <4>1, HistoryFrame DEF Drawing
    <3> QED BY <3>1, <3>2
  <2>3. ctrl'.state = "HB_WAIT_HMAC" => age' <= Drawing + 3
           + (IF ctrl'.hmac_start THEN 0 ELSE 1 + HmacCycles - core'.left)
    BY <1>2, <1>3, <1>a, <2>2 DEF Drawing
  <2>4. ctrl'.state \in {"HB_SEND_CHALLENGE", "HB_WAIT_HMAC"}
    BY <1>2
  <2> QED BY <2>2, <2>3, <2>4, HistoryFrame DEF AgeInv
<1>8. ctrl'.hb_ok_reg => last' \in tags /\ ~ctrl'.hb_fail_reg
  <2>1. last' = last
    BY <1>2, HistoryFrame DEF Heartbeat!Ending
  <2> QED BY <1>2, <2>1, Zenon DEF CtrlInv, VerdictInv
<1> QED BY <1>2, <1>4, <1>5, <1>6, <1>7, <1>8, Zenon DEF Kept

LEMMA KeepsSend ==
  ASSUME CtrlInv, Heartbeat!CtrlEdge, ctrl.state = "HB_SEND_CHALLENGE"
  PROVE  Kept
PROOF
<1> USE HeartbeatSizes
<1>1. ctrl' = Heartbeat!HbSendChallenge(Cleared)
  BY StateSteps, Zenon DEF Heartbeat!CtrlEdge
<1>2. /\ SameRound /\ ctrl'.hmac_start = FALSE
      /\ ctrl'.state = "HB_WAIT_RESPONSE" /\ ctrl'.resp_timer = 0
  BY <1>1, SendOutcome
<1>3. ctrl \in Registers /\ age \in Nat
  BY DEF CtrlInv, CtrlTypes, LinkTypes
<1>4. /\ ctrl' \in Registers /\ drawn' = drawn /\ drawn \in 0 .. MaxRounds
      /\ Heartbeat!Challenge' = Heartbeat!Challenge
      /\ ctrl'.hb_ok_reg => last' \in tags /\ ~ctrl'.hb_fail_reg
  BY <1>2, <1>3, QuietRound
<1>5. CoreInv'
  <2>1. core.left = 0 /\ ~ctrl.hmac_start
    BY DEF CtrlInv, CoreInv
  <2> QED BY <1>2, <2>1, CoreFrame DEF CoreInv
<1>6. RoundInv'
  BY <1>2, <1>3, <1>4 DEF CtrlInv, RoundInv, SameRound, Registers
<1>7. AgeInv'
  BY <1>2, <1>3, <1>4, HistoryFrame DEF CtrlInv, AgeInv, Drawing, Registers
<1> QED BY <1>4, <1>5, <1>6, <1>7, Zenon DEF Kept

LEMMA KeepsWaitResponse ==
  ASSUME CtrlInv, Heartbeat!CtrlEdge, ctrl.state = "HB_WAIT_RESPONSE"
  PROVE  Kept
PROOF
<1> USE HeartbeatSizes
<1>1. ctrl' = Heartbeat!HbWaitResponse(Cleared)
  BY StateSteps, Zenon DEF Heartbeat!CtrlEdge
<1>2. /\ ctrl'.hmac_start = FALSE /\ ctrl'.challenge_valid = FALSE /\ ctrl' \in Registers
      /\ ctrl'.nonce = ctrl.nonce /\ ctrl'.counter = ctrl.counter
      /\ ctrl'.our_tag = ctrl.our_tag
      /\ \/ SameRound /\ ctrl'.state = "HB_VERIFY"
         \/ ctrl'.hb_ok_reg = FALSE /\ ctrl'.state = "HB_DONE"
         \/ /\ SameRound /\ ctrl'.state = "HB_WAIT_RESPONSE"
            /\ ctrl'.resp_timer = ctrl.resp_timer + 1
  BY <1>1, WaitResponseOutcome
<1>3. ctrl \in Registers /\ age \in Nat
  BY DEF CtrlInv, CtrlTypes, LinkTypes
<1>4. /\ ctrl' \in Registers /\ drawn' = drawn /\ drawn \in 0 .. MaxRounds
      /\ Heartbeat!Challenge' = Heartbeat!Challenge
      /\ ctrl'.hb_ok_reg => last' \in tags /\ ~ctrl'.hb_fail_reg
  <2>1. CASE SameRound /\ ctrl'.state # "HB_DONE"
    BY <2>1, QuietRound
  <2>2. CASE ctrl'.hb_ok_reg = FALSE
    BY <1>2, <2>2, NothingDrawn
  <2>3. "HB_VERIFY" # "HB_DONE" /\ "HB_WAIT_RESPONSE" # "HB_DONE"
    OBVIOUS
  <2> QED BY <1>2, <2>1, <2>2, <2>3, Zenon
<1>5. CoreInv'
  <2>1. core.left = 0 /\ ~ctrl.hmac_start
    BY DEF CtrlInv, CoreInv
  <2> QED BY <1>2, <2>1, CoreFrame DEF CoreInv
<1>6. RoundInv'
  BY <1>2, <1>3, <1>4 DEF CtrlInv, RoundInv, Registers
<1>7. AgeInv'
  <2>1. ctrl'.state = "HB_DONE" => age' = 0
    BY HistoryFrame DEF Heartbeat!Ending
  <2> QED BY <1>2, <1>3, <2>1, HistoryFrame DEF CtrlInv, AgeInv, Drawing, Registers
<1> QED BY <1>4, <1>5, <1>6, <1>7, Zenon DEF Kept

LEMMA KeepsVerify ==
  ASSUME CtrlInv, Heartbeat!CtrlEdge, ctrl.state = "HB_VERIFY"
  PROVE  Kept
PROOF
<1> USE HeartbeatSizes
<1>1. ctrl' = Heartbeat!HbVerify(Cleared)
  BY StateSteps, Zenon DEF Heartbeat!CtrlEdge
<1>2. /\ ctrl'.hmac_start = FALSE /\ ctrl'.challenge_valid = FALSE /\ ctrl' \in Registers
      /\ ctrl'.nonce = ctrl.nonce /\ ctrl'.counter = ctrl.counter
      /\ ctrl'.our_tag = ctrl.our_tag /\ ctrl'.state = "HB_DONE"
      /\ \/ ctrl.our_tag = response.tag /\ ctrl'.hb_fail_reg = FALSE
         \/ ctrl'.hb_ok_reg = FALSE
  BY <1>1, VerifyOutcome
<1>3. ctrl \in Registers /\ age \in Nat
  BY DEF CtrlInv, CtrlTypes, LinkTypes
<1>4. /\ drawn' = drawn /\ drawn \in 0 .. MaxRounds
  BY <1>2, NothingDrawn
<1>5. CoreInv'
  <2>1. core.left = 0 /\ ~ctrl.hmac_start
    BY DEF CtrlInv, CoreInv
  <2> QED BY <1>2, <2>1, CoreFrame DEF CoreInv
<1>6. RoundInv'
  BY <1>2, <1>3, <1>4 DEF CtrlInv, RoundInv, Registers
<1>7. AgeInv'
  <2>1. age' = 0
    BY <1>2, HistoryFrame DEF Heartbeat!Ending
  <2> QED BY <1>2, <2>1 DEF AgeInv
<1>8. ctrl'.hb_ok_reg => last' \in tags /\ ~ctrl'.hb_fail_reg
  <2>1. CASE ctrl.our_tag = response.tag /\ ctrl'.hb_fail_reg = FALSE
    <3>1. last' = Heartbeat!Challenge
      BY <1>2, HistoryFrame DEF Heartbeat!Ending
    <3>2. ctrl.our_tag = Heartbeat!Challenge /\ Heartbeat!Challenge # Heartbeat!Zero
      BY ZeroTypes DEF CtrlInv, RoundInv, Heartbeat!Challenge
    <3>3. response.tag \in tags \cup {Heartbeat!Zero}
      BY DEF CtrlInv, VerdictInv
    <3>4. last' \in tags
      BY <2>1, <3>1, <3>2, <3>3
    <3> QED BY <2>1, <3>4, Zenon
  <2>2. CASE ctrl'.hb_ok_reg = FALSE
    BY <2>2, Zenon
  <2> QED BY <1>2, <2>1, <2>2
<1> QED BY <1>2, <1>4, <1>5, <1>6, <1>7, <1>8, Zenon DEF Kept

LEMMA KeepsDone ==
  ASSUME CtrlInv, Heartbeat!CtrlEdge, ctrl.state = "HB_DONE"
  PROVE  Kept
PROOF
<1> USE HeartbeatSizes
<1>1. ctrl' = Heartbeat!HbDone(Cleared)
  BY StateSteps, Zenon DEF Heartbeat!CtrlEdge
<1>2. /\ SameRound /\ ctrl'.hmac_start = FALSE /\ ctrl'.challenge_valid = FALSE
      /\ ctrl'.state = "HB_IDLE"
  BY <1>1, DoneOutcome
<1>3. ctrl \in Registers /\ age \in Nat
  BY DEF CtrlInv, CtrlTypes, LinkTypes
<1>4. /\ ctrl' \in Registers /\ drawn' = drawn /\ drawn \in 0 .. MaxRounds
      /\ Heartbeat!Challenge' = Heartbeat!Challenge
      /\ ctrl'.hb_ok_reg => last' \in tags /\ ~ctrl'.hb_fail_reg
  BY <1>2, <1>3, QuietRound
<1>5. CoreInv'
  <2>1. core.left = 0 /\ ~ctrl.hmac_start
    BY DEF CtrlInv, CoreInv
  <2> QED BY <1>2, <2>1, CoreFrame DEF CoreInv
<1>6. RoundInv'
  BY <1>2, <1>3, <1>4 DEF CtrlInv, RoundInv, SameRound, Registers
<1>7. AgeInv'
  BY <1>2, <1>3, <1>4, HistoryFrame DEF CtrlInv, AgeInv, Drawing, Registers
<1> QED BY <1>4, <1>5, <1>6, <1>7, Zenon DEF Kept

LEMMA CtrlEdgeKeeps ==
  ASSUME CtrlInv, Heartbeat!CtrlEdge
  PROVE  CtrlInv'
PROOF
<1>1. Kept
  <2>1. ctrl.state \in HbStates
    BY DEF CtrlInv, CtrlTypes, Registers
  <2> QED BY <2>1, KeepsIdle, KeepsRandomWait, KeepsGetNonce, KeepsCompute, KeepsWaitHmac,
             KeepsSend, KeepsWaitResponse, KeepsVerify, KeepsDone DEF HbStates
<1>2. LinkTypes' /\ CtrlTypes' /\ response'.tag \in tags' \cup {Heartbeat!Zero}
  BY <1>1, EdgeFrame, HistoryFrame DEF Kept, LinkTypes, CtrlTypes, CtrlInv, Registers
<1>3. tags' = tags
  BY EdgeFrame
<1> QED BY <1>1, <1>2, <1>3, CoreFrame, Zenon DEF Kept, CtrlInv, VerdictInv

LEMMA CtrlResetKeeps ==
  ASSUME CtrlInv, Heartbeat!CtrlResets
  PROVE  CtrlInv'
PROOF
<1> USE HeartbeatSizes, ZeroTypes
<1>1. /\ ctrl' = Heartbeat!CtrlReset /\ core' = Heartbeat!CoreIdle /\ age' = 0
      /\ response' = [response EXCEPT !.valid = FALSE]
      /\ UNCHANGED <<resp, resp_core, drawn, fetched, tags, last, crossed>>
  BY Zenon DEF Heartbeat!CtrlResets
<1>2. /\ ctrl' \in Registers /\ ctrl'.state = "HB_IDLE" /\ ctrl'.interval_cnt = 0
      /\ ctrl'.counter = 0 /\ ctrl'.hb_ok_reg = FALSE /\ ctrl'.hmac_start = FALSE
      /\ ctrl'.challenge_valid = FALSE
  BY <1>1 DEF Heartbeat!CtrlReset, Registers, HbStates
<1>3. CtrlTypes' /\ CoreTypes(core)' /\ LinkTypes'
  <2>1. CtrlTypes'
    BY <1>2 DEF CtrlTypes
  <2>2. CoreTypes(core)'
    BY <1>1 DEF CoreTypes, Heartbeat!CoreIdle
  <2>3. LinkTypes'
    BY <1>1 DEF CtrlInv, LinkTypes
  <2> QED BY <2>1, <2>2, <2>3
<1>4. CoreInv'
  BY <1>1, <1>2 DEF CoreInv, Heartbeat!CoreIdle
<1>5. RoundInv'
  BY <1>1, <1>2 DEF RoundInv, CtrlInv, LinkTypes
<1>6. VerdictInv'
  <2>1. response'.tag \in tags' \cup {Heartbeat!Zero}
    BY <1>1 DEF CtrlInv, VerdictInv, LinkTypes
  <2> QED BY <1>2, <2>1, Zenon DEF VerdictInv
<1>7. AgeInv'
  BY <1>1, <1>2 DEF AgeInv
<1> QED BY <1>3, <1>4, <1>5, <1>6, <1>7, Zenon DEF CtrlInv
-----------------------------------------------------------------------------
(* The responder. *)
Responding ==
  [state : {"RS_IDLE", "RS_COMPUTING", "RS_READY"},
   challenge_reg : Heartbeat!Challenges, tag_reg : Heartbeat!Challenges,
   ready_reg : BOOLEAN, hmac_start : BOOLEAN]

LEMMA RespCoreFrame ==
  ASSUME RespInv, Heartbeat!RespEdge
  PROVE  /\ CoreTypes(resp_core)'
         /\ resp_core.left > 0
              => resp_core'.left = resp_core.left - 1 /\ resp_core'.msg = resp_core.msg
         /\ resp_core.left = 0 /\ resp.hmac_start
              => resp_core'.left = HmacCycles /\ resp_core'.msg = resp.challenge_reg
         /\ resp_core.left = 0 /\ ~resp.hmac_start => resp_core'.left = 0
PROOF
<1>1. resp.challenge_reg \in Heartbeat!Challenges /\ resp.hmac_start \in BOOLEAN
  BY DEF RespInv, RespTypes
<1>2. /\ CoreTypes(resp_core)
      /\ resp_core' = Heartbeat!CoreStep(resp_core, resp.hmac_start, resp.challenge_reg)
  BY Zenon DEF RespInv, Heartbeat!RespEdge
<1>3. /\ CoreTypes(resp_core')
      /\ resp_core.left > 0
           => resp_core'.left = resp_core.left - 1 /\ resp_core'.msg = resp_core.msg
      /\ resp_core.left = 0 /\ resp.hmac_start
           => resp_core'.left = HmacCycles /\ resp_core'.msg = resp.challenge_reg
      /\ resp_core.left = 0 /\ ~resp.hmac_start => resp_core' = resp_core
  BY <1>1, <1>2, CoreSteps
<1> QED BY <1>3, Zenon DEF CoreTypes

LEMMA QuietFields ==
  ASSUME RespInv
  PROVE  /\ Heartbeat!RespQuiet \in Responding
         /\ Heartbeat!RespQuiet.state = resp.state
         /\ Heartbeat!RespQuiet.challenge_reg = resp.challenge_reg
         /\ Heartbeat!RespQuiet.tag_reg = resp.tag_reg
         /\ Heartbeat!RespQuiet.ready_reg = resp.ready_reg
         /\ Heartbeat!RespQuiet.hmac_start = FALSE
PROOF BY DEF RespInv, RespTypes, Heartbeat!RespQuiet, Responding

\* A cycle without a new challenge.
LEMMA ComputedFields ==
  ASSUME RespInv
  PROVE  LET r == Heartbeat!Computed
         IN /\ r \in Responding /\ r.hmac_start = FALSE
            /\ r.challenge_reg = resp.challenge_reg
            /\ \/ /\ resp.state = "RS_COMPUTING" /\ resp_core.left = 1
                  /\ r.state = "RS_READY" /\ r.ready_reg = TRUE
                  /\ r.tag_reg = resp_core.msg
               \/ /\ resp.state = "RS_COMPUTING" => resp_core.left # 1
                  /\ r.state = resp.state /\ r.ready_reg = resp.ready_reg
                  /\ r.tag_reg = resp.tag_reg
PROOF
<1>1. /\ Heartbeat!RespQuiet \in Responding
      /\ Heartbeat!RespQuiet.state = resp.state
      /\ Heartbeat!RespQuiet.challenge_reg = resp.challenge_reg
      /\ Heartbeat!RespQuiet.tag_reg = resp.tag_reg
      /\ Heartbeat!RespQuiet.ready_reg = resp.ready_reg
      /\ Heartbeat!RespQuiet.hmac_start = FALSE
  BY QuietFields
<1>2. CASE resp.state = "RS_COMPUTING" /\ resp_core.left = 1
  <2>1. Heartbeat!Computed = [Heartbeat!RespQuiet EXCEPT !.tag_reg = resp_core.msg,
                                !.ready_reg = TRUE, !.state = "RS_READY"]
    BY <1>2, Zenon DEF Heartbeat!Computed, Heartbeat!RsComputing, Heartbeat!Valid
  <2>2. resp_core.msg \in Heartbeat!Challenges
    BY DEF RespInv, CoreTypes
  <2> QED BY <1>1, <1>2, <2>1, <2>2 DEF Responding
<1>3. CASE ~(resp.state = "RS_COMPUTING" /\ resp_core.left = 1)
  <2>1. Heartbeat!Computed = Heartbeat!RespQuiet
    BY <1>3, Zenon DEF Heartbeat!Computed, Heartbeat!RsComputing, Heartbeat!Valid
  <2> QED BY <1>1, <1>3, <2>1 DEF Responding
<1> QED BY <1>2, <1>3

\* A cycle with the new challenge c: the core starts on it and nothing is ready.
LEMMA TakenFields ==
  ASSUME RespInv, NEW c \in Heartbeat!Challenges
  PROVE  LET r == Heartbeat!RespStep(Heartbeat!RespQuiet, c)
         IN /\ r \in Responding /\ r.hmac_start = TRUE /\ r.ready_reg = FALSE
            /\ r.challenge_reg = c
            /\ r.state = IF resp.state = "RS_COMPUTING" /\ resp_core.left = 1
                         THEN "RS_READY" ELSE "RS_COMPUTING"
PROOF
<1>1. CASE resp.state = "RS_COMPUTING"
  <2>1. Heartbeat!RespStep(Heartbeat!RespQuiet, c)
        = [Heartbeat!Computed EXCEPT !.challenge_reg = c, !.hmac_start = TRUE,
                                     !.ready_reg = FALSE]
    BY <1>1, QuietFields, Zenon DEF Heartbeat!RespStep, Heartbeat!Take
  <2> QED BY <1>1, <2>1, ComputedFields DEF Responding
<1>2. CASE resp.state # "RS_COMPUTING"
  <2>1. Heartbeat!RespStep(Heartbeat!RespQuiet, c)
        = [[Heartbeat!RespQuiet EXCEPT !.challenge_reg = c, !.hmac_start = TRUE,
              !.ready_reg = FALSE] EXCEPT !.state = "RS_COMPUTING"]
    BY <1>2, QuietFields, Zenon DEF Heartbeat!RespStep, Heartbeat!Take
  <2> QED BY <1>2, <2>1, QuietFields DEF Responding
<1> QED BY <1>1, <1>2

LEMMA Untouched ==
  ASSUME RespInv, Heartbeat!RespEdge
  PROVE  fetched' = fetched /\ tags' = tags /\ LinkTypes'
PROOF
<1>1. UNCHANGED <<response, drawn, fetched, tags, age>>
  BY Zenon DEF Heartbeat!RespEdge
<1> QED BY <1>1, Zenon DEF RespInv, LinkTypes

LEMMA QuietCycle ==
  ASSUME RespInv, Heartbeat!RespEdge, resp' = Heartbeat!Computed, crossed' = crossed
  PROVE  RespTypes' /\ FetchedInv' /\ OnOffer'
PROOF
<1> USE HeartbeatSizes
<1> DEFINE r == Heartbeat!Computed
<1>1. /\ resp' \in Responding /\ resp'.hmac_start = FALSE
      /\ resp'.challenge_reg = resp.challenge_reg
      /\ \/ /\ resp.state = "RS_COMPUTING" /\ resp_core.left = 1
            /\ resp'.state = "RS_READY" /\ resp'.ready_reg = TRUE
            /\ resp'.tag_reg = resp_core.msg
         \/ /\ resp.state = "RS_COMPUTING" => resp_core.left # 1
            /\ resp'.state = resp.state /\ resp'.ready_reg = resp.ready_reg
            /\ resp'.tag_reg = resp.tag_reg
  BY ComputedFields
<1>2. RespTypes'
  BY <1>1, Zenon DEF RespInv, RespTypes, Responding
<1>3. /\ resp_core.left \in 0 .. HmacCycles
      /\ resp.state \in {"RS_IDLE", "RS_COMPUTING", "RS_READY"}
      /\ crossed \in {"nothing", "result", "computation"}
  BY DEF RespInv, RespTypes, CoreTypes
<1>a. resp_core.left = 0 \/ resp_core.left = 1 \/ resp_core.left > 1
  BY <1>3
<1>b. /\ resp_core.left > 1 => resp_core.left - 1 > 0
      /\ 1 > 0 /\ resp_core.left > 1 => resp_core.left > 0
  BY <1>3
<1>4. FetchedInv'
  <2>1. resp'.ready_reg => resp'.tag_reg \in fetched
    <3>1. resp_core.left = 1 => resp_core.left > 0
      OBVIOUS
    <3> QED BY <1>1, <3>1, Zenon DEF RespInv, FetchedInv
  <2>2. resp_core'.left > 0 => resp_core'.msg \in fetched
    <3>1. CASE resp_core.left > 0
      BY <3>1, RespCoreFrame, Zenon DEF RespInv, FetchedInv
    <3>2. CASE resp_core.left = 0 /\ resp.hmac_start
      BY <3>2, RespCoreFrame, Zenon DEF RespInv, FetchedInv
    <3>3. CASE resp_core.left = 0 /\ ~resp.hmac_start
      BY <3>3, RespCoreFrame
    <3>4. resp_core.left > 0 \/ resp_core.left = 0
      BY <1>3
    <3> QED BY <3>1, <3>2, <3>3, <3>4, Zenon
  <2>3. ~resp'.hmac_start
    BY <1>1, Zenon
  <2> QED BY <2>1, <2>2, <2>3, Untouched, Zenon DEF RespInv, FetchedInv
<1>5. OnOffer'
  <2>1. CASE resp.state = "RS_IDLE"
    <3>1. ~resp.ready_reg /\ ~resp.hmac_start /\ resp_core.left = 0
      BY <2>1, Zenon DEF RespInv, OnOffer
    <3>2. resp'.state = "RS_IDLE" /\ resp'.ready_reg = resp.ready_reg
      BY <1>1, <2>1
    <3>3. resp_core'.left = 0
      BY <3>1, RespCoreFrame
    <3> QED BY <1>1, <3>1, <3>2, <3>3 DEF OnOffer
  <2>2. CASE resp.state = "RS_READY"
    <3>1. IF crossed = "result" THEN ~resp.ready_reg
          ELSE /\ resp.ready_reg /\ resp_core.left = 0 /\ ~resp.hmac_start
               /\ resp.tag_reg = resp.challenge_reg \/ crossed = "computation"
      BY <2>2, Zenon DEF RespInv, OnOffer
    <3>2. /\ resp'.state = "RS_READY" /\ resp'.ready_reg = resp.ready_reg
          /\ resp'.tag_reg = resp.tag_reg
      BY <1>1, <2>2
    <3>3. crossed # "result" => resp_core'.left = 0
      BY <3>1, RespCoreFrame
    <3>4. ~resp'.hmac_start
      BY <1>1, Zenon
    <3>5. IF crossed' = "result" THEN ~resp'.ready_reg
          ELSE /\ resp'.ready_reg /\ resp_core'.left = 0 /\ ~resp'.hmac_start
               /\ resp'.tag_reg = resp'.challenge_reg \/ crossed' = "computation"
      BY <1>1, <3>1, <3>2, <3>3, <3>4, Zenon
    <3> QED BY <3>2, <3>5 DEF OnOffer
  <2>3. CASE resp.state = "RS_COMPUTING"
    <3>1. /\ ~resp.ready_reg /\ crossed # "result"
          /\ resp_core.left > 0 \/ resp.hmac_start
          /\ crossed = "nothing" =>
               IF resp_core.left > 0
               THEN resp_core.msg = resp.challenge_reg /\ ~resp.hmac_start
               ELSE resp.hmac_start
      BY <2>3, Zenon DEF RespInv, OnOffer
    <3>2. CASE resp_core.left = 1
      <4>1. /\ resp'.state = "RS_READY" /\ resp'.ready_reg = TRUE
            /\ resp'.tag_reg = resp_core.msg
        BY <1>1, <2>3, <3>2
      <4>2. resp_core'.left = 0
        BY <3>2, RespCoreFrame
      <4>3. resp'.tag_reg = resp'.challenge_reg \/ crossed' = "computation"
        BY <1>1, <1>3, <3>1, <3>2, <4>1
      <4>4. ~resp'.hmac_start /\ resp'.ready_reg
        BY <1>1, <4>1, Zenon
      <4> QED BY <3>1, <4>1, <4>2, <4>3, <4>4 DEF OnOffer
    <3>3. CASE resp_core.left # 1
      <4>1. resp'.state = "RS_COMPUTING" /\ ~resp'.ready_reg /\ ~resp'.hmac_start
        BY <1>1, <2>3, <3>1, <3>3, Zenon
      <4>2. resp_core'.left > 0
        <5>1. CASE resp_core.left > 1
          BY <1>b, <5>1, RespCoreFrame
        <5>2. CASE resp_core.left = 0
          BY <3>1, <5>2, RespCoreFrame
        <5> QED BY <1>a, <3>3, <5>1, <5>2
      <4>3. crossed = "nothing" => resp_core'.msg = resp.challenge_reg
        <5>1. CASE resp_core.left > 0
          BY <3>1, <5>1, RespCoreFrame, Zenon
        <5>2. CASE resp_core.left = 0
          <6>1. resp.hmac_start
            BY <3>1, <5>2
          <6> QED BY <5>2, <6>1, RespCoreFrame, Zenon
        <5> QED BY <1>3, <5>1, <5>2
      <4> QED BY <1>1, <3>1, <4>1, <4>2, <4>3 DEF OnOffer
    <3> QED BY <3>2, <3>3
  <2> QED BY <1>3, <2>1, <2>2, <2>3
<1> QED BY <1>2, <1>4, <1>5

LEMMA TakingCycle ==
  ASSUME RespInv, Heartbeat!RespEdge, NEW c \in fetched,
         resp' = Heartbeat!RespStep(Heartbeat!RespQuiet, c), crossed' = Heartbeat!Crossing
  PROVE  RespTypes' /\ FetchedInv' /\ OnOffer'
PROOF
<1> USE HeartbeatSizes
<1>1. c \in Heartbeat!Challenges
  BY DEF RespInv, LinkTypes
<1>2. /\ resp' \in Responding /\ resp'.hmac_start = TRUE /\ resp'.ready_reg = FALSE
      /\ resp'.challenge_reg = c
      /\ resp'.state = IF resp.state = "RS_COMPUTING" /\ resp_core.left = 1
                       THEN "RS_READY" ELSE "RS_COMPUTING"
  BY <1>1, TakenFields
<1>3. resp_core.left \in 0 .. HmacCycles
  BY DEF RespInv, CoreTypes
<1>4. /\ crossed' \in {"nothing", "result", "computation"}
      /\ crossed' = "result" <=> resp.state = "RS_COMPUTING" /\ resp_core.left = 1
      /\ crossed' = "nothing" =>
           resp_core.left = 1 \/ (~resp.hmac_start /\ ~(resp_core.left > 0))
  <2>1. CASE resp_core.left = 1 /\ resp.state = "RS_COMPUTING"
    <3>1. crossed' = "result"
      BY <2>1, Zenon DEF Heartbeat!Crossing, Heartbeat!Valid
    <3> QED BY <2>1, <3>1
  <2>2. CASE resp_core.left = 1 /\ resp.state # "RS_COMPUTING"
    <3>1. crossed' = "nothing"
      BY <2>2, Zenon DEF Heartbeat!Crossing, Heartbeat!Valid
    <3> QED BY <2>2, <3>1
  <2>3. CASE resp_core.left # 1 /\ (resp.hmac_start \/ resp_core.left > 0)
    <3>1. crossed' = "computation"
      BY <2>3, Zenon DEF Heartbeat!Crossing, Heartbeat!Valid
    <3> QED BY <2>3, <3>1
  <2>4. CASE resp_core.left # 1 /\ ~(resp.hmac_start \/ resp_core.left > 0)
    <3>1. crossed' = "nothing"
      BY <2>4, Zenon DEF Heartbeat!Crossing, Heartbeat!Valid
    <3> QED BY <2>4, <3>1
  <2> QED BY <2>1, <2>2, <2>3, <2>4, Zenon
<1>5. RespTypes'
  BY <1>2, <1>4, Zenon DEF RespTypes, Responding
<1>6. FetchedInv'
  <2>1. ~resp'.ready_reg
    BY <1>2, Zenon
  <2>2. resp_core'.left > 0 => resp_core'.msg \in fetched
    <3>1. CASE resp_core.left > 0
      BY <3>1, RespCoreFrame, Zenon DEF RespInv, FetchedInv
    <3>2. CASE resp_core.left = 0 /\ resp.hmac_start
      BY <3>2, RespCoreFrame, Zenon DEF RespInv, FetchedInv
    <3>3. CASE resp_core.left = 0 /\ ~resp.hmac_start
      BY <3>3, RespCoreFrame
    <3>4. resp_core.left > 0 \/ resp_core.left = 0
      BY <1>3
    <3> QED BY <3>1, <3>2, <3>3, <3>4, Zenon
  <2>3. resp'.challenge_reg \in fetched
    BY <1>2
  <2> QED BY <2>1, <2>2, <2>3, Untouched, Zenon DEF RespInv, FetchedInv
<1>7. OnOffer'
  <2>1. resp'.hmac_start /\ ~resp'.ready_reg
    BY <1>2, Zenon
  <2>2. CASE resp.state = "RS_COMPUTING" /\ resp_core.left = 1
    <3>1. resp'.state = "RS_READY" /\ crossed' = "result"
      BY <1>2, <1>4, <2>2
    <3> QED BY <2>1, <3>1 DEF OnOffer
  <2>3. CASE ~(resp.state = "RS_COMPUTING" /\ resp_core.left = 1)
    <3>1. resp'.state = "RS_COMPUTING" /\ crossed' # "result"
      BY <1>2, <1>4, <2>3, Zenon
    <3>2. crossed' = "nothing" => ~(resp_core'.left > 0)
      <4>1. CASE resp_core.left = 1
        BY <4>1, RespCoreFrame
      <4>2. CASE ~resp.hmac_start /\ ~(resp_core.left > 0)
        <5>1. resp_core.left = 0
          BY <1>3, <4>2
        <5> QED BY <4>2, <5>1, RespCoreFrame
      <4> QED BY <1>4, <4>1, <4>2, Zenon
    <3> QED BY <2>1, <3>1, <3>2 DEF OnOffer
  <2> QED BY <2>2, <2>3
<1> QED BY <1>5, <1>6, <1>7

LEMMA RespEdgeKeeps ==
  ASSUME RespInv, Heartbeat!RespEdge
  PROVE  RespInv'
PROOF
<1>1. \/ resp' = Heartbeat!Computed /\ crossed' = crossed
      \/ \E c \in fetched : /\ resp' = Heartbeat!RespStep(Heartbeat!RespQuiet, c)
                            /\ crossed' = Heartbeat!Crossing
  BY Zenon DEF Heartbeat!RespEdge
<1>2. RespTypes' /\ FetchedInv' /\ OnOffer'
  BY <1>1, QuietCycle, TakingCycle
<1> QED BY <1>2, RespCoreFrame, Untouched, Zenon DEF RespInv

LEMMA RespResetKeeps ==
  ASSUME RespInv, Heartbeat!RespResets
  PROVE  RespInv'
PROOF
<1> USE HeartbeatSizes, ZeroTypes
<1>1. /\ resp' = Heartbeat!RespReset /\ resp_core' = Heartbeat!CoreIdle
      /\ crossed' = "nothing"
      /\ UNCHANGED <<response, drawn, fetched, tags, age>>
  BY Zenon DEF Heartbeat!RespResets
<1>2. /\ resp'.state = "RS_IDLE" /\ ~resp'.ready_reg /\ ~resp'.hmac_start
      /\ resp' \in Responding /\ resp_core'.left = 0
  BY <1>1 DEF Heartbeat!RespReset, Heartbeat!CoreIdle, Responding
<1>3. LinkTypes'
  BY <1>1, Zenon DEF RespInv, LinkTypes
<1>4. RespTypes'
  BY <1>1, <1>2 DEF RespTypes, Responding
<1>5. CoreTypes(resp_core)'
  BY <1>1 DEF CoreTypes, Heartbeat!CoreIdle
<1>6. FetchedInv'
  <2>1. ~(resp_core'.left > 0)
    BY <1>2
  <2> QED BY <1>1, <1>2, <2>1, Zenon DEF RespInv, FetchedInv
<1>7. OnOffer'
  BY <1>2 DEF OnOffer
<1> QED BY <1>3, <1>4, <1>5, <1>6, <1>7, Zenon DEF RespInv

\* The other clock and the master between them leave each side what it relies on.
LEMMA RespKeptByCtrl ==
  ASSUME CtrlInv, RespInv, CtrlInv', Heartbeat!CtrlEdge \/ Heartbeat!CtrlResets
  PROVE  RespInv'
PROOF
<1>1. fetched \subseteq fetched' /\ UNCHANGED <<resp, resp_core, tags, crossed>>
  <2>1. CASE Heartbeat!CtrlEdge
    BY <2>1, EdgeFrame
  <2>2. CASE Heartbeat!CtrlResets
    BY <2>2, Zenon DEF Heartbeat!CtrlResets
  <2> QED BY <2>1, <2>2
<1>2. RespTypes' /\ CoreTypes(resp_core)' /\ OnOffer'
  BY <1>1, Zenon DEF RespInv, RespTypes, CoreTypes, OnOffer
<1>3. FetchedInv'
  BY <1>1 DEF RespInv, FetchedInv
<1> QED BY <1>2, <1>3, Zenon DEF RespInv, CtrlInv

LEMMA CtrlUntouched ==
  ASSUME CtrlInv, UNCHANGED <<ctrl, core, response, drawn, fetched, tags, last, age>>
  PROVE  CtrlInv'
PROOF
<1>1. CtrlTypes' /\ CoreTypes(core)' /\ LinkTypes'
  BY Zenon DEF CtrlInv, CtrlTypes, CoreTypes, LinkTypes
<1>2. CoreInv'
  BY Zenon DEF CtrlInv, CoreInv, Heartbeat!Challenge
<1>3. RoundInv'
  BY Zenon DEF CtrlInv, RoundInv, Heartbeat!Challenge
<1>4. VerdictInv'
  BY Zenon DEF CtrlInv, VerdictInv
<1>5. AgeInv'
  BY Zenon DEF CtrlInv, AgeInv
<1> QED BY <1>1, <1>2, <1>3, <1>4, <1>5, Zenon DEF CtrlInv

LEMMA CtrlKeptByResp ==
  ASSUME CtrlInv, Heartbeat!RespEdge \/ Heartbeat!RespResets
  PROVE  CtrlInv'
PROOF
<1>1. UNCHANGED <<ctrl, core, response, drawn, fetched, tags, last, age>>
  BY Zenon DEF Heartbeat!RespEdge, Heartbeat!RespResets
<1> QED BY <1>1, CtrlUntouched

LEMMA MasterKeeps ==
  ASSUME HeartbeatInv, Heartbeat!MasterReadsTag
  PROVE  HeartbeatInv'
PROOF
<1>1. /\ UNCHANGED <<ctrl, core, response, resp, resp_core, drawn, fetched, last, age, crossed>>
      /\ tags' = tags \cup {resp.tag_reg} /\ resp.ready_reg
  BY Zenon DEF Heartbeat!MasterReadsTag
<1>2. resp.tag_reg \in fetched /\ fetched \subseteq Heartbeat!Challenges
  BY <1>1, Zenon DEF HeartbeatInv, RespInv, FetchedInv, LinkTypes
<1>3. LinkTypes'
  BY <1>1, <1>2 DEF HeartbeatInv, CtrlInv, LinkTypes
<1>4. VerdictInv'
  <2>1. tags \subseteq tags' /\ last' = last /\ response' = response /\ ctrl' = ctrl
    BY <1>1
  <2>2. response.tag \in tags \cup {Heartbeat!Zero}
    BY DEF HeartbeatInv, CtrlInv, VerdictInv
  <2>3. response'.tag \in tags' \cup {Heartbeat!Zero}
    BY <2>1, <2>2
  <2>4. ctrl.hb_ok_reg => last \in tags /\ ~ctrl.hb_fail_reg
    BY DEF HeartbeatInv, CtrlInv, VerdictInv
  <2>5. last \in tags => last' \in tags'
    BY <2>1
  <2> QED BY <2>1, <2>3, <2>4, <2>5, Zenon DEF VerdictInv
<1>5. CtrlInv'
  BY <1>1, <1>3, <1>4, Zenon DEF HeartbeatInv, CtrlInv, CtrlTypes, CoreTypes, CoreInv,
     RoundInv, AgeInv, Heartbeat!Challenge
<1>6. FetchedInv'
  <2>1. tags' \subseteq fetched
    BY <1>1, <1>2 DEF HeartbeatInv, RespInv, FetchedInv
  <2> QED BY <1>1, <2>1, Zenon DEF HeartbeatInv, RespInv, FetchedInv
<1>7. RespInv'
  BY <1>1, <1>3, <1>6, Zenon DEF HeartbeatInv, RespInv, RespTypes, CoreTypes, OnOffer
<1> QED BY <1>5, <1>7, Zenon DEF HeartbeatInv

LEMMA HeartbeatStarts == Heartbeat!Init => HeartbeatInv
PROOF
<1> USE HeartbeatSizes, ZeroTypes
<1> SUFFICES ASSUME Heartbeat!Init PROVE HeartbeatInv
  OBVIOUS
<1>1. /\ ctrl = Heartbeat!CtrlReset /\ core = Heartbeat!CoreIdle
      /\ resp = Heartbeat!RespReset /\ resp_core = Heartbeat!CoreIdle
      /\ response = [valid |-> FALSE, tag |-> Heartbeat!Zero]
      /\ drawn = 0 /\ fetched = {} /\ tags = {} /\ last = Heartbeat!Zero
      /\ age = 0 /\ crossed = "nothing"
  BY Zenon DEF Heartbeat!Init
<1>2. /\ ctrl \in Registers /\ ctrl.state = "HB_IDLE" /\ ctrl.interval_cnt = 0
      /\ ctrl.counter = 0 /\ ~ctrl.hb_ok_reg /\ ~ctrl.hmac_start /\ ~ctrl.challenge_valid
  BY <1>1 DEF Heartbeat!CtrlReset, Registers, HbStates
<1>3. CtrlTypes /\ CoreTypes(core) /\ CoreTypes(resp_core)
  BY <1>1, <1>2 DEF CtrlTypes, CoreTypes, Heartbeat!CoreIdle
<1>4. LinkTypes
  BY <1>1 DEF LinkTypes
<1>5. CoreInv /\ RoundInv
  BY <1>1, <1>2 DEF CoreInv, RoundInv, Heartbeat!CoreIdle
<1>6. VerdictInv
  <2>1. response.tag = Heartbeat!Zero
    BY <1>1
  <2> QED BY <1>2, <2>1 DEF VerdictInv
<1>7. AgeInv
  BY <1>1, <1>2 DEF AgeInv
<1>8. /\ resp.state = "RS_IDLE" /\ ~resp.ready_reg /\ ~resp.hmac_start
      /\ resp \in Responding /\ resp_core.left = 0
  BY <1>1 DEF Heartbeat!RespReset, Heartbeat!CoreIdle, Responding
<1>9. RespTypes
  BY <1>1, <1>8 DEF RespTypes, Responding
<1>10. FetchedInv /\ OnOffer
  BY <1>1, <1>8 DEF FetchedInv, OnOffer
<1> QED BY <1>3, <1>4, <1>5, <1>6, <1>7, <1>9, <1>10 DEF HeartbeatInv, CtrlInv, RespInv

LEMMA HeartbeatNext == HeartbeatInv /\ [Heartbeat!Next]_(Heartbeat!heartbeatVars) => HeartbeatInv'
PROOF
<1> SUFFICES ASSUME HeartbeatInv, [Heartbeat!Next]_(Heartbeat!heartbeatVars)
             PROVE  HeartbeatInv'
  OBVIOUS
<1>1. CASE Heartbeat!CtrlEdge
  BY <1>1, CtrlEdgeKeeps, RespKeptByCtrl DEF HeartbeatInv
<1>2. CASE Heartbeat!CtrlResets
  BY <1>2, CtrlResetKeeps, RespKeptByCtrl DEF HeartbeatInv
<1>3. CASE Heartbeat!RespEdge
  BY <1>3, RespEdgeKeeps, CtrlKeptByResp DEF HeartbeatInv
<1>4. CASE Heartbeat!RespResets
  BY <1>4, RespResetKeeps, CtrlKeptByResp DEF HeartbeatInv
<1>5. CASE Heartbeat!MasterReadsTag
  BY <1>5, MasterKeeps
<1>6. CASE UNCHANGED Heartbeat!heartbeatVars
  <2>1. UNCHANGED <<ctrl, core, response, resp, resp_core, drawn, fetched, tags, last,
                    age, crossed>>
    BY <1>6, Zenon DEF Heartbeat!heartbeatVars
  <2>2. CtrlInv'
    BY <2>1, CtrlUntouched DEF HeartbeatInv
  <2>3. RespTypes' /\ CoreTypes(resp_core)' /\ LinkTypes'
    BY <2>1, Zenon DEF HeartbeatInv, RespInv, RespTypes, CoreTypes, LinkTypes
  <2>4. FetchedInv' /\ OnOffer'
    BY <2>1, Zenon DEF HeartbeatInv, RespInv, FetchedInv, OnOffer
  <2> QED BY <2>2, <2>3, <2>4, Zenon DEF HeartbeatInv, RespInv
<1> QED BY <1>1, <1>2, <1>3, <1>4, <1>5, <1>6, Zenon DEF Heartbeat!Next

LEMMA HeartbeatImplies ==
  HeartbeatInv => /\ Heartbeat!OkIsEarned /\ Heartbeat!OkIsRecent /\ Heartbeat!TagOfChallenge
                  /\ Heartbeat!TypeOK
PROOF
<1> USE HeartbeatSizes
<1> SUFFICES ASSUME HeartbeatInv
             PROVE  /\ Heartbeat!OkIsEarned /\ Heartbeat!OkIsRecent /\ Heartbeat!TagOfChallenge
                    /\ Heartbeat!TypeOK
  OBVIOUS
<1>1. Heartbeat!OkIsEarned
  BY Zenon DEF HeartbeatInv, CtrlInv, RespInv, VerdictInv, FetchedInv, Heartbeat!OkIsEarned
<1>2. Heartbeat!OkIsRecent
  <2>1. /\ age \in Nat /\ ctrl.state \in HbStates /\ ctrl.interval_cnt < INTERVAL_CYCLES
        /\ ctrl.interval_cnt \in Nat /\ ctrl.resp_timer < RESP_TIMEOUT
        /\ ctrl.resp_timer \in Nat /\ ctrl.random_delay_cnt \in Nat
        /\ ctrl.nonce_words \in 0 .. 1 /\ core.left \in 0 .. HmacCycles
    BY DEF HeartbeatInv, CtrlInv, CtrlTypes, Registers, LinkTypes, CoreTypes
  <2>2. ctrl.state = "HB_WAIT_HMAC" => age <= Drawing + 4 + HmacCycles
    <3>1. ctrl.state = "HB_WAIT_HMAC" =>
            age <= Drawing + 3 + (IF ctrl.hmac_start THEN 0 ELSE 1 + HmacCycles - core.left)
      BY Zenon DEF HeartbeatInv, CtrlInv, AgeInv
    <3> QED BY <2>1, <3>1 DEF Drawing
  <2> QED BY <2>1, <2>2 DEF HeartbeatInv, CtrlInv, AgeInv, Drawing, HbStates,
             Heartbeat!OkIsRecent, Heartbeat!RoundLength
<1>3. Heartbeat!TagOfChallenge
  <2>1. resp.state \in {"RS_IDLE", "RS_COMPUTING", "RS_READY"}
    BY DEF HeartbeatInv, RespInv, RespTypes
  <2>2. CASE resp.state = "RS_IDLE"
    BY <2>2, Zenon DEF HeartbeatInv, RespInv, OnOffer, Heartbeat!TagOfChallenge
  <2>3. CASE resp.state = "RS_COMPUTING"
    <3>1. ~resp.ready_reg /\ (resp_core.left > 0 \/ resp.hmac_start)
      BY <2>3, Zenon DEF HeartbeatInv, RespInv, OnOffer
    <3>2. ~(resp_core.left = 0 /\ ~resp.hmac_start)
      BY <3>1
    <3> QED BY <3>1, <3>2, Zenon DEF Heartbeat!TagOfChallenge
  <2>4. CASE resp.state = "RS_READY"
    BY <2>4, Zenon DEF HeartbeatInv, RespInv, OnOffer, Heartbeat!TagOfChallenge
  <2> QED BY <2>1, <2>2, <2>3, <2>4
<1>4. Heartbeat!TypeOK
  <2>1. Heartbeat!Challenge \in Heartbeat!Challenges
    BY DEF HeartbeatInv, CtrlInv, CtrlTypes, Registers, Heartbeat!Challenge,
       Heartbeat!Challenges
  <2> QED BY <2>1 DEF HeartbeatInv, CtrlInv, RespInv, CtrlTypes, Registers, CoreTypes,
             LinkTypes, Heartbeat!TypeOK
<1> QED BY <1>1, <1>2, <1>3, <1>4

\* The inductive invariant of the heartbeat holds in every reachable state.
THEOREM HeartbeatInvariant == Heartbeat!Spec => []HeartbeatInv
PROOF BY HeartbeatStarts, HeartbeatNext, PTL DEF Heartbeat!Spec

(* For every interval, timeout and wait: heartbeat_ok is high only while    *)
(* the last round to end was answered with the tag of its own challenge, it  *)
(* outlives that round by one more at most, and a ready tag of the responder *)
(* is that of its last challenge but for one that crossed another.           *)
THEOREM HeartbeatIsHonest ==
  Heartbeat!Spec => [](/\ Heartbeat!OkIsEarned /\ Heartbeat!OkIsRecent
                       /\ Heartbeat!TagOfChallenge /\ Heartbeat!TypeOK)
PROOF BY HeartbeatInvariant, HeartbeatImplies, PTL

-----------------------------------------------------------------------------
(* The hash core behind the heartbeat.                                       *)
(* For every block size, number of rounds and length of message and hash,    *)
(* what the hash core of the heartbeat promises: every start it takes is     *)
(* answered after the same number of edges with the HMAC of its message.     *)

\* The word a hash takes at position k of its message: one operator for what
\* the feeder sends, what the memory holds and what the hash is named after.
PadName(phase) == IF phase = "INNER" THEN "ipad" ELSE "opad"
BodyName(phase) == IF phase = "INNER" THEN "msg" ELSE "inner"
BodyWords(phase) == IF phase = "INNER" THEN MsgWords ELSE HashWords
WordAt(phase, m, k) ==
  IF k < BlockWords THEN <<PadName(phase), k>>
  ELSE IF k < BlockWords + BodyWords(phase)
  THEN <<BodyName(phase), m, k - BlockWords>>
  ELSE IF k = BlockWords + BodyWords(phase) THEN <<"one", 0>>
  ELSE IF k = 2 * BlockWords - 1 THEN <<"length", BlockWords + BodyWords(phase)>>
  ELSE Hash!Blank

HPhases == {"INNER", "OUTER"}
HStates == {"H_IDLE", "H_PREP", "H_WAIT_READY", "H_FEED", "H_FEED_NEXT", "H_WAIT_HASH",
            "H_DONE"}
SStates == {"S_IDLE", "S_LOAD_MSG", "S_EXPAND", "S_COMPRESS", "S_UPDATE", "S_DONE"}
Hashes == {"none", "inner", "hmac"} \X Nat
AllWords == {WordAt(phase, m, k) : phase \in HPhases, m \in Nat, k \in 0 .. 2 * BlockWords - 1}

HmacRegs ==
  [state : HStates, phase : HPhases, feed_part : {"PAD", "MSG", "PADDING"},
   word_idx : 0 .. BlockWords - 1, block_word_cnt : 0 .. BlockWords - 1,
   is_block2 : BOOLEAN, msg_latched : Nat, inner_hash : Hashes,
   sha_start : BOOLEAN, sha_data_valid : BOOLEAN, sha_last_block : BOOLEAN,
   busy : BOOLEAN, hmac_valid : BOOLEAN, hmac_out : Hashes]
ShaRegs ==
  [state : SStates, word_cnt : 0 .. BlockWords - 1, count : 0 .. Rounds - 1,
   is_last : BOOLEAN, W : Seq(AllWords), taken : Seq(AllWords),
   ready : BOOLEAN, hash_valid : BOOLEAN]
HashTypes ==
  /\ hmac \in HmacRegs /\ sha \in ShaRegs /\ asked \in Nat /\ since \in Nat
  /\ Len(sha.W) <= BlockWords /\ Len(sha.taken) <= 2 * BlockWords

\* What is so in every state of a computation.
Strobes(start, valid, final, answer) ==
  /\ hmac.sha_start = start /\ hmac.sha_data_valid = valid
  /\ hmac.sha_last_block = final /\ hmac.hmac_valid = answer
Working ==
  /\ hmac.busy = TRUE /\ asked \in Messages /\ hmac.msg_latched = asked
  /\ hmac.phase = "OUTER" => hmac.inner_hash = <<"inner", asked>>
Resting == sha.state = "S_IDLE" /\ sha.ready = FALSE /\ sha.hash_valid = FALSE

\* Where the feeder is: in the key, in the message or in the padding.
Feeder ==
  IF hmac.is_block2
  THEN IF hmac.block_word_cnt < BodyWords(hmac.phase)
       THEN hmac.feed_part = "MSG" /\ hmac.word_idx = hmac.block_word_cnt
       ELSE /\ hmac.feed_part = "PADDING"
            /\ hmac.word_idx = hmac.block_word_cnt - BodyWords(hmac.phase)
  ELSE hmac.feed_part = "PAD" /\ hmac.word_idx = hmac.block_word_cnt

\* The memory holds n words of the block that starts at base, all before it
\* are in the hash.
Holds(n, base) ==
  /\ Len(sha.W) = n
  /\ \A i \in 1 .. n : sha.W[i] = WordAt(hmac.phase, asked, base + i - 1)
Took(n) ==
  /\ Len(sha.taken) = n
  /\ \A i \in 1 .. n : sha.taken[i] = WordAt(hmac.phase, asked, i - 1)
Base == IF hmac.is_block2 THEN BlockWords ELSE 0

Loading ==
  /\ Working /\ Feeder
  /\ sha.state = "S_LOAD_MSG" /\ sha.ready = TRUE /\ sha.hash_valid = FALSE
  /\ sha.word_cnt = hmac.block_word_cnt /\ sha.is_last = FALSE
  /\ Holds(hmac.block_word_cnt, Base) /\ Took(Base)
Hashing(base, final) ==
  /\ sha.state \in {"S_EXPAND", "S_COMPRESS", "S_UPDATE"}
  /\ sha.state = "S_EXPAND" => sha.count >= BlockWords
  /\ sha.ready = FALSE /\ sha.hash_valid = FALSE /\ sha.is_last = final
  /\ Holds(BlockWords, base) /\ Took(base)

\* Edges since the start.
BlockTime == 2 * BlockWords + 2 * Rounds + 1
HashTime == 2 * BlockTime + 4
PhaseTime == IF hmac.phase = "INNER" THEN 0 ELSE HashTime
LoadTime == PhaseTime + (IF hmac.is_block2 THEN BlockTime ELSE 0)
            + 3 + 3 * hmac.block_word_cnt
ShaTime ==
  3 + 3 * BlockWords
  + (IF sha.state = "S_EXPAND" THEN sha.count - BlockWords
     ELSE Rounds - BlockWords
          + (IF sha.state = "S_COMPRESS" THEN sha.count
             ELSE IF sha.state = "S_UPDATE" THEN Rounds
             ELSE IF sha.state = "S_DONE" THEN Rounds + 1 ELSE Rounds + 2))

\* The two machines in step, from one start to its answer.
AtRest ==
  /\ hmac.state = "H_IDLE" /\ Strobes(FALSE, FALSE, FALSE, FALSE) /\ hmac.busy = FALSE
  /\ Resting /\ since = 0
Preparing ==
  /\ hmac.state = "H_PREP" /\ Strobes(FALSE, FALSE, FALSE, FALSE) /\ Working
  /\ hmac.feed_part = "PAD" /\ hmac.is_block2 = FALSE
  /\ Resting /\ since = PhaseTime + 1
Starting ==
  /\ hmac.state = "H_WAIT_READY" /\ Strobes(TRUE, FALSE, FALSE, FALSE) /\ Working
  /\ hmac.feed_part = "PAD" /\ hmac.is_block2 = FALSE
  /\ hmac.word_idx = 0 /\ hmac.block_word_cnt = 0
  /\ Resting /\ since = PhaseTime + 2
Waiting ==
  /\ hmac.state = "H_WAIT_READY" /\ Strobes(FALSE, FALSE, FALSE, FALSE)
  /\ Loading /\ since = LoadTime
Feeding ==
  /\ hmac.state = "H_FEED" /\ Strobes(FALSE, FALSE, FALSE, FALSE)
  /\ Loading /\ since = LoadTime + 1
Fed ==
  /\ hmac.state = "H_FEED_NEXT"
  /\ \E final \in BOOLEAN :
       /\ Strobes(FALSE, TRUE, final, FALSE)
       /\ final <=> hmac.block_word_cnt = BlockWords - 1 /\ hmac.is_block2
  /\ Loading /\ since = LoadTime + 2
FirstBlock ==
  /\ hmac.state = "H_WAIT_READY" /\ Strobes(FALSE, FALSE, FALSE, FALSE)
  /\ Working /\ hmac.feed_part = "MSG" /\ hmac.is_block2 = TRUE
  /\ hmac.word_idx = 0 /\ hmac.block_word_cnt = 0
  /\ Hashing(0, FALSE) /\ since = PhaseTime + ShaTime
SecondBlock ==
  /\ hmac.state = "H_WAIT_HASH" /\ Strobes(FALSE, FALSE, FALSE, FALSE) /\ Working
  /\ Hashing(BlockWords, TRUE) /\ since = PhaseTime + BlockTime + ShaTime
Hashed ==
  /\ hmac.state = "H_WAIT_HASH" /\ Strobes(FALSE, FALSE, FALSE, FALSE) /\ Working
  /\ sha.state \in {"S_DONE", "S_IDLE"} /\ sha.ready = FALSE
  /\ sha.hash_valid = (sha.state = "S_IDLE")
  /\ Took(2 * BlockWords) /\ since = PhaseTime + BlockTime + ShaTime
Answered ==
  /\ hmac.state = "H_DONE" /\ Strobes(FALSE, FALSE, FALSE, TRUE) /\ hmac.busy = TRUE
  /\ hmac.hmac_out = <<"hmac", asked>> /\ Resting /\ since = 2 * HashTime + 1

InStep ==
  \/ AtRest \/ Preparing \/ Starting \/ Waiting \/ Feeding \/ Fed
  \/ FirstBlock \/ SecondBlock \/ Hashed \/ Answered
HashInv == HashTypes /\ InStep
-----------------------------------------------------------------------------
WordsOf(phase, m) == [i \in 1 .. 2 * BlockWords |-> WordAt(phase, m, i - 1)]

LEMMA HashSizes ==
  /\ BlockWords \in Nat /\ Rounds \in Nat /\ Rounds > BlockWords /\ BlockWords > 3
  /\ MsgWords \in 1 .. BlockWords - 3 /\ HashWords \in 1 .. BlockWords - 3
  /\ Messages \subseteq Nat
PROOF BY TimerSizes DEF Hash!HmacConstants

LEMMA BodySizes == \A phase \in HPhases : BodyWords(phase) \in 1 .. BlockWords - 3
PROOF BY HashSizes DEF HPhases, BodyWords

LEMMA SeqOfLength ==
  ASSUME NEW S, NEW k \in Nat, NEW f, f = [i \in 1 .. k |-> f[i]], \A i \in 1 .. k : f[i] \in S
  PROVE  f \in Seq(S) /\ Len(f) = k
PROOF
<1>1. f \in [1 .. k -> S]
  OBVIOUS
<1> QED BY <1>1, LenProperties, SeqDef

LEMMA BodyWord ==
  ASSUME NEW phase, NEW m, NEW k, ~(k < BlockWords), k < BlockWords + BodyWords(phase)
  PROVE  WordAt(phase, m, k) = <<BodyName(phase), m, k - BlockWords>>
PROOF BY Zenon DEF WordAt

\* The messages of the two hashes, written as what the feeder sends.
LEMMA WordsOfMessages ==
  ASSUME NEW m \in Nat, NEW phase \in HPhases
  PROVE  (IF phase = "INNER" THEN Hash!InnerMessage(m) ELSE Hash!OuterMessage(m))
         = WordsOf(phase, m)
PROOF
<1> USE HashSizes
<1> DEFINE n == BodyWords(phase)
           pad == Hash!PadWords(PadName(phase))
           body == Hash!Words(BodyName(phase), m, n)
           tail == Hash!Padding(n)
           whole == pad \o body \o tail
<1>1. n \in 1 .. BlockWords - 3
  BY BodySizes
<1>2. (IF phase = "INNER" THEN Hash!InnerMessage(m) ELSE Hash!OuterMessage(m)) = whole
  <2>1. CASE phase = "INNER"
    BY <2>1, Zenon DEF Hash!InnerMessage, PadName, BodyName, BodyWords
  <2>2. CASE phase = "OUTER"
    <3>1. phase # "INNER"
      BY <2>2
    <3> QED BY <3>1, Zenon DEF Hash!OuterMessage, PadName, BodyName, BodyWords
  <2> QED BY <2>1, <2>2 DEF HPhases
<1>3. /\ pad = [i \in 1 .. BlockWords |-> <<PadName(phase), i - 1>>]
      /\ body = [i \in 1 .. n |-> <<BodyName(phase), m, i - 1>>]
      /\ tail = [i \in 1 .. BlockWords - n |->
                   IF i = 1 THEN <<"one", 0>>
                   ELSE IF i = BlockWords - n THEN <<"length", BlockWords + n>>
                   ELSE Hash!Blank]
  BY Zenon DEF Hash!PadWords, Hash!Words, Hash!Padding
<1>0. n = BodyWords(phase)
  OBVIOUS
<1> HIDE DEF pad, body, tail, n
<1>4. \A k \in 0 .. 2 * BlockWords - 1 : WordAt(phase, m, k) \in AllWords
  BY DEF AllWords
<1>5. pad \in Seq(AllWords) /\ Len(pad) = BlockWords
      /\ \A i \in 1 .. BlockWords : pad[i] = WordAt(phase, m, i - 1)
  <2>1. \A i \in 1 .. BlockWords : i - 1 < BlockWords /\ i - 1 \in 0 .. 2 * BlockWords - 1
    OBVIOUS
  <2>2. \A i \in 1 .. BlockWords : pad[i] = WordAt(phase, m, i - 1)
    BY <1>3, <2>1, Zenon DEF WordAt
  <2>3. pad = [i \in 1 .. BlockWords |-> pad[i]]
    BY <1>3
  <2>4. \A i \in 1 .. BlockWords : pad[i] \in AllWords
    BY <1>4, <2>1, <2>2
  <2> QED BY <2>2, <2>3, <2>4, SeqOfLength
<1>6. body \in Seq(AllWords) /\ Len(body) = n
      /\ \A i \in 1 .. n : body[i] = WordAt(phase, m, BlockWords + i - 1)
  <2>1. \A i \in 1 .. n : /\ ~(BlockWords + i - 1 < BlockWords)
                          /\ BlockWords + i - 1 < BlockWords + n
                          /\ BlockWords + i - 1 - BlockWords = i - 1
                          /\ BlockWords + i - 1 \in 0 .. 2 * BlockWords - 1
    BY <1>1
  <2>2. \A i \in 1 .. n : body[i] = WordAt(phase, m, BlockWords + i - 1)
    <3>1. TAKE i \in 1 .. n
    <3>2. body[i] = <<BodyName(phase), m, i - 1>>
      BY <1>3, Zenon
    <3>3. WordAt(phase, m, BlockWords + i - 1)
          = <<BodyName(phase), m, BlockWords + i - 1 - BlockWords>>
      <4>1. /\ ~(BlockWords + i - 1 < BlockWords)
            /\ BlockWords + i - 1 < BlockWords + BodyWords(phase)
        BY <1>0, <2>1
      <4> QED BY <4>1, BodyWord, SMT
    <3> QED BY <2>1, <3>2, <3>3, Zenon
  <2>3. body = [i \in 1 .. n |-> body[i]]
    BY <1>3
  <2>4. \A i \in 1 .. n : body[i] \in AllWords
    BY <1>4, <2>1, <2>2
  <2> QED BY <1>1, <2>2, <2>3, <2>4, SeqOfLength
<1>7. tail \in Seq(AllWords) /\ Len(tail) = BlockWords - n
      /\ \A i \in 1 .. BlockWords - n : tail[i] = WordAt(phase, m, BlockWords + n + i - 1)
  <2>1. \A i \in 1 .. BlockWords - n :
          /\ ~(BlockWords + n + i - 1 < BlockWords)
          /\ ~(BlockWords + n + i - 1 < BlockWords + n)
          /\ BlockWords + n + i - 1 = BlockWords + n <=> i = 1
          /\ BlockWords + n + i - 1 = 2 * BlockWords - 1 <=> i = BlockWords - n
          /\ BlockWords + n + i - 1 \in 0 .. 2 * BlockWords - 1
    BY <1>1
  <2>2. \A i \in 1 .. BlockWords - n :
          tail[i] = WordAt(phase, m, BlockWords + n + i - 1)
    <3>1. TAKE i \in 1 .. BlockWords - n
    <3>2. tail[i] = IF i = 1 THEN <<"one", 0>>
                    ELSE IF i = BlockWords - n THEN <<"length", BlockWords + n>>
                    ELSE Hash!Blank
      BY <1>3, Zenon
    <3>3. WordAt(phase, m, BlockWords + n + i - 1)
          = IF BlockWords + n + i - 1 = BlockWords + n THEN <<"one", 0>>
            ELSE IF BlockWords + n + i - 1 = 2 * BlockWords - 1
            THEN <<"length", BlockWords + n>> ELSE Hash!Blank
      BY <1>0, <2>1, Zenon DEF WordAt
    <3> QED BY <2>1, <3>2, <3>3, Zenon
  <2>3. tail = [i \in 1 .. BlockWords - n |-> tail[i]]
    BY <1>3
  <2>4. \A i \in 1 .. BlockWords - n : tail[i] \in AllWords
    BY <1>4, <2>1, <2>2
  <2>5. BlockWords - n \in Nat
    BY <1>1
  <2> QED BY <2>2, <2>3, <2>4, <2>5, SeqOfLength
<1> DEFINE front == pad \o body
<1>8. front \in Seq(AllWords) /\ Len(front) = BlockWords + n
      /\ \A i \in 1 .. BlockWords + n : front[i] = WordAt(phase, m, i - 1)
  <2>1. front \in Seq(AllWords) /\ Len(front) = BlockWords + n
        /\ \A i \in 1 .. BlockWords + n :
             front[i] = IF i <= BlockWords THEN pad[i] ELSE body[i - BlockWords]
    BY <1>5, <1>6, ConcatProperties
  <2> HIDE DEF front
  <2>2. \A i \in 1 .. BlockWords + n : front[i] = WordAt(phase, m, i - 1)
    <3>1. TAKE i \in 1 .. BlockWords + n
    <3>2. CASE i <= BlockWords
      BY <1>5, <2>1, <3>2
    <3>3. CASE ~(i <= BlockWords)
      <4>1. i - BlockWords \in 1 .. n /\ BlockWords + (i - BlockWords) - 1 = i - 1
        BY <1>1, <3>3
      <4> QED BY <1>6, <2>1, <3>3, <4>1
    <3> QED BY <3>2, <3>3
  <2> QED BY <2>1, <2>2
<1>9. whole \in Seq(AllWords) /\ Len(whole) = 2 * BlockWords
      /\ \A i \in 1 .. 2 * BlockWords : whole[i] = WordAt(phase, m, i - 1)
  <2>0. whole = front \o tail
    OBVIOUS
  <2> HIDE DEF front, whole
  <2>1. whole \in Seq(AllWords) /\ Len(whole) = BlockWords + n + (BlockWords - n)
        /\ \A i \in 1 .. BlockWords + n + (BlockWords - n) :
             whole[i] = IF i <= BlockWords + n THEN front[i] ELSE tail[i - (BlockWords + n)]
    <3>1. /\ whole \in Seq(AllWords) /\ Len(whole) = Len(front) + Len(tail)
          /\ \A i \in 1 .. Len(front) + Len(tail) :
               whole[i] = IF i <= Len(front) THEN front[i] ELSE tail[i - Len(front)]
      BY <1>7, <1>8, <2>0, ConcatProperties, Zenon
    <3>2. Len(front) = BlockWords + n /\ Len(tail) = BlockWords - n
      BY <1>7, <1>8
    <3> QED BY <3>1, <3>2, Zenon
  <2>2. BlockWords + n + (BlockWords - n) = 2 * BlockWords
    BY <1>1
  <2>3. \A i \in 1 .. 2 * BlockWords : whole[i] = WordAt(phase, m, i - 1)
    <3>1. TAKE i \in 1 .. 2 * BlockWords
    <3>2. CASE i <= BlockWords + n
      BY <1>1, <1>8, <2>1, <2>2, <3>2
    <3>3. CASE ~(i <= BlockWords + n)
      <4>1. /\ i - (BlockWords + n) \in 1 .. BlockWords - n
            /\ BlockWords + n + (i - (BlockWords + n)) - 1 = i - 1
        BY <1>1, <3>3
      <4> QED BY <1>7, <2>1, <2>2, <3>3, <4>1
    <3> QED BY <3>2, <3>3
  <2> QED BY <2>1, <2>2, <2>3
<1> HIDE DEF whole
<1>10. whole = [i \in 1 .. 2 * BlockWords |-> WordAt(phase, m, i - 1)]
  <2>1. whole = [i \in 1 .. Len(whole) |-> whole[i]]
    BY <1>9, LenProperties
  <2> QED BY <1>9, <2>1
<1> QED BY <1>2, <1>10, Zenon DEF WordsOf

\* A message is known by its first word of data, the pass by its first word.
LEMMA WordsTell ==
  ASSUME NEW a \in Nat, NEW b \in Nat, NEW phase \in HPhases, NEW other \in HPhases,
         WordsOf(phase, a) = WordsOf(other, b)
  PROVE  phase = other /\ a = b
PROOF
<1> USE HashSizes
<1> DEFINE f == WordsOf(phase, a)
           g == WordsOf(other, b)
<1>1. f[1] = g[1] /\ f[BlockWords + 1] = g[BlockWords + 1]
  BY Zenon
<1>2. 1 \in 1 .. 2 * BlockWords /\ BlockWords + 1 \in 1 .. 2 * BlockWords
  OBVIOUS
<1>3. WordAt(phase, a, 1 - 1) = WordAt(other, b, 1 - 1)
  BY <1>1, <1>2, Zenon DEF WordsOf
<1>4. WordAt(phase, a, BlockWords + 1 - 1) = WordAt(other, b, BlockWords + 1 - 1)
  BY <1>1, <1>2 DEF WordsOf
<1>5. 1 - 1 = 0 /\ BlockWords + 1 - 1 = BlockWords /\ BlockWords - BlockWords = 0
      /\ 0 < BlockWords /\ ~(BlockWords < BlockWords)
  OBVIOUS
<1>6. \A p \in HPhases, m \in Nat :
        /\ WordAt(p, m, 0) = <<PadName(p), 0>>
        /\ WordAt(p, m, BlockWords) = <<BodyName(p), m, 0>>
  <2>1. TAKE p \in HPhases, m \in Nat
  <2>2. WordAt(p, m, 0) = <<PadName(p), 0>>
    BY <1>5, Zenon DEF WordAt
  <2>3. BlockWords < BlockWords + BodyWords(p)
    BY BodySizes
  <2>4. WordAt(p, m, BlockWords) = <<BodyName(p), m, BlockWords - BlockWords>>
    BY <1>5, <2>3, BodyWord
  <2>5. WordAt(p, m, BlockWords) = <<BodyName(p), m, 0>>
    BY <1>5, <2>4
  <2> QED BY <2>2, <2>5, Zenon
<1>7. <<PadName(phase), 0>> = <<PadName(other), 0>>
  BY <1>3, <1>5, <1>6, Zenon
<1>8. <<BodyName(phase), a, 0>> = <<BodyName(other), b, 0>>
  BY <1>4, <1>5, <1>6, Zenon
<1>9. PadName(phase) = PadName(other) /\ a = b
  <2>1. <<PadName(phase), 0>>[1] = <<PadName(other), 0>>[1]
    BY <1>7, Zenon
  <2>2. <<BodyName(phase), a, 0>>[2] = <<BodyName(other), b, 0>>[2]
    BY <1>8, Zenon
  <2>3. PadName(phase) = PadName(other)
    BY <2>1
  <2>4. a = b
    BY <2>2
  <2> QED BY <2>3, <2>4
<1> QED BY <1>9 DEF PadName, HPhases

LEMMA MessagesDiffer ==
  \A a, b \in Nat, phase, other \in HPhases :
    WordsOf(phase, a) = WordsOf(other, b) => phase = other /\ a = b
PROOF BY WordsTell, Zenon

LEMMA HashOfMessage ==
  ASSUME NEW m \in Messages, NEW phase \in HPhases, NEW words,
         words = WordsOf(phase, m)
  PROVE  Hash!HashOf(words) = <<IF phase = "INNER" THEN "inner" ELSE "hmac", m>>
PROOF
<1> USE HashSizes
<1> DEFINE Inner(k) == WordsOf("INNER", k)
           Outer(k) == WordsOf("OUTER", k)
<1>1. /\ "INNER" \in HPhases /\ "OUTER" \in HPhases /\ "INNER" # "OUTER"
      /\ Messages \subseteq Nat
  BY DEF HPhases
<1>2. \A k \in Messages : Hash!InnerMessage(k) = Inner(k) /\ Hash!OuterMessage(k) = Outer(k)
  <2>1. TAKE k \in Messages
  <2>2. Hash!InnerMessage(k) = Inner(k)
    BY <1>1, WordsOfMessages
  <2>3. Hash!OuterMessage(k) = Outer(k)
    <3>1. (IF "OUTER" = "INNER" THEN Hash!InnerMessage(k) ELSE Hash!OuterMessage(k)) = Outer(k)
      BY <1>1, WordsOfMessages
    <3> QED BY <1>1, <3>1, Zenon
  <2> QED BY <2>2, <2>3
<1>3. \A k \in Messages : /\ words = Inner(k) => phase = "INNER" /\ m = k
                          /\ words = Outer(k) => phase = "OUTER" /\ m = k
  <2>1. TAKE k \in Messages
  <2>2. m \in Nat /\ k \in Nat
    BY <1>1
  <2>3. ASSUME words = Inner(k) PROVE phase = "INNER" /\ m = k
    <3>1. WordsOf(phase, m) = Inner(k)
      BY <2>3
    <3> QED BY <1>1, <2>2, <3>1, MessagesDiffer, Zenon
  <2>4. ASSUME words = Outer(k) PROVE phase = "OUTER" /\ m = k
    <3>1. WordsOf(phase, m) = Outer(k)
      BY <2>4
    <3> QED BY <1>1, <2>2, <3>1, MessagesDiffer, Zenon
  <2> QED BY <2>3, <2>4
<1>4. \A k \in Messages : /\ words = Hash!InnerMessage(k) => phase = "INNER" /\ m = k
                          /\ words = Hash!OuterMessage(k) => phase = "OUTER" /\ m = k
  BY <1>2, <1>3, Zenon
<1>5. CASE phase = "INNER"
  <2>1. words = Hash!InnerMessage(m)
    BY <1>2, <1>5, Zenon
  <2>2. (CHOOSE k \in Messages : words = Hash!InnerMessage(k)) = m
    BY <1>4, <2>1, Zenon
  <2>3. Hash!HashOf(words)
        = <<"inner", CHOOSE k \in Messages : words = Hash!InnerMessage(k)>>
    BY <2>1, Zenon DEF Hash!HashOf
  <2> QED BY <1>5, <2>2, <2>3, Zenon
<1>6. CASE phase = "OUTER"
  <2>1. words = Hash!OuterMessage(m) /\ phase # "INNER"
    BY <1>1, <1>2, <1>6, Zenon
  <2>2. (CHOOSE k \in Messages : words = Hash!OuterMessage(k)) = m
    BY <1>4, <2>1, Zenon
  <2>3. Hash!HashOf(words)
        = <<"hmac", CHOOSE k \in Messages : words = Hash!OuterMessage(k)>>
    BY <1>4, <2>1, Zenon DEF Hash!HashOf
  <2> QED BY <2>1, <2>2, <2>3, Zenon
<1> QED BY <1>5, <1>6 DEF HPhases

LEMMA FullHash ==
  ASSUME HashTypes, asked \in Messages, Took(2 * BlockWords)
  PROVE  Hash!HashOf(sha.taken)
         = <<IF hmac.phase = "INNER" THEN "inner" ELSE "hmac", asked>>
PROOF
<1>1. hmac.phase \in HPhases /\ sha.taken \in Seq(AllWords)
  BY DEF HashTypes, HmacRegs, ShaRegs
<1>2. sha.taken = [i \in 1 .. Len(sha.taken) |-> sha.taken[i]]
  BY <1>1, LenProperties
<1>3. sha.taken = [i \in 1 .. 2 * BlockWords |-> WordAt(hmac.phase, asked, i - 1)]
  BY <1>2 DEF Took
<1> QED BY <1>1, <1>3, HashOfMessage DEF WordsOf

LEMMA AppendToPair ==
  ASSUME NEW a, NEW b, NEW c
  PROVE  Append(<<a, b>>, c) = <<a, b, c>>
PROOF
<1>1. <<a, b>> \in Seq({a, b, c}) /\ Len(<<a, b>>) = 2
  OBVIOUS
<1>2. /\ Append(<<a, b>>, c) \in Seq({a, b, c}) /\ Len(Append(<<a, b>>, c)) = 3
      /\ Append(<<a, b>>, c)[1] = a /\ Append(<<a, b>>, c)[2] = b
      /\ Append(<<a, b>>, c)[3] = c
  BY <1>1, AppendProperties
<1> DEFINE t == Append(<<a, b>>, c)
<1> HIDE DEF t
<1>3. t = [i \in 1 .. 3 |-> t[i]]
  BY <1>2, LenProperties DEF t
<1>4. t[1] = a /\ t[2] = b /\ t[3] = c
  BY <1>2 DEF t
<1>5. t = <<a, b, c>>
  BY <1>3, <1>4
<1> QED BY <1>5 DEF t

LEMMA FeederWord ==
  ASSUME HashTypes, Working, Feeder
  PROVE  /\ Hash!DataIn = WordAt(hmac.phase, asked, Base + hmac.block_word_cnt)
         /\ Hash!DataIn \in AllWords
PROOF
<1> USE HashSizes
<1> DEFINE idx == hmac.word_idx
           cnt == hmac.block_word_cnt
           words == IF hmac.phase = "INNER" THEN MsgWords ELSE HashWords
           source == IF hmac.phase = "INNER" THEN <<"msg", hmac.msg_latched>> ELSE hmac.inner_hash
<1>1. /\ hmac.phase \in HPhases /\ cnt \in 0 .. BlockWords - 1 /\ idx \in 0 .. BlockWords - 1
      /\ asked \in Nat
  BY DEF HashTypes, HmacRegs
<1>2. words = BodyWords(hmac.phase) /\ words \in 1 .. BlockWords - 3
  BY <1>1, BodySizes, Zenon DEF BodyWords
<1>3. source = <<BodyName(hmac.phase), asked>>
  <2>1. CASE hmac.phase = "INNER"
    BY <2>1, Zenon DEF Working, BodyName
  <2>2. CASE hmac.phase = "OUTER"
    <3>1. hmac.phase # "INNER"
      BY <2>2
    <3> QED BY <2>2, <3>1, Zenon DEF Working, BodyName
  <2> QED BY <1>1, <2>1, <2>2 DEF HPhases
<1> HIDE DEF idx, cnt, words, source
<1>4. Hash!DataIn = WordAt(hmac.phase, asked, Base + cnt)
  <2>1. CASE hmac.is_block2 = FALSE
    <3>1. hmac.feed_part = "PAD" /\ idx = cnt /\ Base = 0
      BY <2>1, Zenon DEF Feeder, Base, idx, cnt
    <3>2. Hash!DataIn = <<IF hmac.phase = "INNER" THEN "ipad" ELSE "opad", idx>>
      BY <3>1 DEF Hash!DataIn, idx
    <3>3. Base + cnt = cnt /\ cnt < BlockWords
      BY <1>1, <3>1
    <3>4. WordAt(hmac.phase, asked, cnt) = <<PadName(hmac.phase), cnt>>
      BY <3>3, Zenon DEF WordAt
    <3> QED BY <3>1, <3>2, <3>3, <3>4, Zenon DEF PadName
  <2>2. CASE hmac.is_block2 = TRUE /\ cnt < words
    <3>1. hmac.feed_part = "MSG" /\ idx = cnt /\ Base = BlockWords
      BY <1>2, <2>2, Zenon DEF Feeder, Base, idx, cnt
    <3>2. Hash!DataIn = IF idx < words THEN Append(source, idx) ELSE Hash!Blank
      BY <3>1 DEF Hash!DataIn, idx, words, source
    <3>3. Hash!DataIn = Append(<<BodyName(hmac.phase), asked>>, cnt)
      BY <1>3, <2>2, <3>1, <3>2, Zenon
    <3>4. Append(<<BodyName(hmac.phase), asked>>, cnt) = <<BodyName(hmac.phase), asked, cnt>>
      BY AppendToPair, Zenon
    <3>5. WordAt(hmac.phase, asked, BlockWords + cnt)
          = <<BodyName(hmac.phase), asked, cnt>>
      <4> DEFINE k == BlockWords + cnt
      <4>1. ~(k < BlockWords) /\ k < BlockWords + BodyWords(hmac.phase)
        BY <1>1, <1>2, <2>2
      <4>3. k - BlockWords = cnt
        BY <1>1
      <4> HIDE DEF k
      <4>2. WordAt(hmac.phase, asked, k) = <<BodyName(hmac.phase), asked, k - BlockWords>>
        BY <4>1, BodyWord, Zenon
      <4>4. WordAt(hmac.phase, asked, k) = <<BodyName(hmac.phase), asked, cnt>>
        BY <4>2, <4>3, Zenon
      <4> QED BY <4>4, Zenon DEF k
    <3> QED BY <3>1, <3>3, <3>4, <3>5, Zenon
  <2>3. CASE hmac.is_block2 = TRUE /\ ~(cnt < words)
    <3>1. hmac.feed_part = "PADDING" /\ idx = cnt - words /\ Base = BlockWords
      BY <1>2, <2>3, Zenon DEF Feeder, Base, idx, cnt
    <3>2. Hash!DataIn
          = Hash!PaddingWord(idx, 0, BlockWords - words - 1, BlockWords + words)
      BY <3>1 DEF Hash!DataIn, idx, words
    <3>3. Hash!DataIn = IF idx = 0 THEN <<"one", 0>>
                        ELSE IF idx = BlockWords - words - 1
                        THEN <<"length", BlockWords + words>> ELSE Hash!Blank
      BY <3>2, Zenon DEF Hash!PaddingWord
    <3> DEFINE k == BlockWords + cnt
    <3>4. /\ ~(k < BlockWords) /\ ~(k < BlockWords + words)
          /\ k = BlockWords + words <=> idx = 0
          /\ k = 2 * BlockWords - 1 <=> idx = BlockWords - words - 1
      BY <1>1, <1>2, <2>3, <3>1
    <3> HIDE DEF k
    <3>5. WordAt(hmac.phase, asked, k)
          = IF k < BlockWords THEN <<PadName(hmac.phase), k>>
            ELSE IF k < BlockWords + words THEN <<BodyName(hmac.phase), asked, k - BlockWords>>
            ELSE IF k = BlockWords + words THEN <<"one", 0>>
            ELSE IF k = 2 * BlockWords - 1 THEN <<"length", BlockWords + words>>
            ELSE Hash!Blank
      BY <1>2, Zenon DEF WordAt
    <3>6. WordAt(hmac.phase, asked, k) = Hash!DataIn
      BY <3>3, <3>4, <3>5, Zenon
    <3> QED BY <3>1, <3>6, Zenon DEF k
  <2>4. hmac.is_block2 \in BOOLEAN
    BY DEF HashTypes, HmacRegs
  <2> QED BY <2>1, <2>2, <2>3, <2>4, Zenon
<1>5. Base + cnt \in 0 .. 2 * BlockWords - 1
  <2>1. Base \in {0, BlockWords}
    BY DEF Base
  <2> QED BY <1>1, <2>1
<1>6. WordAt(hmac.phase, asked, Base + cnt) \in AllWords
  BY <1>1, <1>5 DEF AllWords
<1> QED BY <1>4, <1>6, Zenon DEF cnt
-----------------------------------------------------------------------------
(* What an edge does to the registers, state by state. *)
Quiet == [hmac EXCEPT !.sha_start = FALSE, !.sha_data_valid = FALSE,
                      !.sha_last_block = FALSE, !.hmac_valid = FALSE]
Lulled == [sha EXCEPT !.hash_valid = FALSE]

LEMMA LulledFields ==
  ASSUME HashTypes
  PROVE  /\ Lulled \in ShaRegs /\ Lulled.hash_valid = FALSE /\ Lulled.state = sha.state
         /\ Lulled.word_cnt = sha.word_cnt /\ Lulled.count = sha.count
         /\ Lulled.is_last = sha.is_last /\ Lulled.W = sha.W /\ Lulled.taken = sha.taken
         /\ Lulled.ready = sha.ready
PROOF BY DEF HashTypes, ShaRegs, Lulled

LEMMA QuietRegs ==
  ASSUME HashTypes
  PROVE  /\ Quiet \in HmacRegs /\ Quiet.state = hmac.state /\ Quiet.phase = hmac.phase
         /\ Quiet.feed_part = hmac.feed_part /\ Quiet.word_idx = hmac.word_idx
         /\ Quiet.block_word_cnt = hmac.block_word_cnt
         /\ Quiet.is_block2 = hmac.is_block2 /\ Quiet.msg_latched = hmac.msg_latched
         /\ Quiet.inner_hash = hmac.inner_hash /\ Quiet.busy = hmac.busy
         /\ Quiet.hmac_out = hmac.hmac_out
         /\ Quiet.sha_start = FALSE /\ Quiet.sha_data_valid = FALSE
         /\ Quiet.sha_last_block = FALSE /\ Quiet.hmac_valid = FALSE
PROOF BY DEF HashTypes, HmacRegs, Quiet

ShaNext(state, word_cnt, is_last, W, taken, ready, valid) ==
  /\ sha' \in ShaRegs /\ sha'.state = state /\ sha'.word_cnt = word_cnt
  /\ sha'.is_last = is_last /\ sha'.W = W /\ sha'.taken = taken
  /\ sha'.ready = ready /\ sha'.hash_valid = valid

LEMMA ShaSteps ==
  ASSUME HashTypes, Hash!Edge
  PROVE  /\ sha.state = "S_IDLE" => sha' = Hash!ShaIdle(Lulled)
         /\ sha.state = "S_LOAD_MSG" => sha' = Hash!ShaLoadMsg(Lulled)
         /\ sha.state = "S_EXPAND" => sha' = Hash!ShaExpand(Lulled)
         /\ sha.state = "S_COMPRESS" => sha' = Hash!ShaCompress(Lulled)
         /\ sha.state = "S_UPDATE" => sha' = Hash!ShaUpdate(Lulled)
         /\ sha.state = "S_DONE" => sha' = Hash!ShaDone(Lulled)
PROOF
<1>1. Lulled.state = sha.state
  BY LulledFields
<1>2. sha' = Hash!ShaStep
  BY Zenon DEF Hash!Edge
<1> QED BY <1>1, <1>2 DEF Hash!ShaStep, Lulled

\* The core at rest, without and with a start.
LEMMA ShaRests ==
  ASSUME HashTypes, Hash!Edge, sha.state = "S_IDLE", hmac.sha_start = FALSE
  PROVE  ShaNext("S_IDLE", sha.word_cnt, sha.is_last, sha.W, sha.taken, FALSE, FALSE)
PROOF
<1>1. sha' = [Lulled EXCEPT !.ready = FALSE]
  BY ShaSteps, Zenon DEF Hash!ShaIdle
<1> QED BY <1>1, LulledFields DEF ShaNext, ShaRegs

LEMMA ShaStarts ==
  ASSUME HashTypes, Hash!Edge, sha.state = "S_IDLE", hmac.sha_start = TRUE
  PROVE  ShaNext("S_LOAD_MSG", 0, FALSE, <<>>, <<>>, TRUE, FALSE)
PROOF
<1> USE HashSizes
<1>1. sha' = [Lulled EXCEPT !.ready = TRUE, !.word_cnt = 0, !.is_last = FALSE,
                            !.taken = <<>>, !.W = <<>>, !.state = "S_LOAD_MSG"]
  BY ShaSteps, Zenon DEF Hash!ShaIdle
<1>2. <<>> \in Seq(AllWords) /\ 0 \in 0 .. BlockWords - 1 /\ "S_LOAD_MSG" \in SStates
  BY DEF SStates
<1> QED BY <1>1, <1>2, LulledFields DEF ShaNext, ShaRegs

\* The core loading, without a word and with one, the last of its block or not.
LEMMA ShaWaits ==
  ASSUME HashTypes, Hash!Edge, sha.state = "S_LOAD_MSG", hmac.sha_data_valid = FALSE
  PROVE  ShaNext("S_LOAD_MSG", sha.word_cnt, sha.is_last, sha.W, sha.taken, TRUE, FALSE)
PROOF
<1>1. sha' = [Lulled EXCEPT !.ready = TRUE]
  BY ShaSteps, Zenon DEF Hash!ShaLoadMsg
<1> QED BY <1>1, LulledFields DEF ShaNext, ShaRegs

LEMMA ShaTakes ==
  ASSUME HashTypes, Hash!Edge, sha.state = "S_LOAD_MSG", hmac.sha_data_valid = TRUE,
         sha.is_last = FALSE, Hash!DataIn \in AllWords
  PROVE  IF sha.word_cnt = BlockWords - 1
         THEN /\ ShaNext("S_EXPAND", sha.word_cnt, hmac.sha_last_block,
                         Append(sha.W, Hash!DataIn), sha.taken, FALSE, FALSE)
              /\ sha'.count = BlockWords
         ELSE ShaNext("S_LOAD_MSG", sha.word_cnt + 1, hmac.sha_last_block,
                      Append(sha.W, Hash!DataIn), sha.taken, TRUE, FALSE)
PROOF
<1> USE HashSizes
<1> DEFINE W == Append(sha.W, Hash!DataIn)
           final == sha.is_last \/ hmac.sha_last_block
<1>1. W \in Seq(AllWords) /\ hmac.sha_last_block \in BOOLEAN
  BY DEF HashTypes, HmacRegs, ShaRegs
<1>2. final = hmac.sha_last_block
  <2>1. CASE hmac.sha_last_block = TRUE
    BY <2>1, Zenon
  <2>2. CASE hmac.sha_last_block = FALSE
    BY <2>2, Zenon
  <2> QED BY <1>1, <2>1, <2>2, Zenon
<1>3. /\ Lulled.W = sha.W /\ Lulled.is_last = sha.is_last /\ Lulled.word_cnt = sha.word_cnt
      /\ sha' = Hash!ShaLoadMsg(Lulled)
  BY ShaSteps, LulledFields
<1>4. CASE sha.word_cnt = BlockWords - 1
  <2>1. sha' = [Lulled EXCEPT !.W = W, !.is_last = final, !.ready = FALSE,
                              !.count = BlockWords, !.state = "S_EXPAND"]
    BY <1>3, <1>4 DEF Hash!ShaLoadMsg
  <2>2. sha' = [Lulled EXCEPT !.W = W, !.is_last = hmac.sha_last_block, !.ready = FALSE,
                              !.count = BlockWords, !.state = "S_EXPAND"]
    BY <1>2, <2>1, Zenon
  <2>3. "S_EXPAND" \in SStates /\ BlockWords \in 0 .. Rounds - 1
    BY DEF SStates
  <2> HIDE DEF W
  <2>4. ShaNext("S_EXPAND", sha.word_cnt, hmac.sha_last_block, W, sha.taken, FALSE, FALSE)
        /\ sha'.count = BlockWords
    BY <1>1, <2>2, <2>3, LulledFields DEF ShaNext, ShaRegs
  <2> QED BY <1>4, <2>4, Zenon DEF W
<1>5. CASE sha.word_cnt # BlockWords - 1
  <2> DEFINE n == sha.word_cnt + 1
  <2>1. sha' = [Lulled EXCEPT !.W = W, !.is_last = final, !.ready = TRUE, !.word_cnt = n]
    BY <1>3, <1>5 DEF Hash!ShaLoadMsg
  <2>2. sha' = [Lulled EXCEPT !.W = W, !.is_last = hmac.sha_last_block, !.ready = TRUE,
                              !.word_cnt = n]
    BY <1>2, <2>1, Zenon
  <2>3. n \in 0 .. BlockWords - 1
    BY <1>5 DEF HashTypes, ShaRegs
  <2> HIDE DEF W, n
  <2>4. ShaNext("S_LOAD_MSG", n, hmac.sha_last_block, W, sha.taken, TRUE, FALSE)
    BY <1>1, <2>2, <2>3, LulledFields DEF ShaNext, ShaRegs
  <2> QED BY <1>5, <2>4, Zenon DEF W, n
<1> QED BY <1>4, <1>5, Zenon

\* The core at work on a block, and when it is done with the last.
LEMMA ShaWorks ==
  ASSUME HashTypes, Hash!Edge, sha.state \in {"S_EXPAND", "S_COMPRESS"}
  PROVE  /\ ShaNext(sha'.state, sha.word_cnt, sha.is_last, sha.W, sha.taken, sha.ready, FALSE)
         /\ IF sha.count = Rounds - 1
            THEN \/ sha.state = "S_EXPAND" /\ sha'.state = "S_COMPRESS" /\ sha'.count = 0
                 \/ sha.state = "S_COMPRESS" /\ sha'.state = "S_UPDATE"
            ELSE sha'.state = sha.state /\ sha'.count = sha.count + 1
PROOF
<1> USE HashSizes
<1>0. sha.count \in 0 .. Rounds - 1 /\ 0 \in 0 .. Rounds - 1
      /\ "S_COMPRESS" \in SStates /\ "S_UPDATE" \in SStates
  BY DEF HashTypes, ShaRegs, SStates
<1>1. /\ Lulled.count = sha.count /\ sha.count \in 0 .. Rounds - 1 /\ Lulled \in ShaRegs
      /\ Lulled.state = sha.state
      /\ "S_COMPRESS" \in SStates /\ "S_UPDATE" \in SStates /\ 0 \in 0 .. Rounds - 1
  BY <1>0, LulledFields, Zenon
<1>2. CASE sha.count # Rounds - 1
  <2> DEFINE n == sha.count + 1
  <2>1. sha' = [Lulled EXCEPT !.count = n]
    BY <1>1, <1>2, ShaSteps DEF Hash!ShaExpand, Hash!ShaCompress
  <2>2. n \in 0 .. Rounds - 1
    BY <1>1, <1>2
  <2> HIDE DEF n
  <2>3. /\ ShaNext(sha'.state, sha.word_cnt, sha.is_last, sha.W, sha.taken, sha.ready, FALSE)
        /\ sha'.state = sha.state /\ sha'.count = n
    BY <2>1, <2>2, LulledFields DEF ShaNext, ShaRegs
  <2> QED BY <1>2, <2>3, Zenon DEF n
<1>3. CASE sha.count = Rounds - 1 /\ sha.state = "S_EXPAND"
  <2>1. sha' = [Lulled EXCEPT !.count = 0, !.state = "S_COMPRESS"]
    BY <1>1, <1>3, ShaSteps, Zenon DEF Hash!ShaExpand
  <2>2. /\ ShaNext(sha'.state, sha.word_cnt, sha.is_last, sha.W, sha.taken, sha.ready, FALSE)
        /\ sha'.state = "S_COMPRESS" /\ sha'.count = 0
    BY <1>1, <2>1, LulledFields DEF ShaNext, ShaRegs
  <2> QED BY <1>3, <2>2, Zenon
<1>4. CASE sha.count = Rounds - 1 /\ sha.state = "S_COMPRESS"
  <2>1. sha' = [Lulled EXCEPT !.state = "S_UPDATE"]
    BY <1>1, <1>4, ShaSteps, Zenon DEF Hash!ShaCompress
  <2>2. /\ ShaNext(sha'.state, sha.word_cnt, sha.is_last, sha.W, sha.taken, sha.ready, FALSE)
        /\ sha'.state = "S_UPDATE"
    BY <1>1, <2>1, LulledFields DEF ShaNext, ShaRegs
  <2> QED BY <1>4, <2>2, Zenon
<1> QED BY <1>2, <1>3, <1>4

LEMMA ShaUpdates ==
  ASSUME HashTypes, Hash!Edge, sha.state = "S_UPDATE"
  PROVE  IF sha.is_last
         THEN ShaNext("S_DONE", sha.word_cnt, sha.is_last, <<>>, sha.taken \o sha.W,
                      sha.ready, FALSE)
         ELSE ShaNext("S_LOAD_MSG", 0, sha.is_last, <<>>, sha.taken \o sha.W, TRUE, FALSE)
PROOF
<1> USE HashSizes
<1> DEFINE T == sha.taken \o sha.W
           u == [Lulled EXCEPT !.taken = T, !.W = <<>>]
<1>1. T \in Seq(AllWords) /\ <<>> \in Seq(AllWords) /\ 0 \in 0 .. BlockWords - 1
      /\ "S_DONE" \in SStates /\ "S_LOAD_MSG" \in SStates
  BY DEF HashTypes, ShaRegs, SStates
<1> HIDE DEF T
<1>2. /\ u \in ShaRegs /\ u.word_cnt = sha.word_cnt /\ u.is_last = sha.is_last
      /\ u.W = <<>> /\ u.taken = T /\ u.ready = sha.ready /\ u.hash_valid = FALSE
  BY <1>1, LulledFields DEF ShaRegs
<1>3. Lulled.is_last = sha.is_last /\ Lulled.taken = sha.taken /\ Lulled.W = sha.W
  BY LulledFields
<1>4. sha' = IF Lulled.is_last THEN [u EXCEPT !.state = "S_DONE"]
             ELSE [u EXCEPT !.word_cnt = 0, !.ready = TRUE, !.state = "S_LOAD_MSG"]
  BY <1>3, ShaSteps DEF Hash!ShaUpdate, T
<1> HIDE DEF u
<1>5. CASE sha.is_last
  <2>1. sha' = [u EXCEPT !.state = "S_DONE"]
    BY <1>3, <1>4, <1>5, Zenon
  <2>2. ShaNext("S_DONE", sha.word_cnt, sha.is_last, <<>>, T, sha.ready, FALSE)
    BY <1>1, <1>2, <2>1 DEF ShaNext, ShaRegs
  <2> QED BY <1>5, <2>2, Zenon DEF T
<1>6. CASE ~sha.is_last
  <2>1. sha' = [u EXCEPT !.word_cnt = 0, !.ready = TRUE, !.state = "S_LOAD_MSG"]
    BY <1>3, <1>4, <1>6, Zenon
  <2>2. ShaNext("S_LOAD_MSG", 0, sha.is_last, <<>>, T, TRUE, FALSE)
    BY <1>1, <1>2, <2>1 DEF ShaNext, ShaRegs
  <2> QED BY <1>6, <2>2, Zenon DEF T
<1> QED BY <1>5, <1>6, Zenon

LEMMA ShaEnds ==
  ASSUME HashTypes, Hash!Edge, sha.state = "S_DONE"
  PROVE  ShaNext("S_IDLE", sha.word_cnt, sha.is_last, sha.W, sha.taken, sha.ready, TRUE)
PROOF
<1>1. sha' = [Lulled EXCEPT !.hash_valid = TRUE, !.state = "S_IDLE"]
  BY ShaSteps, Zenon DEF Hash!ShaDone
<1>2. "S_IDLE" \in SStates
  BY DEF SStates
<1> QED BY <1>1, <1>2, LulledFields DEF ShaNext, ShaRegs

HmacNext(state, phase, part, idx, cnt, block2) ==
  /\ hmac' \in HmacRegs /\ hmac'.state = state /\ hmac'.phase = phase
  /\ hmac'.feed_part = part /\ hmac'.word_idx = idx /\ hmac'.block_word_cnt = cnt
  /\ hmac'.is_block2 = block2
SameJob ==
  /\ asked' = asked /\ since' = since + 1
  /\ hmac'.busy = hmac.busy /\ hmac'.msg_latched = hmac.msg_latched
  /\ hmac'.inner_hash = hmac.inner_hash
Silent == Strobes(FALSE, FALSE, FALSE, FALSE)

LEMMA HmacSteps ==
  ASSUME HashTypes, Hash!Edge
  PROVE  /\ hmac.state = "H_IDLE" =>
              \E start \in BOOLEAN, msg \in Messages :
                /\ hmac' = Hash!HIdle(Quiet, start, msg)
                /\ asked' = IF start THEN msg ELSE asked
                /\ since' = IF ~start THEN 0 ELSE since + 1
         /\ hmac.state = "H_PREP" => hmac' = Hash!HPrep(Quiet)
         /\ hmac.state = "H_WAIT_READY" => hmac' = Hash!HWaitReady(Quiet)
         /\ hmac.state = "H_FEED" => hmac' = Hash!HFeed(Quiet)
         /\ hmac.state = "H_FEED_NEXT" => hmac' = Hash!HFeedNext(Quiet)
         /\ hmac.state = "H_WAIT_HASH" => hmac' = Hash!HWaitHash(Quiet)
         /\ hmac.state = "H_DONE" => hmac' = Hash!HDone(Quiet)
         /\ hmac.state # "H_IDLE" => asked' = asked
         /\ hmac.state = "H_DONE" => since' = 0
         /\ hmac.state \notin {"H_IDLE", "H_DONE"} => since' = since + 1
PROOF
<1>1. PICK start \in BOOLEAN, msg \in Messages :
        /\ hmac' = Hash!HmacStep(start, msg)
        /\ asked' = IF start /\ hmac.state = "H_IDLE" THEN msg ELSE asked
        /\ since' = IF hmac.state = "H_DONE" \/ (hmac.state = "H_IDLE" /\ ~start) THEN 0
                    ELSE since + 1
  BY Zenon DEF Hash!Edge
<1>2. Quiet.state = hmac.state
  BY QuietRegs
<1>3. /\ hmac.state = "H_IDLE" => hmac' = Hash!HIdle(Quiet, start, msg)
      /\ hmac.state = "H_PREP" => hmac' = Hash!HPrep(Quiet)
      /\ hmac.state = "H_WAIT_READY" => hmac' = Hash!HWaitReady(Quiet)
      /\ hmac.state = "H_FEED" => hmac' = Hash!HFeed(Quiet)
      /\ hmac.state = "H_FEED_NEXT" => hmac' = Hash!HFeedNext(Quiet)
      /\ hmac.state = "H_WAIT_HASH" => hmac' = Hash!HWaitHash(Quiet)
      /\ hmac.state = "H_DONE" => hmac' = Hash!HDone(Quiet)
  BY <1>1, <1>2 DEF Hash!HmacStep, Quiet
<1>4. "H_IDLE" # "H_DONE"
  OBVIOUS
<1>5. /\ hmac.state # "H_IDLE" => asked' = asked
      /\ hmac.state = "H_DONE" => since' = 0
      /\ hmac.state \notin {"H_IDLE", "H_DONE"} => since' = since + 1
  BY <1>1, Zenon
<1>6. hmac.state = "H_IDLE" => /\ asked' = IF start THEN msg ELSE asked
                              /\ since' = IF ~start THEN 0 ELSE since + 1
  BY <1>1, <1>4, Zenon
<1> QED BY <1>3, <1>5, <1>6, Zenon

LEMMA HmacIdles ==
  ASSUME HashTypes, Hash!Edge, hmac.state = "H_IDLE"
  PROVE  /\ hmac' \in HmacRegs /\ Silent'
         /\ \/ hmac'.state = "H_IDLE" /\ hmac'.busy = FALSE /\ asked' = asked /\ since' = 0
            \/ /\ hmac'.state = "H_PREP" /\ hmac'.busy = TRUE /\ asked' \in Messages
               /\ hmac'.msg_latched = asked' /\ hmac'.phase = "INNER"
               /\ hmac'.feed_part = "PAD" /\ hmac'.is_block2 = FALSE
               /\ since' = since + 1
PROOF
<1> USE HashSizes
<1>1. PICK start \in BOOLEAN, msg \in Messages :
        /\ hmac' = Hash!HIdle(Quiet, start, msg)
        /\ asked' = IF start THEN msg ELSE asked
        /\ since' = IF ~start THEN 0 ELSE since + 1
  BY HmacSteps, Zenon
<1>2. CASE start = TRUE
  <2>1. /\ hmac' = [Quiet EXCEPT !.busy = TRUE, !.msg_latched = msg, !.phase = "INNER",
                                 !.feed_part = "PAD", !.is_block2 = FALSE,
                                 !.state = "H_PREP"]
        /\ asked' = msg /\ since' = since + 1
    BY <1>1, <1>2, Zenon DEF Hash!HIdle
  <2>2. msg \in Nat /\ "H_PREP" \in HStates /\ "INNER" \in HPhases
    BY DEF HStates, HPhases
  <2> QED BY <2>1, <2>2, QuietRegs DEF HmacRegs, Silent, Strobes
<1>3. CASE start = FALSE
  <2>1. hmac' = [Quiet EXCEPT !.busy = FALSE] /\ asked' = asked /\ since' = 0
    BY <1>1, <1>3, Zenon DEF Hash!HIdle
  <2> QED BY <2>1, QuietRegs DEF HmacRegs, Silent, Strobes
<1> QED BY <1>1, <1>2, <1>3, Zenon

LEMMA HmacPrepares ==
  ASSUME HashTypes, Hash!Edge, hmac.state = "H_PREP"
  PROVE  /\ HmacNext("H_WAIT_READY", hmac.phase, hmac.feed_part, 0, 0, hmac.is_block2)
         /\ SameJob /\ Strobes(TRUE, FALSE, FALSE, FALSE)'
PROOF
<1> USE HashSizes
<1>1. hmac' = [Quiet EXCEPT !.sha_start = TRUE, !.word_idx = 0, !.block_word_cnt = 0,
                            !.state = "H_WAIT_READY"]
  BY HmacSteps, Zenon DEF Hash!HPrep
<1>2. 0 \in 0 .. BlockWords - 1 /\ "H_WAIT_READY" \in HStates
  BY DEF HStates
<1>3. asked' = asked /\ since' = since + 1
  BY HmacSteps
<1> QED BY <1>1, <1>2, <1>3, QuietRegs DEF HmacNext, HmacRegs, SameJob, Strobes

LEMMA HmacWaits ==
  ASSUME HashTypes, Hash!Edge, hmac.state = "H_WAIT_READY"
  PROVE  /\ HmacNext(IF sha.ready THEN "H_FEED" ELSE "H_WAIT_READY", hmac.phase,
                     hmac.feed_part, hmac.word_idx, hmac.block_word_cnt, hmac.is_block2)
         /\ SameJob /\ Silent'
PROOF
<1>1. "H_FEED" \in HStates
  BY DEF HStates
<1>2. asked' = asked /\ since' = since + 1
  BY HmacSteps
<1>3. CASE sha.ready
  <2>1. hmac' = [Quiet EXCEPT !.state = "H_FEED"]
    BY <1>3, HmacSteps, Zenon DEF Hash!HWaitReady
  <2>2. HmacNext("H_FEED", hmac.phase, hmac.feed_part, hmac.word_idx, hmac.block_word_cnt,
                 hmac.is_block2) /\ SameJob /\ Silent'
    BY <1>1, <1>2, <2>1, QuietRegs DEF HmacNext, HmacRegs, SameJob, Silent, Strobes
  <2> QED BY <1>3, <2>2, Zenon
<1>4. CASE ~sha.ready
  <2>1. hmac' = Quiet
    BY <1>4, HmacSteps, Zenon DEF Hash!HWaitReady
  <2>2. HmacNext("H_WAIT_READY", hmac.phase, hmac.feed_part, hmac.word_idx,
                 hmac.block_word_cnt, hmac.is_block2) /\ SameJob /\ Silent'
    BY <1>2, <2>1, QuietRegs DEF HmacNext, HmacRegs, SameJob, Silent, Strobes
  <2> QED BY <1>4, <2>2, Zenon
<1> QED BY <1>3, <1>4

LEMMA HmacFeeds ==
  ASSUME HashTypes, Hash!Edge, hmac.state = "H_FEED"
  PROVE  /\ HmacNext("H_FEED_NEXT", hmac.phase, hmac.feed_part, hmac.word_idx,
                     hmac.block_word_cnt, hmac.is_block2)
         /\ SameJob
         /\ \E final \in BOOLEAN :
              /\ Strobes(FALSE, TRUE, final, FALSE)'
              /\ final <=> hmac.block_word_cnt = BlockWords - 1 /\ hmac.is_block2
PROOF
<1> DEFINE ends == hmac.block_word_cnt = BlockWords - 1 /\ hmac.is_block2
<1>1. "H_FEED_NEXT" \in HStates
  BY DEF HStates
<1>2. asked' = asked /\ since' = since + 1
  BY HmacSteps
<1>3. Quiet.block_word_cnt = hmac.block_word_cnt /\ Quiet.is_block2 = hmac.is_block2
  BY QuietRegs
<1>4. hmac' = [Quiet EXCEPT !.sha_data_valid = TRUE, !.sha_last_block = ends,
                            !.state = "H_FEED_NEXT"]
  BY <1>3, HmacSteps DEF Hash!HFeed
<1>5. CASE ends = TRUE
  <2>1. hmac' = [Quiet EXCEPT !.sha_data_valid = TRUE, !.sha_last_block = TRUE,
                              !.state = "H_FEED_NEXT"]
    BY <1>4, <1>5, Zenon
  <2>2. /\ HmacNext("H_FEED_NEXT", hmac.phase, hmac.feed_part, hmac.word_idx,
                    hmac.block_word_cnt, hmac.is_block2)
        /\ SameJob /\ Strobes(FALSE, TRUE, TRUE, FALSE)'
    BY <1>1, <1>2, <2>1, QuietRegs DEF HmacNext, HmacRegs, SameJob, Strobes
  <2> QED BY <1>5, <2>2, Zenon
<1>6. CASE ends = FALSE
  <2>1. hmac' = [Quiet EXCEPT !.sha_data_valid = TRUE, !.sha_last_block = FALSE,
                              !.state = "H_FEED_NEXT"]
    BY <1>4, <1>6, Zenon
  <2>2. /\ HmacNext("H_FEED_NEXT", hmac.phase, hmac.feed_part, hmac.word_idx,
                    hmac.block_word_cnt, hmac.is_block2)
        /\ SameJob /\ Strobes(FALSE, TRUE, FALSE, FALSE)'
    BY <1>1, <1>2, <2>1, QuietRegs DEF HmacNext, HmacRegs, SameJob, Strobes
  <2> QED BY <1>6, <2>2, Zenon
<1>7. ends \in BOOLEAN
  BY Zenon
<1> QED BY <1>5, <1>6, <1>7, Zenon

\* After a word: the end of a block, the end of the message, or the next word.
LEMMA HmacGoesOn ==
  ASSUME HashTypes, Hash!Edge, hmac.state = "H_FEED_NEXT", Feeder
  PROVE  /\ SameJob /\ Silent'
         /\ IF hmac.block_word_cnt = BlockWords - 1
            THEN IF hmac.is_block2
                 THEN HmacNext("H_WAIT_HASH", hmac.phase, hmac.feed_part, hmac.word_idx, 0, TRUE)
                 ELSE HmacNext("H_WAIT_READY", hmac.phase, "MSG", 0, 0, TRUE)
            ELSE /\ HmacNext("H_WAIT_READY", hmac.phase, hmac'.feed_part, hmac'.word_idx,
                             hmac.block_word_cnt + 1, hmac.is_block2)
                 /\ Feeder'
PROOF
<1> USE HashSizes
<1> DEFINE words == IF hmac.phase = "INNER" THEN MsgWords ELSE HashWords
           cnt == hmac.block_word_cnt
           idx == hmac.word_idx
           ends == hmac.is_block2 /\ hmac.feed_part = "MSG" /\ idx = words - 1
<1>0. cnt \in 0 .. BlockWords - 1 /\ idx \in 0 .. BlockWords - 1 /\ hmac.phase \in HPhases
      /\ hmac.feed_part \in {"PAD", "MSG", "PADDING"} /\ hmac.is_block2 \in BOOLEAN
  BY DEF HashTypes, HmacRegs
<1>1. asked' = asked /\ since' = since + 1
  BY HmacSteps
<1>2. /\ Quiet.block_word_cnt = cnt /\ Quiet.is_block2 = hmac.is_block2
      /\ Quiet.word_idx = idx /\ Quiet.feed_part = hmac.feed_part
      /\ Quiet.phase = hmac.phase
  BY QuietRegs
<1>3. Hash!EndOfMsg(Quiet) <=> ends
  BY <1>2, Zenon DEF Hash!EndOfMsg
<1>4. words = BodyWords(hmac.phase) /\ words \in 1 .. BlockWords - 3
  BY <1>0, BodySizes, Zenon DEF BodyWords
<1>5. "H_WAIT_READY" \in HStates /\ "H_WAIT_HASH" \in HStates /\ 0 \in 0 .. BlockWords - 1
      /\ "MSG" \in {"PAD", "MSG", "PADDING"} /\ "PADDING" \in {"PAD", "MSG", "PADDING"}
  BY DEF HStates
<1> HIDE DEF words
<1>6. CASE cnt = BlockWords - 1 /\ hmac.is_block2
  <2>1. hmac' = [Quiet EXCEPT !.block_word_cnt = 0, !.state = "H_WAIT_HASH"]
    BY <1>2, <1>6, HmacSteps, Zenon DEF Hash!HFeedNext
  <2>2. /\ HmacNext("H_WAIT_HASH", hmac.phase, hmac.feed_part, hmac.word_idx, 0, hmac.is_block2)
        /\ SameJob /\ Silent'
    BY <1>1, <1>5, <2>1, QuietRegs DEF HmacNext, HmacRegs, SameJob, Silent, Strobes
  <2>3. hmac.is_block2 = TRUE
    BY <1>0, <1>6, Zenon
  <2> QED BY <1>6, <2>2, <2>3, Zenon
<1>7. CASE cnt = BlockWords - 1 /\ ~hmac.is_block2
  <2>1. hmac' = [Quiet EXCEPT !.block_word_cnt = 0, !.is_block2 = TRUE, !.word_idx = 0,
                              !.feed_part = "MSG", !.state = "H_WAIT_READY"]
    BY <1>2, <1>7, HmacSteps, Zenon DEF Hash!HFeedNext
  <2>2. HmacNext("H_WAIT_READY", hmac.phase, "MSG", 0, 0, TRUE) /\ SameJob /\ Silent'
    BY <1>1, <1>5, <2>1, QuietRegs DEF HmacNext, HmacRegs, SameJob, Silent, Strobes
  <2> QED BY <1>7, <2>2, Zenon
<1>8. CASE cnt # BlockWords - 1
  <2> DEFINE n == cnt + 1
             i == IF ends THEN 0 ELSE idx + 1
             part == IF ends THEN "PADDING" ELSE hmac.feed_part
  <2>1. hmac' = [Quiet EXCEPT !.block_word_cnt = n, !.state = "H_WAIT_READY",
                              !.word_idx = i, !.feed_part = part]
    <3>1. hmac' = Hash!HFeedNext(Quiet)
      BY HmacSteps
    <3>2. Hash!HFeedNext(Quiet)
          = [Quiet EXCEPT !.block_word_cnt = @ + 1, !.state = "H_WAIT_READY",
                 !.word_idx = IF Hash!EndOfMsg(Quiet) THEN 0 ELSE @ + 1,
                 !.feed_part = IF Hash!EndOfMsg(Quiet) THEN "PADDING" ELSE @]
      BY <1>2, <1>8, Zenon DEF Hash!HFeedNext
    <3>3. CASE ends
      <4>1. Hash!HFeedNext(Quiet)
            = [Quiet EXCEPT !.block_word_cnt = @ + 1, !.state = "H_WAIT_READY",
                            !.word_idx = 0, !.feed_part = "PADDING"]
        BY <1>3, <3>2, <3>3, Zenon
      <4> QED BY <1>2, <3>1, <3>3, <4>1
    <3>4. CASE ~ends
      <4>1. Hash!HFeedNext(Quiet)
            = [Quiet EXCEPT !.block_word_cnt = @ + 1, !.state = "H_WAIT_READY",
                            !.word_idx = @ + 1, !.feed_part = @]
        BY <1>3, <3>2, <3>4, Zenon
      <4> QED BY <1>2, <3>1, <3>4, <4>1
    <3> QED BY <3>3, <3>4
  <2>2. /\ n \in 0 .. BlockWords - 1
        /\ IF hmac.is_block2
           THEN IF n < words THEN part = "MSG" /\ i = n
                ELSE part = "PADDING" /\ i = n - words
           ELSE part = "PAD" /\ i = n
    <3>1. CASE ~hmac.is_block2
      <4>1. hmac.feed_part = "PAD" /\ idx = cnt /\ ~ends
        BY <3>1, Zenon DEF Feeder
      <4> QED BY <1>0, <1>8, <3>1, <4>1
    <3>2. CASE hmac.is_block2 /\ cnt < words
      <4>1. hmac.feed_part = "MSG" /\ idx = cnt
        BY <1>4, <3>2, Zenon DEF Feeder
      <4> QED BY <1>0, <1>4, <1>8, <3>2, <4>1
    <3>3. CASE hmac.is_block2 /\ ~(cnt < words)
      <4>1. hmac.feed_part = "PADDING" /\ idx = cnt - words
        BY <1>4, <3>3, Zenon DEF Feeder
      <4> QED BY <1>0, <1>4, <1>8, <3>3, <4>1
    <3> QED BY <3>1, <3>2, <3>3
  <2>3. i \in 0 .. BlockWords - 1 /\ part \in {"PAD", "MSG", "PADDING"}
    BY <1>0, <1>4, <2>2
  <2> HIDE DEF n, i, part
  <2>4. HmacNext("H_WAIT_READY", hmac.phase, part, i, n, hmac.is_block2) /\ SameJob /\ Silent'
    BY <1>1, <1>5, <2>1, <2>2, <2>3, QuietRegs DEF HmacNext, HmacRegs, SameJob, Silent, Strobes
  <2>5. Feeder'
    BY <1>4, <2>2, <2>4, Zenon DEF Feeder, HmacNext
  <2>6. HmacNext("H_WAIT_READY", hmac.phase, hmac'.feed_part, hmac'.word_idx, n, hmac.is_block2)
    BY <2>4, Zenon DEF HmacNext
  <2> QED BY <1>8, <2>4, <2>5, <2>6, Zenon DEF n
<1> QED BY <1>6, <1>7, <1>8

LEMMA HmacAwaits ==
  ASSUME HashTypes, Hash!Edge, hmac.state = "H_WAIT_HASH", sha.hash_valid = FALSE
  PROVE  /\ HmacNext("H_WAIT_HASH", hmac.phase, hmac.feed_part, hmac.word_idx,
                     hmac.block_word_cnt, hmac.is_block2)
         /\ SameJob /\ Silent'
PROOF
<1>1. hmac' = Quiet
  BY HmacSteps, Zenon DEF Hash!HWaitHash
<1>2. asked' = asked /\ since' = since + 1
  BY HmacSteps
<1> QED BY <1>1, <1>2, QuietRegs DEF HmacNext, HmacRegs, SameJob, Silent, Strobes

LEMMA HmacCollects ==
  ASSUME HashTypes, Hash!Edge, hmac.state = "H_WAIT_HASH", sha.hash_valid = TRUE,
         asked \in Messages, Took(2 * BlockWords)
  PROVE  /\ hmac' \in HmacRegs /\ hmac'.busy = hmac.busy
         /\ hmac'.msg_latched = hmac.msg_latched /\ asked' = asked /\ since' = since + 1
         /\ IF hmac.phase = "INNER"
            THEN /\ hmac'.state = "H_PREP" /\ hmac'.phase = "OUTER" /\ Silent'
                 /\ hmac'.inner_hash = <<"inner", asked>>
                 /\ hmac'.feed_part = "PAD" /\ hmac'.is_block2 = FALSE
            ELSE /\ hmac'.state = "H_DONE" /\ Strobes(FALSE, FALSE, FALSE, TRUE)'
                 /\ hmac'.hmac_out = <<"hmac", asked>>
PROOF
<1> USE HashSizes
<1> DEFINE hash == <<IF hmac.phase = "INNER" THEN "inner" ELSE "hmac", asked>>
<1>1. asked' = asked /\ since' = since + 1
  BY HmacSteps
<1>2. Hash!HashOf(sha.taken) = hash /\ Quiet.phase = hmac.phase
  BY FullHash, QuietRegs
<1>3. hash \in Hashes /\ "OUTER" \in HPhases /\ "H_PREP" \in HStates /\ "H_DONE" \in HStates
      /\ 0 \in 0 .. BlockWords - 1 /\ "PAD" \in {"PAD", "MSG", "PADDING"}
  BY DEF Hashes, HPhases, HStates, HashTypes
<1>4. CASE hmac.phase = "INNER"
  <2>1. hmac' = [Quiet EXCEPT !.inner_hash = hash, !.phase = "OUTER", !.feed_part = "PAD",
                              !.is_block2 = FALSE, !.word_idx = 0, !.state = "H_PREP"]
    BY <1>2, <1>4, HmacSteps, Zenon DEF Hash!HWaitHash
  <2>2. hash = <<"inner", asked>>
    BY <1>4, Zenon
  <2> HIDE DEF hash
  <2>3. /\ hmac' \in HmacRegs /\ hmac'.busy = hmac.busy /\ hmac'.msg_latched = hmac.msg_latched
        /\ hmac'.state = "H_PREP" /\ hmac'.phase = "OUTER" /\ Silent'
        /\ hmac'.inner_hash = hash /\ hmac'.feed_part = "PAD" /\ hmac'.is_block2 = FALSE
    BY <1>3, <2>1, QuietRegs DEF HmacRegs, Silent, Strobes
  <2> QED BY <1>1, <1>4, <2>2, <2>3, Zenon
<1>5. CASE hmac.phase # "INNER"
  <2>1. hmac' = [Quiet EXCEPT !.hmac_out = hash, !.hmac_valid = TRUE, !.state = "H_DONE"]
    BY <1>2, <1>5, HmacSteps, Zenon DEF Hash!HWaitHash
  <2>2. hash = <<"hmac", asked>>
    BY <1>5, Zenon
  <2> HIDE DEF hash
  <2>3. /\ hmac' \in HmacRegs /\ hmac'.busy = hmac.busy /\ hmac'.msg_latched = hmac.msg_latched
        /\ hmac'.state = "H_DONE" /\ hmac'.hmac_out = hash
        /\ Strobes(FALSE, FALSE, FALSE, TRUE)'
    BY <1>3, <2>1, QuietRegs DEF HmacRegs, Strobes
  <2> QED BY <1>1, <1>5, <2>2, <2>3, Zenon
<1> QED BY <1>4, <1>5

LEMMA HmacEnds ==
  ASSUME HashTypes, Hash!Edge, hmac.state = "H_DONE"
  PROVE  /\ hmac' \in HmacRegs /\ hmac'.state = "H_IDLE" /\ hmac'.busy = FALSE /\ Silent'
         /\ asked' = asked /\ since' = 0
PROOF
<1>1. hmac' = [Quiet EXCEPT !.busy = FALSE, !.state = "H_IDLE"]
  BY HmacSteps, Zenon DEF Hash!HDone
<1>2. asked' = asked /\ since' = 0 /\ "H_IDLE" \in HStates
  BY HmacSteps DEF HStates
<1> QED BY <1>1, <1>2, QuietRegs DEF HmacRegs, Silent, Strobes
-----------------------------------------------------------------------------
(* One lemma for every configuration: what the two machines do together. *)
HoldsNext(n, base) ==
  /\ Len(sha'.W) = n
  /\ \A i \in 1 .. n : sha'.W[i] = WordAt(hmac'.phase, asked', base + i - 1)
TookNext(n) ==
  /\ Len(sha'.taken) = n
  /\ \A i \in 1 .. n : sha'.taken[i] = WordAt(hmac'.phase, asked', i - 1)

LEMMA TypesNext ==
  ASSUME HashTypes, hmac' \in HmacRegs, sha' \in ShaRegs, asked' \in Nat, since' \in Nat,
         Len(sha'.W) <= BlockWords, Len(sha'.taken) <= 2 * BlockWords
  PROVE  HashTypes'
PROOF BY Zenon DEF HashTypes

LEMMA Times ==
  /\ BlockTime \in Nat /\ HashTime \in Nat /\ PhaseTime \in Nat
  /\ (hmac'.phase = hmac.phase => PhaseTime' = PhaseTime)
  /\ (hmac.phase = "INNER" => PhaseTime = 0)
  /\ (hmac.phase = "OUTER" => PhaseTime = HashTime)
PROOF BY HashSizes DEF BlockTime, HashTime, PhaseTime

LEMMA JobGoesOn ==
  ASSUME SameJob, hmac'.phase = hmac.phase, Working
  PROVE  Working'
PROOF BY Zenon DEF SameJob, Working

LEMMA WordsKept ==
  ASSUME hmac'.phase = hmac.phase, asked' = asked, NEW n, NEW base
  PROVE  /\ Holds(n, base) /\ sha'.W = sha.W => HoldsNext(n, base)
         /\ Took(n) /\ sha'.taken = sha.taken => TookNext(n)
PROOF BY Zenon DEF Holds, HoldsNext, Took, TookNext

LEMMA FromRest ==
  ASSUME HashTypes, AtRest, Hash!Edge
  PROVE  HashTypes' /\ (AtRest' \/ Preparing')
PROOF
<1> USE HashSizes
<1>1. ShaNext("S_IDLE", sha.word_cnt, sha.is_last, sha.W, sha.taken, FALSE, FALSE)
  BY ShaRests, Zenon DEF AtRest, Resting, Strobes
<1>2. sha' \in ShaRegs /\ Resting' /\ sha'.W = sha.W /\ sha'.taken = sha.taken
  BY <1>1, Zenon DEF ShaNext, Resting
<1>3. /\ hmac' \in HmacRegs /\ Silent'
      /\ \/ hmac'.state = "H_IDLE" /\ hmac'.busy = FALSE /\ asked' = asked /\ since' = 0
         \/ /\ hmac'.state = "H_PREP" /\ hmac'.busy = TRUE /\ asked' \in Messages
            /\ hmac'.msg_latched = asked' /\ hmac'.phase = "INNER"
            /\ hmac'.feed_part = "PAD" /\ hmac'.is_block2 = FALSE
            /\ since' = since + 1
  BY HmacIdles, Zenon DEF AtRest
<1>4. since = 0 /\ asked \in Nat /\ Len(sha.W) <= BlockWords /\ Len(sha.taken) <= 2 * BlockWords
  BY Zenon DEF AtRest, HashTypes
<1>5. asked' \in Nat /\ since' \in Nat
  <2>1. asked' = asked \/ asked' \in Messages
    BY <1>3, Zenon
  <2>2. since' = 0 \/ since' = since + 1
    BY <1>3, Zenon
  <2>3. asked' \in Nat
    BY <1>4, <2>1
  <2>4. since' \in Nat
    BY <1>4, <2>2
  <2> QED BY <2>3, <2>4
<1>6. HashTypes'
  BY <1>2, <1>3, <1>4, <1>5, TypesNext, Zenon
<1>7. CASE hmac'.state = "H_IDLE"
  <2>1. hmac'.busy = FALSE /\ since' = 0
    BY <1>3, <1>7
  <2>2. AtRest'
    BY <1>2, <1>3, <1>7, <2>1, Zenon DEF AtRest, Silent
  <2> QED BY <1>6, <2>2
<1>8. CASE hmac'.state = "H_PREP"
  <2>1. /\ hmac'.busy = TRUE /\ asked' \in Messages
        /\ hmac'.msg_latched = asked' /\ hmac'.phase = "INNER" /\ hmac'.phase # "OUTER"
        /\ hmac'.feed_part = "PAD" /\ hmac'.is_block2 = FALSE /\ since' = 0 + 1
    BY <1>3, <1>4, <1>8
  <2>2. Working'
    BY <2>1, Zenon DEF Working
  <2>3. PhaseTime' = 0
    BY <2>1, Zenon DEF PhaseTime
  <2>4. since' = (PhaseTime + 1)'
    BY <2>1, <2>3
  <2>5. Preparing'
    BY <1>2, <1>3, <1>8, <2>1, <2>2, <2>4, Zenon DEF Preparing, Silent
  <2> QED BY <1>6, <2>5
<1> QED BY <1>3, <1>7, <1>8, Zenon

LEMMA FromPreparing ==
  ASSUME HashTypes, Preparing, Hash!Edge
  PROVE  HashTypes' /\ Starting'
PROOF
<1> USE HashSizes
<1>1. ShaNext("S_IDLE", sha.word_cnt, sha.is_last, sha.W, sha.taken, FALSE, FALSE)
  BY ShaRests, Zenon DEF Preparing, Resting, Strobes
<1>2. sha' \in ShaRegs /\ Resting' /\ sha'.W = sha.W /\ sha'.taken = sha.taken
  BY <1>1, Zenon DEF ShaNext, Resting
<1>3. /\ HmacNext("H_WAIT_READY", hmac.phase, hmac.feed_part, 0, 0, hmac.is_block2)
      /\ SameJob /\ Strobes(TRUE, FALSE, FALSE, FALSE)'
  BY HmacPrepares, Zenon DEF Preparing
<1>4. since = PhaseTime + 1 /\ asked \in Nat /\ since \in Nat
      /\ Len(sha.W) <= BlockWords /\ Len(sha.taken) <= 2 * BlockWords
  BY Zenon DEF Preparing, HashTypes
<1>5. asked' \in Nat /\ since' \in Nat /\ since' = (PhaseTime + 2)'
  BY <1>3, <1>4, Times DEF SameJob, HmacNext
<1>6. HashTypes'
  BY <1>2, <1>3, <1>4, <1>5, TypesNext, Zenon DEF HmacNext
<1>7. Working'
  BY <1>3, JobGoesOn, Zenon DEF HmacNext, Preparing
<1>8. Starting'
  BY <1>2, <1>3, <1>5, <1>7, Zenon DEF Starting, Preparing, HmacNext
<1> QED BY <1>6, <1>8

LEMMA FromStarting ==
  ASSUME HashTypes, Starting, Hash!Edge
  PROVE  HashTypes' /\ Waiting'
PROOF
<1> USE HashSizes
<1>1. ShaNext("S_LOAD_MSG", 0, FALSE, <<>>, <<>>, TRUE, FALSE)
  BY ShaStarts, Zenon DEF Starting, Resting, Strobes
<1>2. HmacNext(IF sha.ready THEN "H_FEED" ELSE "H_WAIT_READY", hmac.phase,
               hmac.feed_part, hmac.word_idx, hmac.block_word_cnt, hmac.is_block2)
      /\ SameJob /\ Silent'
  BY HmacWaits, Zenon DEF Starting
<1>3. HmacNext("H_WAIT_READY", hmac.phase, "PAD", 0, 0, FALSE)
  <2>1. sha.ready = FALSE
    BY Zenon DEF Starting, Resting
  <2>2. (IF sha.ready THEN "H_FEED" ELSE "H_WAIT_READY") = "H_WAIT_READY"
    BY <2>1, Zenon
  <2> QED BY <1>2, <2>2, Zenon DEF Starting
<1>4. since = PhaseTime + 2 /\ asked \in Nat /\ since \in Nat
  BY Zenon DEF Starting, HashTypes
<1>5. Len(<<>>) = 0 /\ 0 <= BlockWords /\ 0 <= 2 * BlockWords /\ \A i \in 1 .. 0 : FALSE
  OBVIOUS
<1>6. asked' \in Nat /\ since' \in Nat
  BY <1>2, <1>4 DEF SameJob
<1>7. HashTypes'
  BY <1>1, <1>3, <1>5, <1>6, TypesNext, Zenon DEF ShaNext, HmacNext
<1>8. Working' /\ Base' = 0 /\ hmac'.block_word_cnt = 0
  BY <1>2, <1>3, JobGoesOn, Zenon DEF HmacNext, Starting, Base
<1>9. HoldsNext(0, 0) /\ TookNext(0)
  BY <1>1, <1>5, Zenon DEF HoldsNext, TookNext, ShaNext
<1>10. Feeder'
  BY <1>3, Zenon DEF Feeder, HmacNext
<1>11. Holds(hmac.block_word_cnt, Base)' /\ Took(Base)'
  BY <1>8, <1>9, Zenon DEF Holds, Took, HoldsNext, TookNext
<1>12. Loading'
  BY <1>1, <1>3, <1>8, <1>10, <1>11, Zenon DEF Loading, ShaNext, HmacNext
<1>13. LoadTime' = PhaseTime + 3
  <2>1. hmac'.is_block2 = FALSE /\ PhaseTime' = PhaseTime
    BY <1>3, Times, Zenon DEF HmacNext
  <2>2. LoadTime' = PhaseTime + 0 + 3 + 3 * 0
    BY <1>8, <2>1, Zenon DEF LoadTime
  <2> QED BY <2>2, Times
<1>14. since' = LoadTime'
  BY <1>2, <1>4, <1>13, Times DEF SameJob
<1>15. Waiting'
  BY <1>2, <1>3, <1>12, <1>14, Zenon DEF Waiting, HmacNext, Silent
<1> QED BY <1>7, <1>15, Zenon

LEMMA JobTypes ==
  ASSUME HashTypes, SameJob
  PROVE  asked' \in Nat /\ since' \in Nat
PROOF
<1>1. asked \in Nat /\ since \in Nat
  BY Zenon DEF HashTypes
<1>2. asked' = asked /\ since' = since + 1
  BY Zenon DEF SameJob
<1>3. since' \in Nat
  BY <1>1, <1>2
<1> QED BY <1>1, <1>2, <1>3, Zenon

LEMMA LoadingKept ==
  ASSUME HashTypes, Loading, SameJob, NEW state,
         HmacNext(state, hmac.phase, hmac.feed_part, hmac.word_idx, hmac.block_word_cnt,
                  hmac.is_block2),
         ShaNext("S_LOAD_MSG", sha.word_cnt, sha.is_last, sha.W, sha.taken, TRUE, FALSE)
  PROVE  HashTypes' /\ Loading' /\ LoadTime' = LoadTime /\ LoadTime \in Nat
PROOF
<1> USE HashSizes
<1>1. Len(sha.W) <= BlockWords /\ Len(sha.taken) <= 2 * BlockWords
  BY Zenon DEF HashTypes
<1>2. HashTypes'
  BY <1>1, JobTypes, TypesNext, Zenon DEF HmacNext, ShaNext
<1>3. Working' /\ Base' = Base
  BY JobGoesOn, Zenon DEF HmacNext, Loading, Base
<1>4. Feeder'
  BY Zenon DEF HmacNext, Loading, Feeder
<1>5. Holds(hmac.block_word_cnt, Base)' /\ Took(Base)'
  <2>1. HoldsNext(hmac.block_word_cnt, Base) /\ TookNext(Base)
    BY WordsKept, Zenon DEF Loading, HmacNext, ShaNext, SameJob
  <2>2. hmac'.block_word_cnt = hmac.block_word_cnt
    BY Zenon DEF HmacNext
  <2> QED BY <1>3, <2>1, <2>2, Zenon DEF Holds, HoldsNext, Took, TookNext
<1>6. Loading'
  BY <1>3, <1>4, <1>5, Zenon DEF Loading, ShaNext, HmacNext
<1>7. LoadTime' = LoadTime
  <2>1. PhaseTime' = PhaseTime
    BY Times, Zenon DEF HmacNext
  <2> QED BY <2>1, Zenon DEF LoadTime, HmacNext, BlockTime
<1>8. LoadTime \in Nat
  BY Times DEF LoadTime, HashTypes, HmacRegs
<1> QED BY <1>2, <1>6, <1>7, <1>8, Zenon

LEMMA FromWaiting ==
  ASSUME HashTypes, Waiting, Hash!Edge
  PROVE  HashTypes' /\ Feeding'
PROOF
<1>1. ShaNext("S_LOAD_MSG", sha.word_cnt, sha.is_last, sha.W, sha.taken, TRUE, FALSE)
  BY ShaWaits, Zenon DEF Waiting, Loading, Strobes
<1>2. HmacNext("H_FEED", hmac.phase, hmac.feed_part, hmac.word_idx, hmac.block_word_cnt,
               hmac.is_block2) /\ SameJob /\ Silent'
  <2>1. (IF sha.ready THEN "H_FEED" ELSE "H_WAIT_READY") = "H_FEED"
    BY Zenon DEF Waiting, Loading
  <2> QED BY <2>1, HmacWaits, Zenon DEF Waiting
<1>3. HashTypes' /\ Loading' /\ LoadTime' = LoadTime /\ LoadTime \in Nat
  BY <1>1, <1>2, LoadingKept, Zenon DEF Waiting
<1>4. since' = LoadTime + 1
  BY <1>2, Zenon DEF SameJob, Waiting
<1>5. Feeding'
  BY <1>2, <1>3, <1>4, Zenon DEF Feeding, HmacNext, Silent
<1> QED BY <1>3, <1>5, Zenon

LEMMA FromFeeding ==
  ASSUME HashTypes, Feeding, Hash!Edge
  PROVE  HashTypes' /\ Fed'
PROOF
<1>1. ShaNext("S_LOAD_MSG", sha.word_cnt, sha.is_last, sha.W, sha.taken, TRUE, FALSE)
  BY ShaWaits, Zenon DEF Feeding, Loading, Strobes
<1>2. /\ HmacNext("H_FEED_NEXT", hmac.phase, hmac.feed_part, hmac.word_idx,
                  hmac.block_word_cnt, hmac.is_block2)
      /\ SameJob
      /\ \E final \in BOOLEAN :
           /\ Strobes(FALSE, TRUE, final, FALSE)'
           /\ final <=> hmac.block_word_cnt = BlockWords - 1 /\ hmac.is_block2
  BY HmacFeeds, Zenon DEF Feeding
<1>3. HashTypes' /\ Loading' /\ LoadTime' = LoadTime /\ LoadTime \in Nat
  BY <1>1, <1>2, LoadingKept, Zenon DEF Feeding
<1>4. since' = LoadTime' + 2
  <2>1. since' = LoadTime + 1 + 1
    BY <1>2, Zenon DEF SameJob, Feeding
  <2> QED BY <1>3, <2>1
<1>5. /\ hmac'.state = "H_FEED_NEXT" /\ hmac'.block_word_cnt = hmac.block_word_cnt
      /\ hmac'.is_block2 = hmac.is_block2
  BY <1>2, Zenon DEF HmacNext
<1>6. \E final \in BOOLEAN :
        /\ hmac'.sha_start = FALSE /\ hmac'.sha_data_valid = TRUE
        /\ hmac'.sha_last_block = final /\ hmac'.hmac_valid = FALSE
        /\ final <=> hmac'.block_word_cnt = BlockWords - 1 /\ hmac'.is_block2
  BY <1>2, <1>5, Zenon DEF Strobes
<1>7. Fed'
  BY <1>3, <1>4, <1>5, <1>6, Zenon DEF Fed, Strobes
<1> QED BY <1>3, <1>7, Zenon

\* A word taken: the next position of the block, the block at its end.
LEMMA HoldsOneMore ==
  ASSUME HashTypes, NEW base, NEW n \in Nat, Holds(n, base), SameJob,
         hmac'.phase = hmac.phase, Hash!DataIn = WordAt(hmac.phase, asked, base + n),
         base \in Nat, sha'.W = Append(sha.W, Hash!DataIn)
  PROVE  HoldsNext(n + 1, base)
PROOF
<1> DEFINE word == Hash!DataIn
           W == sha'.W
<1>1. sha.W \in Seq(AllWords) /\ Len(sha.W) = n
  BY DEF HashTypes, ShaRegs, Holds
<1>2. \A i \in 1 .. n : sha.W[i] = WordAt(hmac.phase, asked, base + i - 1)
  BY Zenon DEF Holds
<1>3. W = Append(sha.W, word) /\ word = WordAt(hmac.phase, asked, base + n)
      /\ asked' = asked
  BY Zenon DEF SameJob
<1> HIDE DEF word, W
<1>4. sha.W \in Seq(AllWords \cup {word})
  BY <1>1
<1>5. /\ Len(W) = n + 1
      /\ \A i \in 1 .. n : W[i] = sha.W[i]
      /\ W[n + 1] = word
  <2>1. /\ Len(Append(sha.W, word)) = Len(sha.W) + 1
        /\ \A i \in 1 .. Len(sha.W) : Append(sha.W, word)[i] = sha.W[i]
        /\ Append(sha.W, word)[Len(sha.W) + 1] = word
    BY <1>4, AppendProperties
  <2> QED BY <1>1, <1>3, <2>1, Zenon
<1>6. \A i \in 1 .. n + 1 : W[i] = WordAt(hmac.phase, asked, base + i - 1)
  <2>1. TAKE i \in 1 .. n + 1
  <2>2. CASE i = n + 1
    <3>1. base + i - 1 = base + n
      BY <2>2
    <3> QED BY <1>3, <1>5, <2>2, <3>1, Zenon
  <2>3. CASE i # n + 1
    <3>1. i \in 1 .. n
      BY <2>3
    <3> QED BY <1>2, <1>5, <3>1, Zenon
  <2> QED BY <2>2, <2>3
<1> QED BY <1>3, <1>5, <1>6, Zenon DEF HoldsNext, W

LEMMA FromFed ==
  ASSUME HashTypes, Fed, Hash!Edge
  PROVE  HashTypes' /\ (Waiting' \/ FirstBlock' \/ SecondBlock')
PROOF
<1> USE HashSizes
<1> DEFINE cnt == hmac.block_word_cnt
           final == hmac.sha_last_block
<1>1. /\ Loading /\ Working /\ Feeder /\ hmac.state = "H_FEED_NEXT"
      /\ hmac.sha_data_valid = TRUE /\ sha.state = "S_LOAD_MSG" /\ sha.is_last = FALSE
      /\ sha.word_cnt = cnt /\ Holds(cnt, Base) /\ Took(Base) /\ since = LoadTime + 2
      /\ (final <=> cnt = BlockWords - 1 /\ hmac.is_block2)
  BY Zenon DEF Fed, Loading, Strobes
<1>2. /\ cnt \in 0 .. BlockWords - 1 /\ hmac.is_block2 \in BOOLEAN /\ final \in BOOLEAN
      /\ Len(sha.taken) <= 2 * BlockWords
  BY DEF HashTypes, HmacRegs
<1>3. /\ Hash!DataIn = WordAt(hmac.phase, asked, Base + cnt) /\ Hash!DataIn \in AllWords
  BY <1>1, FeederWord, Zenon
<1>4. /\ SameJob /\ Silent'
      /\ IF cnt = BlockWords - 1
         THEN IF hmac.is_block2
              THEN HmacNext("H_WAIT_HASH", hmac.phase, hmac.feed_part, hmac.word_idx, 0, TRUE)
              ELSE HmacNext("H_WAIT_READY", hmac.phase, "MSG", 0, 0, TRUE)
         ELSE /\ HmacNext("H_WAIT_READY", hmac.phase, hmac'.feed_part, hmac'.word_idx,
                          cnt + 1, hmac.is_block2)
              /\ Feeder'
  BY <1>1, HmacGoesOn, Zenon
<1>5. IF cnt = BlockWords - 1
      THEN /\ ShaNext("S_EXPAND", cnt, final, Append(sha.W, Hash!DataIn), sha.taken,
                      FALSE, FALSE)
           /\ sha'.count = BlockWords
      ELSE ShaNext("S_LOAD_MSG", cnt + 1, final, Append(sha.W, Hash!DataIn), sha.taken,
                   TRUE, FALSE)
  BY <1>1, <1>3, ShaTakes, Zenon
<1>6. /\ sha' \in ShaRegs /\ sha'.W = Append(sha.W, Hash!DataIn) /\ sha'.taken = sha.taken
      /\ sha'.is_last = final /\ sha'.hash_valid = FALSE
      /\ hmac' \in HmacRegs /\ hmac'.phase = hmac.phase
  BY <1>4, <1>5, Zenon DEF ShaNext, HmacNext
<1>7. Working' /\ PhaseTime' = PhaseTime /\ PhaseTime \in Nat /\ BlockTime \in Nat
  BY <1>1, <1>4, <1>6, JobGoesOn, Times, Zenon
<1>8. Base \in Nat /\ (hmac.is_block2 = TRUE => Base = BlockWords)
      /\ (hmac.is_block2 = FALSE => Base = 0)
  BY Zenon, HashSizes DEF Base
<1>9. HoldsNext(cnt + 1, Base) /\ TookNext(Base)
  <2>1. HoldsNext(cnt + 1, Base)
    <3>1. cnt \in Nat
      BY <1>2
    <3> QED BY <1>1, <1>3, <1>4, <1>6, <1>8, <3>1, HoldsOneMore, Zenon
  <2>2. TookNext(Base)
    BY <1>1, <1>4, <1>6, WordsKept, Zenon DEF SameJob
  <2> QED BY <2>1, <2>2
<1>10. HashTypes'
  <2>1. Len(sha'.W) <= BlockWords
    <3>1. Len(sha'.W) = cnt + 1
      BY <1>9, Zenon DEF HoldsNext
    <3> QED BY <1>2, <3>1
  <2> QED BY <1>2, <1>4, <1>6, <2>1, JobTypes, TypesNext, Zenon
<1>11. since' = LoadTime + 3 /\ LoadTime \in Nat
  <2>1. since' = LoadTime + 2 + 1
    BY <1>1, <1>4, Zenon DEF SameJob
  <2>2. LoadTime \in Nat
    BY Times DEF LoadTime, HashTypes, HmacRegs
  <2> QED BY <2>1, <2>2
<1>12. CASE cnt # BlockWords - 1
  <2>1. /\ HmacNext("H_WAIT_READY", hmac.phase, hmac'.feed_part, hmac'.word_idx,
                    cnt + 1, hmac.is_block2) /\ Feeder'
        /\ ShaNext("S_LOAD_MSG", cnt + 1, final, Append(sha.W, Hash!DataIn), sha.taken,
                   TRUE, FALSE)
    BY <1>4, <1>5, <1>12, Zenon
  <2>2. final = FALSE
    BY <1>1, <1>2, <1>12, Zenon
  <2>3. Base' = Base /\ hmac'.block_word_cnt = cnt + 1
    BY <2>1, Zenon DEF HmacNext, Base
  <2>4. Holds(hmac.block_word_cnt, Base)' /\ Took(Base)'
    BY <1>9, <2>3, Zenon DEF Holds, Took, HoldsNext, TookNext
  <2>5. Loading'
    BY <1>7, <2>1, <2>2, <2>4, Zenon DEF Loading, HmacNext, ShaNext
  <2>6. since' = LoadTime'
    <3>1. LoadTime' = PhaseTime + (IF hmac.is_block2 THEN BlockTime ELSE 0) + 3 + 3 * (cnt + 1)
      BY <1>7, <2>1, Zenon DEF LoadTime, HmacNext, BlockTime
    <3>2. since' = LoadTime + 3
          /\ LoadTime = PhaseTime + (IF hmac.is_block2 THEN BlockTime ELSE 0) + 3 + 3 * cnt
      BY <1>11, Zenon DEF LoadTime
    <3>3. (IF hmac.is_block2 THEN BlockTime ELSE 0) \in Nat
      BY <1>2, <1>7
    <3> HIDE DEF cnt
    <3> QED BY <1>2, <1>7, <3>1, <3>2, <3>3
  <2>7. Waiting'
    BY <1>4, <2>1, <2>5, <2>6, Zenon DEF Waiting, HmacNext, Silent
  <2> QED BY <1>10, <2>7, Zenon
<1>13. CASE cnt = BlockWords - 1
  <2>1. /\ sha'.state = "S_EXPAND" /\ sha'.ready = FALSE /\ sha'.hash_valid = FALSE
        /\ sha'.count = BlockWords /\ sha'.count >= BlockWords
    <3>1. BlockWords >= BlockWords
      OBVIOUS
    <3> QED BY <1>5, <1>13, <3>1, Zenon DEF ShaNext
  <2>2. HoldsNext(BlockWords, Base)
    <3>1. cnt + 1 = BlockWords
      BY <1>13
    <3> QED BY <1>9, <3>1, Zenon
  <2>3. ShaTime' = 3 + 3 * BlockWords
    <3>1. ShaTime' = 3 + 3 * BlockWords + (BlockWords - BlockWords)
      BY <2>1, Zenon DEF ShaTime
    <3> QED BY <3>1
  <2>4. CASE hmac.is_block2 = FALSE
    <3>1. HmacNext("H_WAIT_READY", hmac.phase, "MSG", 0, 0, TRUE) /\ final = FALSE /\ Base = 0
      BY <1>1, <1>2, <1>4, <1>8, <1>13, <2>4, Zenon
    <3>2. Holds(BlockWords, 0)' /\ Took(0)'
      BY <1>9, <2>2, <3>1, Zenon DEF Holds, Took, HoldsNext, TookNext
    <3>3. sha'.is_last = FALSE
      BY <1>6, <3>1, Zenon
    <3>4. Hashing(0, FALSE)'
      BY <2>1, <3>2, <3>3, Zenon DEF Hashing
    <3>5. since' = (PhaseTime + ShaTime)'
      <4>1. LoadTime = PhaseTime + 0 + 3 + 3 * (BlockWords - 1)
        BY <1>13, <2>4, Zenon DEF LoadTime
      <4> QED BY <1>7, <1>11, <2>3, <4>1
    <3>6. FirstBlock'
      BY <1>4, <1>7, <3>1, <3>4, <3>5, Zenon DEF FirstBlock, HmacNext, Silent
    <3> QED BY <1>10, <3>6, Zenon
  <2>5. CASE hmac.is_block2 = TRUE
    <3>1. /\ HmacNext("H_WAIT_HASH", hmac.phase, hmac.feed_part, hmac.word_idx, 0, TRUE)
          /\ final = TRUE /\ Base = BlockWords
      BY <1>1, <1>2, <1>4, <1>8, <1>13, <2>5, Zenon
    <3>2. Holds(BlockWords, BlockWords)' /\ Took(BlockWords)'
      BY <1>9, <2>2, <3>1, Zenon DEF Holds, Took, HoldsNext, TookNext
    <3>3. sha'.is_last = TRUE
      BY <1>6, <3>1, Zenon
    <3>4. Hashing(BlockWords, TRUE)'
      BY <2>1, <3>2, <3>3, Zenon DEF Hashing
    <3>5. since' = (PhaseTime + BlockTime + ShaTime)'
      <4>1. LoadTime = PhaseTime + BlockTime + 3 + 3 * (BlockWords - 1)
        BY <1>13, <2>5, Zenon DEF LoadTime
      <4>2. BlockTime' = BlockTime
        BY Zenon DEF BlockTime
      <4> QED BY <1>7, <1>11, <2>3, <4>1, <4>2
    <3>6. SecondBlock'
      BY <1>4, <1>7, <3>1, <3>4, <3>5, Zenon DEF SecondBlock, HmacNext, Silent
    <3> QED BY <1>10, <3>6, Zenon
  <2> QED BY <1>2, <2>4, <2>5, Zenon
<1> QED BY <1>12, <1>13, Zenon

\* A step of the core inside a block, the feeder waiting.
LEMMA HashingGoesOn ==
  ASSUME HashTypes, Hash!Edge, NEW base, NEW final, Hashing(base, final), SameJob,
         hmac' \in HmacRegs, hmac'.phase = hmac.phase,
         sha.state \in {"S_EXPAND", "S_COMPRESS"}
  PROVE  /\ HashTypes' /\ ShaTime' = ShaTime + 1 /\ ShaTime \in Nat
         /\ sha'.state \in {"S_EXPAND", "S_COMPRESS", "S_UPDATE"}
         /\ sha'.state = "S_EXPAND" => sha'.count >= BlockWords
         /\ sha'.ready = FALSE /\ sha'.hash_valid = FALSE /\ sha'.is_last = final
         /\ HoldsNext(BlockWords, base) /\ TookNext(base)
PROOF
<1> USE HashSizes
<1>1. /\ ShaNext(sha'.state, sha.word_cnt, sha.is_last, sha.W, sha.taken, sha.ready, FALSE)
      /\ IF sha.count = Rounds - 1
         THEN \/ sha.state = "S_EXPAND" /\ sha'.state = "S_COMPRESS" /\ sha'.count = 0
              \/ sha.state = "S_COMPRESS" /\ sha'.state = "S_UPDATE"
         ELSE sha'.state = sha.state /\ sha'.count = sha.count + 1
  BY ShaWorks, Zenon
<1>2. /\ sha' \in ShaRegs /\ sha'.is_last = final /\ sha'.W = sha.W /\ sha'.taken = sha.taken
      /\ sha'.ready = FALSE /\ sha'.hash_valid = FALSE
  BY <1>1, Zenon DEF ShaNext, Hashing
<1>3. /\ sha.count \in 0 .. Rounds - 1 /\ (sha.state = "S_EXPAND" => sha.count >= BlockWords)
      /\ Len(sha.W) <= BlockWords /\ Len(sha.taken) <= 2 * BlockWords
  BY DEF HashTypes, ShaRegs, Hashing
<1>4. HashTypes'
  BY <1>2, <1>3, JobTypes, TypesNext, Zenon
<1>5. HoldsNext(BlockWords, base) /\ TookNext(base)
  BY <1>2, WordsKept, Zenon DEF SameJob, Hashing
<1>6. /\ ShaTime' = ShaTime + 1 /\ ShaTime \in Nat
      /\ sha'.state \in {"S_EXPAND", "S_COMPRESS", "S_UPDATE"}
      /\ sha'.state = "S_EXPAND" => sha'.count >= BlockWords
  <2>1. CASE sha.count = Rounds - 1 /\ sha.state = "S_EXPAND"
    <3>1. sha'.state = "S_COMPRESS" /\ sha'.count = 0
      BY <1>1, <2>1
    <3> QED BY <1>3, <2>1, <3>1 DEF ShaTime
  <2>2. CASE sha.count = Rounds - 1 /\ sha.state = "S_COMPRESS"
    <3>1. sha'.state = "S_UPDATE"
      BY <1>1, <2>2
    <3> QED BY <1>3, <2>2, <3>1 DEF ShaTime
  <2>3. CASE sha.count # Rounds - 1
    <3>1. sha'.state = sha.state /\ sha'.count = sha.count + 1
      BY <1>1, <2>3, Zenon
    <3>2. CASE sha.state = "S_EXPAND"
      BY <1>3, <3>1, <3>2 DEF ShaTime
    <3>3. CASE sha.state = "S_COMPRESS"
      BY <1>3, <3>1, <3>3 DEF ShaTime
    <3> QED BY <3>2, <3>3
  <2> QED BY <2>1, <2>2, <2>3
<1> QED BY <1>2, <1>4, <1>5, <1>6, Zenon

\* The words of a block join those before it.
LEMMA BlockTaken ==
  ASSUME HashTypes, NEW base \in Nat, Holds(BlockWords, base), Took(base),
         hmac'.phase = hmac.phase, asked' = asked, sha'.taken = sha.taken \o sha.W
  PROVE  TookNext(base + BlockWords)
PROOF
<1> USE HashSizes
<1> DEFINE T == sha'.taken
<1>1. /\ sha.W \in Seq(AllWords) /\ sha.taken \in Seq(AllWords)
      /\ Len(sha.W) = BlockWords /\ Len(sha.taken) = base
  BY DEF HashTypes, ShaRegs, Holds, Took
<1>2. /\ \A i \in 1 .. BlockWords : sha.W[i] = WordAt(hmac.phase, asked, base + i - 1)
      /\ \A i \in 1 .. base : sha.taken[i] = WordAt(hmac.phase, asked, i - 1)
  BY Zenon DEF Holds, Took
<1>3. /\ Len(T) = base + BlockWords
      /\ \A i \in 1 .. base + BlockWords :
           T[i] = IF i <= base THEN sha.taken[i] ELSE sha.W[i - base]
  <2>1. /\ Len(T) = Len(sha.taken) + Len(sha.W)
        /\ \A i \in 1 .. Len(sha.taken) + Len(sha.W) :
             T[i] = IF i <= Len(sha.taken) THEN sha.taken[i] ELSE sha.W[i - Len(sha.taken)]
    <3>1. /\ Len(sha.taken \o sha.W) = Len(sha.taken) + Len(sha.W)
          /\ \A i \in 1 .. Len(sha.taken) + Len(sha.W) :
               (sha.taken \o sha.W)[i]
               = IF i <= Len(sha.taken) THEN sha.taken[i] ELSE sha.W[i - Len(sha.taken)]
      BY <1>1, ConcatProperties
    <3> QED BY <3>1, Zenon
  <2> QED BY <1>1, <2>1, Zenon
<1> HIDE DEF T
<1>4. \A i \in 1 .. base + BlockWords : T[i] = WordAt(hmac.phase, asked, i - 1)
  <2>1. TAKE i \in 1 .. base + BlockWords
  <2>2. CASE i <= base
    <3>1. i \in 1 .. base
      BY <2>2
    <3> QED BY <1>2, <1>3, <2>2, <3>1, Zenon
  <2>3. CASE ~(i <= base)
    <3>1. i - base \in 1 .. BlockWords /\ base + (i - base) - 1 = i - 1
      BY <2>3
    <3>2. sha.W[i - base] = WordAt(hmac.phase, asked, base + (i - base) - 1)
      BY <1>2, <3>1
    <3>3. T[i] = sha.W[i - base]
      BY <1>3, <2>3, Zenon
    <3> QED BY <3>1, <3>2, <3>3, Zenon
  <2> QED BY <2>2, <2>3, Zenon
<1> QED BY <1>3, <1>4, Zenon DEF TookNext, T

LEMMA FromFirstBlock ==
  ASSUME HashTypes, FirstBlock, Hash!Edge
  PROVE  HashTypes' /\ (FirstBlock' \/ Waiting')
PROOF
<1> USE HashSizes
<1>1. /\ Working /\ hmac.feed_part = "MSG" /\ hmac.is_block2 = TRUE /\ hmac.word_idx = 0
      /\ hmac.block_word_cnt = 0 /\ Hashing(0, FALSE) /\ since = PhaseTime + ShaTime
      /\ sha.ready = FALSE /\ sha.is_last = FALSE /\ sha.state \in {"S_EXPAND", "S_COMPRESS", "S_UPDATE"}
      /\ Holds(BlockWords, 0) /\ Took(0)
  BY Zenon DEF FirstBlock, Hashing
<1>2. HmacNext("H_WAIT_READY", hmac.phase, "MSG", 0, 0, TRUE) /\ SameJob /\ Silent'
  <2>1. (IF sha.ready THEN "H_FEED" ELSE "H_WAIT_READY") = "H_WAIT_READY"
    BY <1>1, Zenon
  <2> QED BY <1>1, <2>1, HmacWaits, Zenon DEF FirstBlock
<1>3. hmac' \in HmacRegs /\ hmac'.phase = hmac.phase /\ asked' = asked /\ since' = since + 1
  BY <1>2, Zenon DEF HmacNext, SameJob
<1>4. Working' /\ PhaseTime' = PhaseTime /\ PhaseTime \in Nat
  BY <1>1, <1>2, <1>3, JobGoesOn, Times, Zenon
<1>5. CASE sha.state \in {"S_EXPAND", "S_COMPRESS"}
  <2>1. /\ HashTypes' /\ ShaTime' = ShaTime + 1 /\ ShaTime \in Nat
        /\ sha'.state \in {"S_EXPAND", "S_COMPRESS", "S_UPDATE"}
        /\ sha'.state = "S_EXPAND" => sha'.count >= BlockWords
        /\ sha'.ready = FALSE /\ sha'.hash_valid = FALSE /\ sha'.is_last = FALSE
        /\ HoldsNext(BlockWords, 0) /\ TookNext(0)
    BY <1>1, <1>2, <1>3, <1>5, HashingGoesOn, Zenon
  <2>2. Hashing(0, FALSE)'
    BY <2>1, Zenon DEF Hashing, Holds, Took, HoldsNext, TookNext
  <2>3. since' = (PhaseTime + ShaTime)'
    BY <1>1, <1>3, <1>4, <2>1
  <2>4. FirstBlock'
    BY <1>2, <1>4, <2>2, <2>3, Zenon DEF FirstBlock, HmacNext, Silent
  <2> QED BY <2>1, <2>4, Zenon
<1>6. CASE sha.state = "S_UPDATE"
  <2>1. ShaNext("S_LOAD_MSG", 0, FALSE, <<>>, sha.taken \o sha.W, TRUE, FALSE)
    BY <1>1, <1>6, ShaUpdates, Zenon
  <2>2. TookNext(BlockWords)
    <3>1. TookNext(0 + BlockWords)
      BY <1>1, <1>3, <2>1, BlockTaken DEF ShaNext
    <3> QED BY <3>1
  <2>3. HoldsNext(0, BlockWords) /\ Len(sha'.W) <= BlockWords
    <3>1. Len(<<>>) = 0 /\ 0 <= BlockWords /\ \A i \in 1 .. 0 : FALSE
      OBVIOUS
    <3> QED BY <2>1, <3>1, Zenon DEF HoldsNext, ShaNext
  <2>4. Len(sha'.taken) <= 2 * BlockWords
    BY <2>2 DEF TookNext
  <2>5. HashTypes'
    BY <1>2, <1>3, <2>1, <2>3, <2>4, JobTypes, TypesNext, Zenon DEF ShaNext
  <2>6. Base' = BlockWords /\ hmac'.block_word_cnt = 0
    BY <1>2, Zenon DEF HmacNext, Base
  <2>7. Holds(hmac.block_word_cnt, Base)' /\ Took(Base)'
    BY <2>2, <2>3, <2>6, Zenon DEF Holds, Took, HoldsNext, TookNext
  <2>8. Feeder'
    <3>1. 0 < BodyWords(hmac.phase)
      BY BodySizes DEF HashTypes, HmacRegs
    <3>2. 0 < BodyWords(hmac'.phase)
      BY <1>3, <3>1, Zenon
    <3> QED BY <1>2, <3>2, Zenon DEF Feeder, HmacNext
  <2>9. Loading'
    BY <1>2, <1>4, <2>1, <2>7, <2>8, Zenon DEF Loading, HmacNext, ShaNext
  <2>10. since' = LoadTime'
    <3>1. ShaTime = 3 + 3 * BlockWords + (Rounds - BlockWords + Rounds)
      BY <1>6 DEF ShaTime
    <3>2. LoadTime' = PhaseTime' + BlockTime' + 3 + 3 * hmac'.block_word_cnt
      BY <1>2, Zenon DEF LoadTime, HmacNext
    <3>3. BlockTime' = 2 * BlockWords + 2 * Rounds + 1
      BY Zenon DEF BlockTime
    <3> QED BY <1>1, <1>3, <1>4, <2>6, <3>1, <3>2, <3>3
  <2>11. Waiting'
    BY <1>2, <2>9, <2>10, Zenon DEF Waiting, HmacNext, Silent
  <2> QED BY <2>5, <2>11, Zenon
<1> QED BY <1>1, <1>5, <1>6

LEMMA FromSecondBlock ==
  ASSUME HashTypes, SecondBlock, Hash!Edge
  PROVE  HashTypes' /\ (SecondBlock' \/ Hashed')
PROOF
<1> USE HashSizes
<1>1. /\ Working /\ Hashing(BlockWords, TRUE) /\ since = PhaseTime + BlockTime + ShaTime
      /\ sha.ready = FALSE /\ sha.hash_valid = FALSE /\ sha.is_last = TRUE
      /\ sha.state \in {"S_EXPAND", "S_COMPRESS", "S_UPDATE"}
      /\ Holds(BlockWords, BlockWords) /\ Took(BlockWords)
  BY Zenon DEF SecondBlock, Hashing
<1>2. /\ HmacNext("H_WAIT_HASH", hmac.phase, hmac.feed_part, hmac.word_idx,
                  hmac.block_word_cnt, hmac.is_block2)
      /\ SameJob /\ Silent'
  BY <1>1, HmacAwaits, Zenon DEF SecondBlock
<1>3. hmac' \in HmacRegs /\ hmac'.phase = hmac.phase /\ asked' = asked /\ since' = since + 1
  BY <1>2, Zenon DEF HmacNext, SameJob
<1>4. /\ Working' /\ PhaseTime' = PhaseTime /\ PhaseTime \in Nat /\ BlockTime \in Nat
      /\ BlockTime' = BlockTime
  BY <1>1, <1>2, <1>3, JobGoesOn, Times, Zenon DEF BlockTime
<1>5. CASE sha.state \in {"S_EXPAND", "S_COMPRESS"}
  <2>1. /\ HashTypes' /\ ShaTime' = ShaTime + 1 /\ ShaTime \in Nat
        /\ sha'.state \in {"S_EXPAND", "S_COMPRESS", "S_UPDATE"}
        /\ sha'.state = "S_EXPAND" => sha'.count >= BlockWords
        /\ sha'.ready = FALSE /\ sha'.hash_valid = FALSE /\ sha'.is_last = TRUE
        /\ HoldsNext(BlockWords, BlockWords) /\ TookNext(BlockWords)
    BY <1>1, <1>2, <1>3, <1>5, HashingGoesOn, Zenon
  <2>2. Hashing(BlockWords, TRUE)'
    BY <2>1, Zenon DEF Hashing, Holds, Took, HoldsNext, TookNext
  <2>3. since' = (PhaseTime + BlockTime + ShaTime)'
    BY <1>1, <1>3, <1>4, <2>1
  <2>4. SecondBlock'
    BY <1>2, <1>4, <2>2, <2>3, Zenon DEF SecondBlock, HmacNext, Silent
  <2> QED BY <2>1, <2>4, Zenon
<1>6. CASE sha.state = "S_UPDATE"
  <2>1. ShaNext("S_DONE", sha.word_cnt, TRUE, <<>>, sha.taken \o sha.W, FALSE, FALSE)
    BY <1>1, <1>6, ShaUpdates, Zenon
  <2>2. TookNext(2 * BlockWords)
    <3>1. TookNext(BlockWords + BlockWords)
      BY <1>1, <1>3, <2>1, BlockTaken DEF ShaNext
    <3>2. BlockWords + BlockWords = 2 * BlockWords
      OBVIOUS
    <3> QED BY <3>1, <3>2
  <2>3. Len(sha'.W) <= BlockWords /\ Len(sha'.taken) <= 2 * BlockWords
    <3>1. Len(<<>>) = 0 /\ 0 <= BlockWords
      OBVIOUS
    <3>2. Len(sha'.W) <= BlockWords
      BY <2>1, <3>1, Zenon DEF ShaNext
    <3>3. Len(sha'.taken) <= 2 * BlockWords
      BY <2>2 DEF TookNext
    <3> QED BY <3>2, <3>3
  <2>4. HashTypes'
    BY <1>2, <1>3, <2>1, <2>3, JobTypes, TypesNext, Zenon DEF ShaNext
  <2>5. since' = (PhaseTime + BlockTime + ShaTime)'
    <3>1. ShaTime = 3 + 3 * BlockWords + (Rounds - BlockWords + Rounds)
      BY <1>6 DEF ShaTime
    <3>2. ShaTime' = 3 + 3 * BlockWords + (Rounds - BlockWords + (Rounds + 1))
      <4>1. sha'.state = "S_DONE"
        BY <2>1, Zenon DEF ShaNext
      <4> QED BY <4>1 DEF ShaTime
    <3> QED BY <1>1, <1>3, <1>4, <3>1, <3>2
  <2>6. /\ sha'.state = "S_DONE" /\ sha'.ready = FALSE /\ sha'.hash_valid = FALSE
        /\ sha'.state # "S_IDLE"
    <3>1. "S_DONE" # "S_IDLE"
      OBVIOUS
    <3> QED BY <2>1, <3>1, Zenon DEF ShaNext
  <2>7. Took(2 * BlockWords)'
    BY <2>2, Zenon DEF Took, TookNext
  <2>8. sha'.hash_valid = (sha'.state = "S_IDLE") /\ sha'.state \in {"S_DONE", "S_IDLE"}
    BY <2>6, Zenon
  <2>9. Hashed'
    BY <1>2, <1>4, <2>5, <2>6, <2>7, <2>8, Zenon DEF Hashed, HmacNext, Silent
  <2> QED BY <2>4, <2>9, Zenon
<1> QED BY <1>1, <1>5, <1>6

LEMMA FromHashed ==
  ASSUME HashTypes, Hashed, Hash!Edge
  PROVE  HashTypes' /\ (Hashed' \/ Preparing' \/ Answered')
PROOF
<1> USE HashSizes
<1>1. /\ Working /\ Took(2 * BlockWords) /\ since = PhaseTime + BlockTime + ShaTime
      /\ sha.ready = FALSE /\ hmac.state = "H_WAIT_HASH" /\ sha.state \in {"S_DONE", "S_IDLE"}
      /\ sha.hash_valid = (sha.state = "S_IDLE") /\ hmac.sha_start = FALSE
  BY Zenon DEF Hashed, Strobes
<1>2. /\ PhaseTime \in Nat /\ BlockTime \in Nat /\ HashTime \in Nat
      /\ hmac.phase \in HPhases /\ asked \in Nat /\ since \in Nat
      /\ Len(sha.W) <= BlockWords /\ Len(sha.taken) <= 2 * BlockWords
  BY Times DEF HashTypes, HmacRegs
<1>3. CASE sha.state = "S_DONE"
  <2>1. ShaNext("S_IDLE", sha.word_cnt, sha.is_last, sha.W, sha.taken, FALSE, TRUE)
    BY <1>1, <1>3, ShaEnds, Zenon
  <2>2. sha.hash_valid = FALSE
    <3>1. sha.state # "S_IDLE"
      BY <1>3
    <3> QED BY <1>1, <3>1, Zenon
  <2>3. /\ HmacNext("H_WAIT_HASH", hmac.phase, hmac.feed_part, hmac.word_idx,
                    hmac.block_word_cnt, hmac.is_block2)
        /\ SameJob /\ Silent'
    BY <1>1, <2>2, HmacAwaits, Zenon
  <2>4. hmac' \in HmacRegs /\ hmac'.phase = hmac.phase /\ asked' = asked /\ since' = since + 1
    BY <2>3, Zenon DEF HmacNext, SameJob
  <2>5. Working' /\ PhaseTime' = PhaseTime /\ BlockTime' = BlockTime
    BY <1>1, <2>3, <2>4, JobGoesOn, Times, Zenon DEF BlockTime
  <2>6. HashTypes'
    BY <1>2, <2>1, <2>3, <2>4, JobTypes, TypesNext, Zenon DEF ShaNext
  <2>7. TookNext(2 * BlockWords)
    BY <1>1, <2>1, <2>4, WordsKept, Zenon DEF ShaNext
  <2>8. since' = (PhaseTime + BlockTime + ShaTime)'
    <3>1. ShaTime = 3 + 3 * BlockWords + (Rounds - BlockWords + (Rounds + 1))
      BY <1>3 DEF ShaTime
    <3>2. ShaTime' = 3 + 3 * BlockWords + (Rounds - BlockWords + (Rounds + 2))
      <4>1. sha'.state = "S_IDLE"
        BY <2>1, Zenon DEF ShaNext
      <4> QED BY <4>1 DEF ShaTime
    <3> QED BY <1>1, <1>2, <2>4, <2>5, <3>1, <3>2
  <2>9. /\ sha'.state \in {"S_DONE", "S_IDLE"} /\ sha'.ready = FALSE
        /\ sha'.hash_valid = (sha'.state = "S_IDLE")
    BY <2>1, Zenon DEF ShaNext
  <2>10. Hashed'
    BY <2>3, <2>5, <2>7, <2>8, <2>9, Zenon DEF Hashed, HmacNext, Silent, Took, TookNext
  <2> QED BY <2>6, <2>10, Zenon
<1>4. CASE sha.state = "S_IDLE"
  <2>1. ShaNext("S_IDLE", sha.word_cnt, sha.is_last, sha.W, sha.taken, FALSE, FALSE)
    BY <1>1, <1>4, ShaRests, Zenon
  <2>2. sha.hash_valid = TRUE /\ asked \in Messages
    BY <1>1, <1>4, Zenon DEF Working
  <2>3. /\ hmac' \in HmacRegs /\ hmac'.busy = hmac.busy
        /\ hmac'.msg_latched = hmac.msg_latched /\ asked' = asked /\ since' = since + 1
        /\ IF hmac.phase = "INNER"
           THEN /\ hmac'.state = "H_PREP" /\ hmac'.phase = "OUTER" /\ Silent'
                /\ hmac'.inner_hash = <<"inner", asked>>
                /\ hmac'.feed_part = "PAD" /\ hmac'.is_block2 = FALSE
           ELSE /\ hmac'.state = "H_DONE" /\ Strobes(FALSE, FALSE, FALSE, TRUE)'
                /\ hmac'.hmac_out = <<"hmac", asked>>
    BY <1>1, <2>2, HmacCollects, Zenon
  <2>4. asked' \in Nat /\ since' \in Nat
    BY <1>2, <2>3
  <2>5. HashTypes'
    BY <1>2, <2>1, <2>3, <2>4, TypesNext, Zenon DEF ShaNext
  <2>6. Resting' /\ hmac'.busy = TRUE /\ asked' \in Messages /\ hmac'.msg_latched = asked'
    BY <1>1, <2>1, <2>2, <2>3, Zenon DEF Resting, ShaNext, Working
  <2>7. since' = PhaseTime + HashTime + 1
    <3>1. ShaTime = 3 + 3 * BlockWords + (Rounds - BlockWords + (Rounds + 2))
      BY <1>4 DEF ShaTime
    <3>2. HashTime = 2 * BlockTime + 4 /\ BlockTime = 2 * BlockWords + 2 * Rounds + 1
      BY Zenon DEF HashTime, BlockTime
    <3> QED BY <1>1, <1>2, <2>3, <3>1, <3>2
  <2>8. CASE hmac.phase = "INNER"
    <3>1. /\ hmac'.state = "H_PREP" /\ hmac'.phase = "OUTER" /\ Silent'
          /\ hmac'.inner_hash = <<"inner", asked'>>
          /\ hmac'.feed_part = "PAD" /\ hmac'.is_block2 = FALSE
      BY <2>3, <2>8, Zenon
    <3>2. Working'
      BY <2>6, <3>1, Zenon DEF Working
    <3>3. since' = (PhaseTime + 1)'
      <4>1. "OUTER" # "INNER"
        OBVIOUS
      <4>2. PhaseTime' = HashTime /\ PhaseTime = 0
        BY <2>8, <3>1, <4>1, Zenon DEF PhaseTime, HashTime, BlockTime
      <4> QED BY <1>2, <2>7, <4>2
    <3>4. Preparing'
      BY <2>6, <3>1, <3>2, <3>3, Zenon DEF Preparing, Silent
    <3> QED BY <2>5, <3>4, Zenon
  <2>9. CASE hmac.phase # "INNER"
    <3>1. /\ hmac'.state = "H_DONE" /\ Strobes(FALSE, FALSE, FALSE, TRUE)'
          /\ hmac'.hmac_out = <<"hmac", asked'>>
      BY <2>3, <2>9, Zenon
    <3>2. since' = (2 * HashTime + 1)'
      <4>1. PhaseTime = HashTime /\ HashTime' = HashTime
        BY <2>9, Zenon DEF PhaseTime, HashTime, BlockTime
      <4> QED BY <1>2, <2>7, <4>1
    <3>3. Answered'
      BY <2>6, <3>1, <3>2, Zenon DEF Answered
    <3> QED BY <2>5, <3>3, Zenon
  <2> QED BY <2>8, <2>9, Zenon
<1> QED BY <1>1, <1>3, <1>4

LEMMA FromAnswered ==
  ASSUME HashTypes, Answered, Hash!Edge
  PROVE  HashTypes' /\ AtRest'
PROOF
<1>1. ShaNext("S_IDLE", sha.word_cnt, sha.is_last, sha.W, sha.taken, FALSE, FALSE)
  BY ShaRests, Zenon DEF Answered, Resting, Strobes
<1>2. /\ hmac' \in HmacRegs /\ hmac'.state = "H_IDLE" /\ hmac'.busy = FALSE /\ Silent'
      /\ asked' = asked /\ since' = 0
  BY HmacEnds, Zenon DEF Answered
<1>3. asked \in Nat /\ Len(sha.W) <= BlockWords /\ Len(sha.taken) <= 2 * BlockWords /\ 0 \in Nat
  BY DEF HashTypes
<1>4. HashTypes'
  BY <1>1, <1>2, <1>3, TypesNext, Zenon DEF ShaNext
<1>5. AtRest'
  BY <1>1, <1>2, Zenon DEF AtRest, ShaNext, Silent, Resting
<1> QED BY <1>4, <1>5, Zenon

\* The reset values, at the start and at a kill in the middle of a computation.
LEMMA ResetValues ==
  ASSUME NEW m \in Nat
  PROVE  Hash!HmacReset(m) \in HmacRegs /\ Hash!ShaReset \in ShaRegs
PROOF
<1> USE HashSizes
<1>1. Hash!HmacReset(m) \in HmacRegs
  <2>1. Hash!None \in Hashes /\ "H_IDLE" \in HStates /\ "INNER" \in HPhases
        /\ 0 \in 0 .. BlockWords - 1 /\ "PAD" \in {"PAD", "MSG", "PADDING"}
    BY DEF Hash!None, Hashes, HStates, HPhases
  <2> QED BY <2>1 DEF Hash!HmacReset, HmacRegs
<1>2. Hash!ShaReset \in ShaRegs
  <2>1. /\ "S_IDLE" \in SStates /\ 0 \in 0 .. BlockWords - 1 /\ 0 \in 0 .. Rounds - 1
        /\ <<>> \in Seq(AllWords)
    BY DEF SStates
  <2> QED BY <2>1 DEF Hash!ShaReset, ShaRegs
<1> QED BY <1>1, <1>2

LEMMA HashStarts == Hash!Init => HashInv
PROOF
<1> SUFFICES ASSUME Hash!Init PROVE HashInv
  OBVIOUS
<1> USE HashSizes
<1>1. hmac = Hash!HmacReset(0) /\ sha = Hash!ShaReset /\ asked = 0 /\ since = 0
  BY Zenon DEF Hash!Init
<1>2. hmac \in HmacRegs /\ sha \in ShaRegs /\ 0 \in Nat
  BY <1>1, ResetValues
<1>3. /\ sha.W = <<>> /\ sha.taken = <<>> /\ sha.state = "S_IDLE" /\ sha.ready = FALSE
      /\ sha.hash_valid = FALSE
  BY <1>1 DEF Hash!ShaReset
<1>4. /\ hmac.state = "H_IDLE" /\ hmac.busy = FALSE
      /\ hmac.sha_start = FALSE /\ hmac.sha_data_valid = FALSE
      /\ hmac.sha_last_block = FALSE /\ hmac.hmac_valid = FALSE
  BY <1>1 DEF Hash!HmacReset
<1>5. Len(<<>>) <= BlockWords /\ Len(<<>>) <= 2 * BlockWords
  OBVIOUS
<1>6. HashTypes
  BY <1>1, <1>2, <1>3, <1>5, Zenon DEF HashTypes
<1>7. AtRest
  BY <1>1, <1>3, <1>4, Zenon DEF AtRest, Resting, Strobes
<1> QED BY <1>6, <1>7, Zenon DEF HashInv, InStep

LEMMA FromReset ==
  ASSUME HashTypes, Hash!Reset
  PROVE  HashTypes' /\ AtRest'
PROOF
<1> USE HashSizes
<1>1. /\ hmac' = Hash!HmacReset(hmac.msg_latched) /\ sha' = Hash!ShaReset
      /\ since' = 0 /\ asked' = asked
  BY Zenon DEF Hash!Reset
<1>2. hmac.msg_latched \in Nat /\ asked \in Nat
  BY DEF HashTypes, HmacRegs
<1>3. hmac' \in HmacRegs /\ sha' \in ShaRegs /\ 0 \in Nat
  BY <1>1, <1>2, ResetValues
<1>4. /\ sha'.W = <<>> /\ sha'.taken = <<>> /\ sha'.state = "S_IDLE" /\ sha'.ready = FALSE
      /\ sha'.hash_valid = FALSE
  BY <1>1 DEF Hash!ShaReset
<1>5. /\ hmac'.state = "H_IDLE" /\ hmac'.busy = FALSE
      /\ hmac'.sha_start = FALSE /\ hmac'.sha_data_valid = FALSE
      /\ hmac'.sha_last_block = FALSE /\ hmac'.hmac_valid = FALSE
  BY <1>1 DEF Hash!HmacReset
<1>6. Len(<<>>) <= BlockWords /\ Len(<<>>) <= 2 * BlockWords
  OBVIOUS
<1>7. HashTypes'
  BY <1>1, <1>2, <1>3, <1>4, <1>6, TypesNext, Zenon
<1>8. AtRest'
  BY <1>1, <1>4, <1>5, Zenon DEF AtRest, Resting, Strobes
<1> QED BY <1>7, <1>8, Zenon

LEMMA HashUnchanged ==
  ASSUME HashInv, UNCHANGED Hash!hmacVars
  PROVE  HashInv'
PROOF
<1>1. hmac' = hmac /\ sha' = sha /\ asked' = asked /\ since' = since
  BY DEF Hash!hmacVars
<1>2. HashTypes'
  BY <1>1, Zenon DEF HashInv, HashTypes
<1>3. /\ PhaseTime' = PhaseTime /\ LoadTime' = LoadTime /\ ShaTime' = ShaTime
      /\ BlockTime' = BlockTime /\ HashTime' = HashTime /\ Base' = Base
      /\ (Working => Working') /\ (Resting => Resting') /\ (Feeder => Feeder')
  BY <1>1, Zenon DEF PhaseTime, LoadTime, ShaTime, BlockTime, HashTime, Base, Working,
       Resting, Feeder
<1>4. \A n, base : Holds(n, base) => HoldsNext(n, base)
  BY <1>1, Zenon DEF Holds, HoldsNext
<1>5. \A n : Took(n) => TookNext(n)
  BY <1>1, Zenon DEF Took, TookNext
<1>6. Loading => Loading'
  <2>1. Loading => HoldsNext(hmac.block_word_cnt, Base) /\ TookNext(Base)
    BY <1>4, <1>5, Zenon DEF Loading
  <2>2. Loading => Holds(hmac.block_word_cnt, Base)' /\ Took(Base)'
    BY <1>1, <1>3, <2>1, Zenon DEF Holds, HoldsNext, Took, TookNext
  <2> QED BY <1>1, <1>3, <2>2, Zenon DEF Loading
<1>7. (Hashing(0, FALSE) => Hashing(0, FALSE)')
      /\ (Hashing(BlockWords, TRUE) => Hashing(BlockWords, TRUE)')
  <2>1. \A base : Holds(BlockWords, base) => Holds(BlockWords, base)'
    BY <1>4, Zenon DEF Holds, HoldsNext
  <2>2. \A base : Took(base) => Took(base)'
    BY <1>5, Zenon DEF Took, TookNext
  <2> QED BY <1>1, <2>1, <2>2, Zenon DEF Hashing
<1>8. /\ AtRest => AtRest'
      /\ Preparing => Preparing'
      /\ Starting => Starting'
  BY <1>1, <1>3, Zenon DEF AtRest, Preparing, Starting, Strobes
<1>9. /\ Waiting => Waiting'
      /\ Feeding => Feeding'
  BY <1>1, <1>3, <1>6, Zenon DEF Waiting, Feeding, Strobes
<1>10. Fed => Fed'
  BY <1>1, <1>3, <1>6, Zenon DEF Fed, Strobes
<1>11. /\ FirstBlock => FirstBlock'
       /\ SecondBlock => SecondBlock'
  BY <1>1, <1>3, <1>7, Zenon DEF FirstBlock, SecondBlock, Strobes
<1>12. Hashed => Hashed'
  <2>1. Took(2 * BlockWords) => Took(2 * BlockWords)'
    BY <1>5, Zenon DEF Took, TookNext
  <2> QED BY <1>1, <1>3, <2>1, Zenon DEF Hashed, Strobes
<1>13. Answered => Answered'
  BY <1>1, <1>3, Zenon DEF Answered, Strobes
<1> QED BY <1>2, <1>8, <1>9, <1>10, <1>11, <1>12, <1>13, Zenon DEF HashInv, InStep

LEMMA HashSteps ==
  HashInv /\ [Hash!Next]_(Hash!hmacVars) => HashInv'
PROOF
<1> SUFFICES ASSUME HashInv, [Hash!Next]_(Hash!hmacVars) PROVE HashInv'
  OBVIOUS
<1>1. CASE Hash!Edge
  <2>1. HashTypes /\ InStep
    BY Zenon DEF HashInv
  <2>2. CASE AtRest
    BY <1>1, <2>1, <2>2, FromRest, Zenon DEF HashInv, InStep
  <2>3. CASE Preparing
    BY <1>1, <2>1, <2>3, FromPreparing, Zenon DEF HashInv, InStep
  <2>4. CASE Starting
    BY <1>1, <2>1, <2>4, FromStarting, Zenon DEF HashInv, InStep
  <2>5. CASE Waiting
    BY <1>1, <2>1, <2>5, FromWaiting, Zenon DEF HashInv, InStep
  <2>6. CASE Feeding
    BY <1>1, <2>1, <2>6, FromFeeding, Zenon DEF HashInv, InStep
  <2>7. CASE Fed
    BY <1>1, <2>1, <2>7, FromFed, Zenon DEF HashInv, InStep
  <2>8. CASE FirstBlock
    BY <1>1, <2>1, <2>8, FromFirstBlock, Zenon DEF HashInv, InStep
  <2>9. CASE SecondBlock
    BY <1>1, <2>1, <2>9, FromSecondBlock, Zenon DEF HashInv, InStep
  <2>10. CASE Hashed
    BY <1>1, <2>1, <2>10, FromHashed, Zenon DEF HashInv, InStep
  <2>11. CASE Answered
    BY <1>1, <2>1, <2>11, FromAnswered, Zenon DEF HashInv, InStep
  <2> QED BY <2>1, <2>2, <2>3, <2>4, <2>5, <2>6, <2>7, <2>8, <2>9, <2>10, <2>11, Zenon DEF InStep
<1>2. CASE Hash!Reset
  BY <1>2, FromReset, Zenon DEF HashInv, InStep
<1>3. CASE UNCHANGED Hash!hmacVars
  BY <1>3, HashUnchanged, Zenon
<1> QED BY <1>1, <1>2, <1>3, Zenon DEF Hash!Next
-----------------------------------------------------------------------------
\* Every configuration of a computation lies between its start and its answer.
LEMMA AnswerTime ==
  /\ Hash!AnswerCycles = 2 * HashTime + 1 /\ HashTime \in Nat
  /\ HashTime = 4 * BlockWords + 4 * Rounds + 6
PROOF BY HashSizes DEF Hash!AnswerCycles, Hash!BlockCycles, HashTime, BlockTime

LEMMA UnderWay ==
  ASSUME HashTypes, Preparing \/ Starting \/ Waiting \/ Feeding \/ Fed \/ FirstBlock
                    \/ SecondBlock \/ Hashed
  PROVE  /\ hmac.hmac_valid = FALSE /\ hmac.busy = TRUE
         /\ since > 0 /\ since < Hash!AnswerCycles
PROOF
<1> USE HashSizes
<1>1. hmac.hmac_valid = FALSE /\ hmac.busy = TRUE
  BY Zenon DEF Preparing, Starting, Waiting, Feeding, Fed, FirstBlock, SecondBlock,
       Hashed, Strobes, Working, Loading
<1>2. PhaseTime \in {0, HashTime}
  BY Zenon DEF PhaseTime
<1>3. hmac.block_word_cnt \in 0 .. BlockWords - 1 /\ sha.count \in 0 .. Rounds - 1
  BY DEF HashTypes, HmacRegs, ShaRegs
<1>4. BlockTime = 2 * BlockWords + 2 * Rounds + 1
  BY Zenon DEF BlockTime
<1>5. CASE Preparing \/ Starting
  <2>1. since = PhaseTime + 1 \/ since = PhaseTime + 2
    BY <1>5, Zenon DEF Preparing, Starting
  <2> QED BY <1>1, <1>2, <2>1, AnswerTime
<1>6. CASE Waiting \/ Feeding \/ Fed
  <2>1. since = LoadTime \/ since = LoadTime + 1 \/ since = LoadTime + 2
    BY <1>6, Zenon DEF Waiting, Feeding, Fed
  <2> DEFINE block == IF hmac.is_block2 THEN BlockTime ELSE 0
  <2>2. LoadTime = PhaseTime + block + 3 + 3 * hmac.block_word_cnt
    BY Zenon DEF LoadTime
  <2>3. block = BlockTime \/ block = 0
    BY Zenon
  <2> HIDE DEF block
  <2> QED BY <1>1, <1>2, <1>3, <1>4, <2>1, <2>2, <2>3, AnswerTime
<1>7. CASE FirstBlock \/ SecondBlock \/ Hashed
  <2>1. since = PhaseTime + ShaTime \/ since = PhaseTime + BlockTime + ShaTime
    BY <1>7, Zenon DEF FirstBlock, SecondBlock, Hashed
  <2>2. sha.state = "S_EXPAND" => sha.count >= BlockWords
    <3>1. "S_DONE" # "S_EXPAND" /\ "S_IDLE" # "S_EXPAND"
      OBVIOUS
    <3>2. Hashed => sha.state = "S_DONE" \/ sha.state = "S_IDLE"
      BY Zenon DEF Hashed
    <3> QED BY <1>7, <3>1, <3>2, Zenon DEF FirstBlock, SecondBlock, Hashing
  <2>3. ShaTime \in 3 + 3 * BlockWords .. 3 + 2 * BlockWords + 2 * Rounds + 2
    BY <1>3, <2>2 DEF ShaTime
  <2> QED BY <1>1, <1>2, <1>4, <2>1, <2>3, AnswerTime
<1> QED BY <1>5, <1>6, <1>7, Zenon

\* The hash core stays in step, whatever comes on start, msg_in and the kill
\* line: one computation from its start to its answer, word by word.
THEOREM HashInvariant == Hash!Spec => []HashInv
PROOF
<1>1. Hash!Init => HashInv
  BY HashStarts
<1>2. HashInv /\ [Hash!Next]_(Hash!hmacVars) => HashInv'
  BY HashSteps
<1> QED BY <1>1, <1>2, PTL DEF Hash!Spec

LEMMA HashIsExact == HashInv => Hash!HmacExact /\ Hash!TypeOK
PROOF
<1> SUFFICES ASSUME HashInv PROVE Hash!HmacExact /\ Hash!TypeOK
  OBVIOUS
<1> USE HashSizes
<1>1. HashTypes /\ InStep
  BY Zenon DEF HashInv
<1>2. Hash!TypeOK
  BY <1>1 DEF Hash!TypeOK, HashTypes, HmacRegs, ShaRegs
<1>3. Hash!AnswerCycles \in Nat /\ Hash!AnswerCycles > 0
  BY AnswerTime
<1>4. CASE AtRest
  <2>1. hmac.hmac_valid = FALSE /\ hmac.busy = FALSE /\ since = 0
    BY <1>4, Zenon DEF AtRest, Strobes
  <2>2. ~(since = Hash!AnswerCycles) /\ ~(since > 0) /\ since <= Hash!AnswerCycles
    BY <1>3, <2>1
  <2> QED BY <1>2, <2>1, <2>2, Zenon DEF Hash!HmacExact
<1>5. CASE Answered
  <2>1. /\ hmac.hmac_valid = TRUE /\ hmac.busy = TRUE /\ since = 2 * HashTime + 1
        /\ hmac.hmac_out = <<"hmac", asked>>
    BY <1>5, Zenon DEF Answered, Strobes
  <2>2. since = Hash!AnswerCycles /\ since > 0 /\ since <= Hash!AnswerCycles
    BY <1>3, <2>1, AnswerTime
  <2> QED BY <1>2, <2>1, <2>2, Zenon DEF Hash!HmacExact
<1>6. CASE ~AtRest /\ ~Answered
  <2>1. /\ hmac.hmac_valid = FALSE /\ hmac.busy = TRUE
        /\ since > 0 /\ since < Hash!AnswerCycles
    BY <1>1, <1>6, UnderWay, Zenon DEF InStep
  <2>2. ~(since = Hash!AnswerCycles) /\ since <= Hash!AnswerCycles
    BY <1>1, <1>3, <2>1 DEF HashTypes
  <2> QED BY <1>2, <2>1, <2>2, Zenon DEF Hash!HmacExact
<1> QED BY <1>4, <1>5, <1>6

\* Every start that is taken is answered after the same number of edges with
\* the HMAC of its message: no word fed early, lost or taken twice, whatever
\* the block size, the rounds and the lengths (hmac_sha256, sha256_core).
THEOREM HashAnswersExactly == Hash!Spec => [](Hash!HmacExact /\ Hash!TypeOK)
PROOF BY HashInvariant, HashIsExact, PTL
=============================================================================
