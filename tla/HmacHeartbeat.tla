---------------------------- MODULE HmacHeartbeat ----------------------------
(* hmac_heartbeat_ctrl.vhd on the Artix and pf_hmac_responder.vhd on the     *)
(* PolarFire, each with its hmac_sha256 core and its own clock.  Between     *)
(* them lie the command slave of the Artix (spi_cmd_slave.vhd) and a master  *)
(* that relays whatever it has seen, late, twice or never.  A challenge is   *)
(* its nonce and counter, a tag is the challenge it answers.                 *)
EXTENDS Naturals

CONSTANTS INTERVAL_CYCLES, RESP_TIMEOUT,
          MaxDelay,       \* bound: cycles of the random wait, 32..287
          HmacCycles,     \* cycles one HMAC keeps the core busy, 653
          MaxRounds       \* bound: nonces drawn

HeartbeatConstants ==
  /\ {INTERVAL_CYCLES, RESP_TIMEOUT, MaxDelay, MaxRounds} \subseteq Nat \ {0}
  /\ HmacCycles \in Nat \ {0, 1}

VARIABLES
  ctrl,       \* the registers of hmac_heartbeat_ctrl
  core,       \* its hmac_sha256
  response,   \* hmac_response_out and _valid of the command slave
  resp,       \* the registers of pf_hmac_responder
  resp_core,  \* its hmac_sha256
  drawn,      \* nonces drawn so far: no value of the TRNG repeats
  fetched,    \* the challenges the master was given
  tags,       \* the tags the master read
  last,       \* history: the challenge of the last round that ended
  age,        \* history: edges since hb_ok was earned, but for a silent TRNG
  crossed     \* history: what the responder did when its challenge arrived

heartbeatVars == <<ctrl, core, response, resp, resp_core, drawn, fetched, tags,
                   last, age, crossed>>

Zero == [nonce |-> 0, counter |-> 0]
Challenges == [nonce : 0 .. MaxRounds, counter : 0 .. MaxRounds]

------------------------------------------------------------------------------
(* hmac_sha256: start is seen only when idle; hmac_valid is high in H_DONE,  *)
(* the last cycle of the computation, which does not see start either.       *)
CoreIdle == [left |-> 0, msg |-> Zero]
Valid(c) == c.left = 1

CoreStep(c, start, msg) ==
  IF c.left > 0 THEN [c EXCEPT !.left = @ - 1]
  ELSE IF start THEN [left |-> HmacCycles, msg |-> msg]
  ELSE c

------------------------------------------------------------------------------
(* The controller, one operator per state; hmac_msg and challenge_out repeat *)
(* nonce and counter, which do not change before the next round.             *)
CtrlReset ==
  [state |-> "HB_IDLE", interval_cnt |-> 0, resp_timer |-> 0, random_delay_cnt |-> 0,
   nonce_words |-> 0, nonce |-> 0, counter |-> 0, our_tag |-> Zero,
   hb_ok_reg |-> FALSE, hb_fail_reg |-> FALSE,
   hmac_start |-> FALSE, challenge_valid |-> FALSE]

Challenge == [nonce |-> ctrl.nonce, counter |-> ctrl.counter]

HbIdle(c, delay) ==
  IF c.interval_cnt >= INTERVAL_CYCLES - 1
  THEN [c EXCEPT !.interval_cnt = 0, !.state = "HB_RANDOM_WAIT",
                 !.random_delay_cnt = delay, !.nonce_words = 0]
  ELSE [c EXCEPT !.interval_cnt = @ + 1]

HbRandomWait(c) ==
  IF c.random_delay_cnt <= 1 THEN [c EXCEPT !.state = "HB_GET_NONCE"]
  ELSE [c EXCEPT !.random_delay_cnt = @ - 1]

HbGetNonce(c, trng_valid) ==
  IF ~trng_valid THEN c
  ELSE IF c.nonce_words = 0 THEN [c EXCEPT !.nonce_words = 1]
  ELSE [c EXCEPT !.nonce = drawn + 1, !.counter = @ + 1, !.state = "HB_COMPUTE"]

HbCompute(c) == [c EXCEPT !.hmac_start = TRUE, !.state = "HB_WAIT_HMAC"]

(* Mutant: the result is taken without waiting for it. *)
MutWaitHmac(c) == [c EXCEPT !.our_tag = core.msg, !.state = "HB_SEND_CHALLENGE"]

HbWaitHmac(c) ==
  IF Valid(core) THEN [c EXCEPT !.our_tag = core.msg, !.state = "HB_SEND_CHALLENGE"]
  ELSE c

HbSendChallenge(c) ==
  [c EXCEPT !.challenge_valid = TRUE, !.resp_timer = 0, !.state = "HB_WAIT_RESPONSE"]

(* Mutant: a round without an answer leaves the last verdict standing. *)
MutWaitResponse(c) ==
  IF response.valid THEN [c EXCEPT !.state = "HB_VERIFY"]
  ELSE IF c.resp_timer >= RESP_TIMEOUT - 1 THEN [c EXCEPT !.state = "HB_DONE"]
  ELSE [c EXCEPT !.resp_timer = @ + 1]

HbWaitResponse(c) ==
  IF response.valid THEN [c EXCEPT !.state = "HB_VERIFY"]
  ELSE IF c.resp_timer >= RESP_TIMEOUT - 1
  THEN [c EXCEPT !.hb_fail_reg = TRUE, !.hb_ok_reg = FALSE, !.state = "HB_DONE"]
  ELSE [c EXCEPT !.resp_timer = @ + 1]

HbVerify(c) ==
  LET match == c.our_tag = response.tag
  IN [c EXCEPT !.hb_ok_reg = match, !.hb_fail_reg = ~match, !.state = "HB_DONE"]

HbDone(c) == [c EXCEPT !.state = "HB_IDLE"]

CtrlStep(trng_valid, delay) ==
  LET c == [ctrl EXCEPT !.hmac_start = FALSE, !.challenge_valid = FALSE]
  IN CASE c.state = "HB_IDLE" -> HbIdle(c, delay)
       [] c.state = "HB_RANDOM_WAIT" -> HbRandomWait(c)
       [] c.state = "HB_GET_NONCE" -> HbGetNonce(c, trng_valid)
       [] c.state = "HB_COMPUTE" -> HbCompute(c)
       [] c.state = "HB_WAIT_HMAC" -> HbWaitHmac(c)
       [] c.state = "HB_SEND_CHALLENGE" -> HbSendChallenge(c)
       [] c.state = "HB_WAIT_RESPONSE" -> HbWaitResponse(c)
       [] c.state = "HB_VERIFY" -> HbVerify(c)
       [] c.state = "HB_DONE" -> HbDone(c)

------------------------------------------------------------------------------
(* The command slave in the cycle it carries out a command, if any.  The     *)
(* challenge is handed out only in the cycle challenge_valid is high.        *)
NoCommand ==
  /\ response' = [response EXCEPT !.valid = FALSE]
  /\ UNCHANGED fetched

CmdHbChallenge ==
  /\ response' = [response EXCEPT !.valid = FALSE]
  /\ ctrl.challenge_valid
  /\ fetched' = fetched \cup {Challenge}

\* Two frames are further apart than one cycle.
CmdHeartbeat ==
  /\ ~response.valid
  /\ \E tag \in tags \cup {Zero} : response' = [valid |-> TRUE, tag |-> tag]
  /\ UNCHANGED fetched

------------------------------------------------------------------------------
Ending == ctrl.state # "HB_DONE" /\ ctrl'.state = "HB_DONE"

CtrlHistory ==
  /\ last' = IF Ending THEN Challenge ELSE last
  /\ age' = IF ~ctrl'.hb_ok_reg \/ Ending THEN 0
            ELSE IF ctrl.state = "HB_GET_NONCE" /\ ctrl' = ctrl THEN age
            ELSE age + 1

CtrlEdge ==
  /\ \E trng_valid \in BOOLEAN, delay \in 1 .. MaxDelay :
       /\ trng_valid => drawn < MaxRounds
       /\ ctrl' = CtrlStep(trng_valid, delay)
       /\ drawn' = IF ctrl'.counter # ctrl.counter THEN drawn + 1 ELSE drawn
  /\ core' = CoreStep(core, ctrl.hmac_start, Challenge)
  /\ NoCommand \/ CmdHbChallenge \/ CmdHeartbeat
  /\ CtrlHistory
  /\ UNCHANGED <<resp, resp_core, tags, crossed>>

(* rst_n, or a kill, which clears the counter too. *)
CtrlResets ==
  /\ ctrl' = CtrlReset /\ core' = CoreIdle /\ age' = 0
  /\ response' = [response EXCEPT !.valid = FALSE]
  /\ UNCHANGED <<resp, resp_core, drawn, fetched, tags, last, crossed>>

------------------------------------------------------------------------------
(* The responder; hmac_msg repeats challenge_reg.                            *)
RespReset ==
  [state |-> "RS_IDLE", challenge_reg |-> Zero, tag_reg |-> Zero,
   ready_reg |-> FALSE, hmac_start |-> FALSE]

(* Mutant: a new challenge leaves the old tag on offer. *)
MutTake(r, c) == [r EXCEPT !.challenge_reg = c, !.hmac_start = TRUE]

(* What every state does with a new challenge. *)
Take(r, c) == [r EXCEPT !.challenge_reg = c, !.hmac_start = TRUE, !.ready_reg = FALSE]

(* RS_COMPUTING stores the result first: a challenge of the same cycle takes *)
(* ready_reg back, and the state is RS_READY all the same.                   *)
RsComputing(r) ==
  IF Valid(resp_core)
  THEN [r EXCEPT !.tag_reg = resp_core.msg, !.ready_reg = TRUE, !.state = "RS_READY"]
  ELSE r

RespQuiet == [resp EXCEPT !.hmac_start = FALSE]
Computed == IF resp.state = "RS_COMPUTING" THEN RsComputing(RespQuiet) ELSE RespQuiet

RespStep(r, c) ==
  IF r.state = "RS_COMPUTING" THEN Take(Computed, c)
  ELSE [Take(r, c) EXCEPT !.state = "RS_COMPUTING"]

(* What the core is doing when the challenge arrives. *)
Crossing ==
  IF Valid(resp_core) THEN IF resp.state = "RS_COMPUTING" THEN "result" ELSE "nothing"
  ELSE IF resp.hmac_start \/ resp_core.left > 0 THEN "computation"
  ELSE "nothing"

RespEdge ==
  /\ resp_core' = CoreStep(resp_core, resp.hmac_start, resp.challenge_reg)
  /\ \/ resp' = Computed /\ UNCHANGED crossed
     \/ \E c \in fetched : resp' = RespStep(RespQuiet, c) /\ crossed' = Crossing
  /\ UNCHANGED <<ctrl, core, response, drawn, fetched, tags, last, age>>

RespResets ==
  /\ resp' = RespReset /\ resp_core' = CoreIdle /\ crossed' = "nothing"
  /\ UNCHANGED <<ctrl, core, response, drawn, fetched, tags, last, age>>

MasterReadsTag ==
  /\ resp.ready_reg
  /\ tags' = tags \cup {resp.tag_reg}
  /\ UNCHANGED <<ctrl, core, response, resp, resp_core, drawn, fetched, last, age, crossed>>

------------------------------------------------------------------------------
Init ==
  /\ ctrl = CtrlReset /\ core = CoreIdle /\ resp = RespReset /\ resp_core = CoreIdle
  /\ response = [valid |-> FALSE, tag |-> Zero]
  /\ drawn = 0 /\ fetched = {} /\ tags = {}
  /\ last = Zero /\ age = 0 /\ crossed = "nothing"

Next == CtrlEdge \/ CtrlResets \/ RespEdge \/ RespResets \/ MasterReadsTag
Spec == Init /\ [][Next]_heartbeatVars

------------------------------------------------------------------------------
TypeOK ==
  /\ ctrl.interval_cnt \in 0 .. INTERVAL_CYCLES - 1
  /\ ctrl.resp_timer \in 0 .. RESP_TIMEOUT - 1
  /\ Challenge \in Challenges /\ ctrl.our_tag \in Challenges
  /\ core.left \in 0 .. HmacCycles /\ resp_core.left \in 0 .. HmacCycles
  /\ fetched \cup tags \subseteq Challenges /\ drawn \in 0 .. MaxRounds

(* heartbeat_ok stands only while the last round to end was answered with    *)
(* its own tag, which the responder computed from a challenge the master     *)
(* took in the one cycle it was on offer: a round whose challenge was missed *)
(* never counts, whatever old tag comes instead, and nor does a kill's or a  *)
(* reset's repeated counter (hmac_heartbeat_ctrl.vhd 237-291).               *)
OkIsEarned ==
  /\ ctrl.hb_ok_reg => last \in tags /\ ~ctrl.hb_fail_reg
  /\ tags \subseteq fetched

(* It stands for one more round at most, not counting the cycles the TRNG    *)
(* stays silent, for which the state machine waits without a limit (207).    *)
RoundLength ==
  1 + INTERVAL_CYCLES + MaxDelay + 2 + 1 + HmacCycles + 1 + 1 + RESP_TIMEOUT
OkIsRecent == age <= RoundLength

(* A ready tag answers the challenge the responder was given last, and once  *)
(* the core is still that tag is ready, unless the challenge crossed: during *)
(* a computation it is never computed and the old tag is offered in its      *)
(* place, in the cycle of a result its tag is never offered                  *)
(* (pf_hmac_responder.vhd 139-181).                                          *)
TagOfChallenge ==
  /\ resp.ready_reg => resp.tag_reg = resp.challenge_reg \/ crossed = "computation"
  /\ resp.state # "RS_IDLE" /\ resp_core.left = 0 /\ ~resp.hmac_start =>
       (resp.ready_reg <=> crossed # "result")
==============================================================================
