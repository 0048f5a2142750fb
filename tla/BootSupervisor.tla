---------------------------- MODULE BootSupervisor ----------------------------
(* system_supervisor.vhd and post_self_test.vhd on one clock: the supervisor *)
(* qualifies the PLL, waits for the voltage, releases global_rst so that the *)
(* self-test can run, and raises system_rdy when it passes; the self-test is *)
(* reset whenever global_rst is up.  Their outputs are registers, so each    *)
(* sees the other's answer one edge late.  The AES core the self-test drives *)
(* is external: busy for a while, then a right or a wrong ciphertext.        *)
EXTENDS Naturals

CONSTANTS PLL_STABLE_MIN,   \* ticks the PLL must stay locked
          WAIT_CYCLES,      \* ticks of voltage warm-up
          SETTLE_CYCLES     \* ticks the self-test waits in S_IDLE

BootConstants ==
          /\ PLL_STABLE_MIN \in Nat \ {0}
          /\ WAIT_CYCLES \in Nat \ {0}
          /\ SETTLE_CYCLES \in Nat

VARIABLES pll_locked,                                \* input port
          sup_state, timer_counter, pll_stable_cnt, system_rdy, global_rst,
          post_state, startup_cnt, post_pass, post_fail,
          lockedFor,   \* history: locked ticks in a row, capped
          tested       \* history: the self-test was right since the last reset

supervisor == <<sup_state, timer_counter, pll_stable_cnt, system_rdy, global_rst>>
post == <<post_state, startup_cnt, post_pass, post_fail>>
history == <<lockedFor, tested>>
bootVars == <<supervisor, post, history>>
vars == <<pll_locked, bootVars>>

\* Ticks of steady lock without which the system never becomes ready.
Settling == PLL_STABLE_MIN + WAIT_CYCLES

SupStates == {"WAIT_PLL_LOCK", "PLL_QUALIFY", "WARMUP", "POST_CHECK",
              "SYSTEM_ACTIVE", "FAIL_SAFE"}
PostStates == {"S_IDLE", "S_LOAD_KEY", "S_WAIT_KEY", "S_START_AES",
               "S_WAIT_AES", "S_COMPARE", "S_PASS", "S_FAIL"}
Verdicts == {"right", "wrong"}

TypeOK ==
  /\ pll_locked \in BOOLEAN
  /\ sup_state \in SupStates
  /\ timer_counter \in 0 .. WAIT_CYCLES
  /\ pll_stable_cnt \in 0 .. PLL_STABLE_MIN
  /\ system_rdy \in BOOLEAN /\ global_rst \in BOOLEAN
  /\ post_state \in PostStates
  /\ startup_cnt \in 0 .. SETTLE_CYCLES
  /\ post_pass \in BOOLEAN /\ post_fail \in BOOLEAN
  /\ lockedFor \in 0 .. Settling
  /\ tested \in BOOLEAN

\* After the first edge the output registers hold what WAIT_PLL_LOCK assigns.
BootInit ==
  /\ sup_state = "WAIT_PLL_LOCK" /\ timer_counter = 0 /\ pll_stable_cnt = 0
  /\ system_rdy = FALSE /\ global_rst = TRUE
  /\ post_state = "S_IDLE" /\ startup_cnt = 0
  /\ post_pass = FALSE /\ post_fail = FALSE
  /\ lockedFor = 0 /\ tested = FALSE

Init == BootInit /\ pll_locked = FALSE
-----------------------------------------------------------------------------
Outputs(rdy, rst) == system_rdy' = rdy /\ global_rst' = rst
ClearCounters == timer_counter' = 0 /\ pll_stable_cnt' = 0
KeepCounters == UNCHANGED <<timer_counter, pll_stable_cnt>>

WaitPllLock ==
  /\ sup_state = "WAIT_PLL_LOCK"
  /\ Outputs(FALSE, TRUE) /\ ClearCounters
  /\ sup_state' = IF pll_locked THEN "PLL_QUALIFY" ELSE sup_state

MutPllQualify ==
  /\ sup_state = "PLL_QUALIFY"
  /\ Outputs(FALSE, TRUE)
  /\ UNCHANGED timer_counter
  /\ pll_stable_cnt' = pll_stable_cnt + 1
  /\ sup_state' = IF ~pll_locked THEN "WAIT_PLL_LOCK"
                  ELSE IF pll_stable_cnt >= PLL_STABLE_MIN THEN "WARMUP"
                  ELSE sup_state
PllQualify ==
  /\ sup_state = "PLL_QUALIFY"
  /\ Outputs(FALSE, TRUE)
  /\ UNCHANGED timer_counter
  /\ \/ ~pll_locked /\ sup_state' = "WAIT_PLL_LOCK" /\ UNCHANGED pll_stable_cnt
     \/ /\ pll_locked /\ pll_stable_cnt >= PLL_STABLE_MIN
        /\ sup_state' = "WARMUP" /\ UNCHANGED pll_stable_cnt
     \/ /\ pll_locked /\ pll_stable_cnt < PLL_STABLE_MIN
        /\ pll_stable_cnt' = pll_stable_cnt + 1 /\ UNCHANGED sup_state

Warmup ==
  /\ sup_state = "WARMUP"
  /\ Outputs(FALSE, TRUE)
  /\ UNCHANGED pll_stable_cnt
  /\ \/ ~pll_locked /\ sup_state' = "FAIL_SAFE" /\ UNCHANGED timer_counter
     \/ /\ pll_locked /\ timer_counter < WAIT_CYCLES
        /\ timer_counter' = timer_counter + 1 /\ UNCHANGED sup_state
     \/ /\ pll_locked /\ timer_counter = WAIT_CYCLES
        /\ sup_state' = "POST_CHECK" /\ UNCHANGED timer_counter

PostCheck ==
  /\ sup_state = "POST_CHECK"
  /\ Outputs(FALSE, FALSE) /\ KeepCounters
  /\ sup_state' = IF ~pll_locked THEN "FAIL_SAFE"
                  ELSE IF post_pass THEN "SYSTEM_ACTIVE"
                  ELSE IF post_fail THEN "FAIL_SAFE" ELSE sup_state

SystemActive ==
  /\ sup_state = "SYSTEM_ACTIVE"
  /\ Outputs(TRUE, FALSE) /\ KeepCounters
  /\ sup_state' = IF pll_locked THEN sup_state ELSE "FAIL_SAFE"

MutFailSafeKeepsTimers ==
  /\ sup_state = "FAIL_SAFE"
  /\ Outputs(FALSE, TRUE) /\ KeepCounters
  /\ sup_state' = IF pll_locked THEN "PLL_QUALIFY" ELSE sup_state
MutFailSafeStuck ==
  /\ sup_state = "FAIL_SAFE"
  /\ Outputs(FALSE, TRUE) /\ ClearCounters
  /\ UNCHANGED sup_state
FailSafe ==
  /\ sup_state = "FAIL_SAFE"
  /\ Outputs(FALSE, TRUE) /\ ClearCounters
  /\ sup_state' = IF pll_locked THEN "PLL_QUALIFY" ELSE sup_state

SupervisorStep ==
  WaitPllLock \/ PllQualify \/ Warmup \/ PostCheck \/ SystemActive \/ FailSafe
-----------------------------------------------------------------------------
MutPostReset == global_rst /\ UNCHANGED post
PostReset ==
  /\ global_rst
  /\ post_state' = "S_IDLE" /\ startup_cnt' = 0
  /\ post_pass' = FALSE /\ post_fail' = FALSE

PostIdle ==
  /\ post_state = "S_IDLE"
  /\ post_pass' = FALSE /\ post_fail' = FALSE
  /\ IF startup_cnt >= SETTLE_CYCLES
     THEN post_state' = "S_LOAD_KEY" /\ UNCHANGED startup_cnt
     ELSE startup_cnt' = startup_cnt + 1 /\ UNCHANGED post_state

PostMoves(state) ==
  post_state' = state /\ UNCHANGED <<startup_cnt, post_pass, post_fail>>

PostLoadKey == post_state = "S_LOAD_KEY" /\ PostMoves("S_WAIT_KEY")

\* The AES core answers (kat_busy low, then kat_done) or makes the test wait.
PostWaits(answer) ==
  \/ /\ post_state = "S_WAIT_KEY"
     /\ PostMoves(IF answer THEN "S_START_AES" ELSE post_state)
  \/ /\ post_state = "S_START_AES"
     /\ PostMoves(IF answer THEN "S_WAIT_AES" ELSE post_state)
  \/ /\ post_state = "S_WAIT_AES"
     /\ PostMoves(IF answer THEN "S_COMPARE" ELSE post_state)

PostCompare(verdict) ==
  /\ post_state = "S_COMPARE"
  /\ PostMoves(IF verdict = "right" THEN "S_PASS" ELSE "S_FAIL")

PostPass ==
  /\ post_state = "S_PASS"
  /\ post_pass' = TRUE /\ post_fail' = FALSE
  /\ UNCHANGED <<post_state, startup_cnt>>

PostFail ==
  /\ post_state = "S_FAIL"
  /\ post_pass' = FALSE /\ post_fail' = TRUE
  /\ UNCHANGED <<post_state, startup_cnt>>

PostStep(answer, verdict) ==
  \/ PostReset
  \/ /\ ~global_rst
     /\ \/ PostIdle \/ PostLoadKey \/ PostWaits(answer)
        \/ PostCompare(verdict) \/ PostPass \/ PostFail
-----------------------------------------------------------------------------
HistoryStep ==
  /\ lockedFor' = IF ~pll_locked THEN 0
                  ELSE IF lockedFor < Settling THEN lockedFor + 1 ELSE lockedFor
  /\ tested' = IF sup_state \in {"WAIT_PLL_LOCK", "FAIL_SAFE"} THEN FALSE
               ELSE tested \/ (post_state # "S_PASS" /\ post_state' = "S_PASS")

\* One rising edge; the lock may change before the next one.
BootTick(answer, verdict) ==
  SupervisorStep /\ PostStep(answer, verdict) /\ HistoryStep

Tick(answer) ==
  /\ \E verdict \in Verdicts : BootTick(answer, verdict)
  /\ pll_locked' \in BOOLEAN

Next == \E answer \in BOOLEAN : Tick(answer)
Spec == Init /\ [][Next]_vars
\* The clock runs and the AES core does not stay silent for ever; nothing is
\* assumed of the lock (hence the registers alone as the subscript).
FairSpec == Spec /\ WF_bootVars(Tick(TRUE))
-----------------------------------------------------------------------------
Releases == global_rst /\ ~global_rst'
Activates == ~system_rdy /\ system_rdy'

\* The board's reset is released, and ready is raised, only after the PLL was
\* locked without a break for the whole qualification and warm-up, whatever
\* glitches and attempts came before (FAIL_SAFE clears both timers).
ReleasedMeansSettled == [][Releases \/ Activates => lockedFor = Settling]_vars

\* Ready is raised only on a self-test of this boot: an answer from before the
\* last unlock is never taken for a new one.
ReadyMeansTested == [][Activates => tested]_vars

\* With a lock that lasts, the boot ends: the system is ready or the self-test
\* has failed, and it gets there again after every failure.
BootCompletes == <>[]pll_locked => []<>(system_rdy \/ post_fail)
==============================================================================
