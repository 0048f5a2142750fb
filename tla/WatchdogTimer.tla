---------------------------- MODULE WatchdogTimer ----------------------------
(* watchdog_monitor.vhd without its input filter: the boot grace counter,    *)
(* the timeout timer, the count of consecutive timeouts and the kill latch,  *)
(* driven by "the voted heartbeat changed on this clock edge".  The reset is *)
(* asynchronous; the owner of rst_n says what it is after each edge.         *)
EXTENDS Naturals

CONSTANTS TIMEOUT_CYCLES,   \* ticks without a beat that make one failure
          MAX_FAIL_COUNT,   \* consecutive failures that kill
          GRACE_CYCLES      \* ticks after reset in which no failure counts

WatchdogConstants ==
          /\ TIMEOUT_CYCLES \in Nat \ {0}
          /\ MAX_FAIL_COUNT \in Nat \ {0}
          /\ GRACE_CYCLES \in Nat \ {0}

VARIABLES rst_n,            \* input port
          grace_counter, grace_done, timer_cnt, fail_counter, kill_latched

timer == <<grace_counter, grace_done, timer_cnt, fail_counter, kill_latched>>

TimerTypeOK ==
  /\ rst_n \in BOOLEAN
  /\ grace_counter \in 0 .. GRACE_CYCLES
  /\ grace_done \in BOOLEAN
  /\ timer_cnt \in 0 .. TIMEOUT_CYCLES
  /\ fail_counter \in 0 .. MAX_FAIL_COUNT
  /\ kill_latched \in BOOLEAN

TimerInit ==
  /\ grace_counter = 0 /\ grace_done = FALSE
  /\ timer_cnt = 0 /\ fail_counter = 0 /\ kill_latched = FALSE

GraceStep ==
  IF grace_done THEN UNCHANGED <<grace_counter, grace_done>>
  ELSE IF grace_counter = GRACE_CYCLES - 1
       THEN grace_done' = TRUE /\ UNCHANGED grace_counter
       ELSE grace_counter' = grace_counter + 1 /\ UNCHANGED grace_done

MutBeat == timer_cnt' = 0 /\ UNCHANGED <<fail_counter, kill_latched>>
\* The heartbeat changed: both counters start again.
Beat == timer_cnt' = 0 /\ fail_counter' = 0 /\ UNCHANGED kill_latched

MutWaiting ==
  /\ timer_cnt <= TIMEOUT_CYCLES
  /\ timer_cnt' = timer_cnt + 1
  /\ UNCHANGED <<fail_counter, kill_latched>>
Waiting ==
  /\ timer_cnt < TIMEOUT_CYCLES
  /\ timer_cnt' = timer_cnt + 1
  /\ UNCHANGED <<fail_counter, kill_latched>>

\* A timeout in the grace period, or after the kill, changes nothing.
TimeoutIgnored ==
  /\ timer_cnt = TIMEOUT_CYCLES
  /\ ~grace_done \/ kill_latched
  /\ UNCHANGED <<timer_cnt, fail_counter, kill_latched>>

MutTimeoutCounted ==
  /\ timer_cnt = TIMEOUT_CYCLES
  /\ grace_done /\ ~kill_latched
  /\ IF fail_counter < MAX_FAIL_COUNT
     THEN /\ fail_counter' = fail_counter + 1
          /\ timer_cnt' = 0
          /\ UNCHANGED kill_latched
     ELSE kill_latched' = TRUE /\ UNCHANGED <<timer_cnt, fail_counter>>
TimeoutCounted ==
  /\ timer_cnt = TIMEOUT_CYCLES
  /\ grace_done /\ ~kill_latched
  /\ IF fail_counter < MAX_FAIL_COUNT - 1
     THEN /\ fail_counter' = fail_counter + 1
          /\ timer_cnt' = 0
          /\ UNCHANGED kill_latched
     ELSE kill_latched' = TRUE /\ UNCHANGED <<timer_cnt, fail_counter>>

\* Reset, asserted on this edge or by it, holds every register at zero.
TimerReset ==
  /\ grace_counter' = 0 /\ grace_done' = FALSE
  /\ timer_cnt' = 0 /\ fail_counter' = 0 /\ kill_latched' = FALSE

TimerStep(edge) ==
  IF ~rst_n \/ ~rst_n' THEN TimerReset
  ELSE /\ GraceStep
       /\ IF edge THEN Beat ELSE Waiting \/ TimeoutIgnored \/ TimeoutCounted
=============================================================================
