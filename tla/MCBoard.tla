------------------------------- MODULE MCBoard -------------------------------
(* The machines of the board, each alone: kill_protocol on a key area of     *)
(* three addresses and a mask of two ticks, the watchdog with a timeout of   *)
(* two ticks, three failures and a grace period of two, the boot sequence    *)
(* with a PLL filter and a warm-up of three ticks, the heartbeat of the two  *)
(* FPGAs for two rounds, the hash core behind it at its full size and the    *)
(* MCU for eight seconds and two restarts.  One of them runs in each         *)
(* behaviour; KillChain composes the first three.                            *)
EXTENDS KillProtocol

CONSTANTS TIMEOUT_CYCLES, MAX_FAIL_COUNT, GRACE_CYCLES,
          PLL_STABLE_MIN, WAIT_CYCLES, SETTLE_CYCLES,
          INTERVAL_CYCLES, RESP_TIMEOUT, MaxDelay, HmacCycles, MaxRounds,
          BlockWords, Rounds, MsgWords, HashWords, Messages,
          PIN_MAX_ATTEMPTS, PIN_LOCKOUT_TIER1, PIN_LOCKOUT_TIER2,
          LOCKOUT_T1, LOCKOUT_T2, DEAD_MAN_WARN_SEC, DEAD_MAN_KILL_SEC,
          DuressDelay, BindWords, KP_EVENT_QUEUE, MaxTick, MaxRestarts

VARIABLES subject,
          wd_rst_n, target_heartbeat, heartbeat_sync, vote_shift, vote_result,
          last_heartbeat, grace_counter, grace_done, timer_cnt, fail_counter,
          kill_latched, held, regular, armed,
          pll_locked, sup_state, timer_counter, pll_stable_cnt, system_rdy,
          global_rst, post_state, startup_cnt, post_pass, post_fail,
          lockedFor, tested,
          ctrl, core, response, resp, resp_core, drawn, fetched, tags, last, age,
          crossed, hmac, sha, asked, since,
          bkp, at, delay, pin, bound, queue, dm, tick, turned, wake, killed,
          restarts, guesses, why

Watchdog == INSTANCE WatchdogMonitor WITH rst_n <- wd_rst_n
Boot == INSTANCE BootSupervisor
Heartbeat == INSTANCE HmacHeartbeat
Hash == INSTANCE HmacCore
Mcu == INSTANCE CallWhite

ASSUME TimerSizes ==
  /\ Watchdog!MonitorConstants /\ Boot!BootConstants
  /\ Heartbeat!HeartbeatConstants /\ Hash!HmacConstants /\ Mcu!CallWhiteConstants

killVars == <<kill_pin, factory_mode, rst_n, fsm, dead_latch, factory_timer,
              factory_expired, scrub_addr, scrub_pass, ram_addr, ram_data,
              ram_write_enable, system_halted, ram, overwrites, powered>>
watchdogVars ==
  <<wd_rst_n, target_heartbeat, heartbeat_sync, vote_shift, vote_result,
    last_heartbeat, grace_counter, grace_done, timer_cnt, fail_counter,
    kill_latched, held, regular, armed>>
postVars == <<sup_state, timer_counter, pll_stable_cnt, system_rdy, global_rst,
              post_state, startup_cnt, post_pass, post_fail, lockedFor, tested>>

heartbeatVars == <<ctrl, core, response, resp, resp_core, drawn, fetched, tags,
                   last, age, crossed>>
hashVars == <<hmac, sha, asked, since>>
mcuVars == <<bkp, at, delay, pin, bound, queue, dm, tick, turned, wake, killed,
             restarts, guesses, why>>
hdlVars == <<killVars, watchdogVars, pll_locked, postVars, heartbeatVars, hashVars>>

BoardInit ==
  /\ subject \in {"kill", "watchdog", "boot", "heartbeat", "hash", "mcu"}
  /\ Init /\ Watchdog!Init /\ Boot!Init /\ Heartbeat!Init /\ Hash!Init /\ Mcu!Init
  /\ subject # "kill" => ~factory_mode

HdlStep ==
  /\ UNCHANGED mcuVars
  /\ \/ subject = "kill" /\ Next
        /\ UNCHANGED <<watchdogVars, pll_locked, postVars, heartbeatVars, hashVars>>
     \/ subject = "watchdog" /\ Watchdog!Next
        /\ UNCHANGED <<killVars, pll_locked, postVars, heartbeatVars, hashVars>>
     \/ subject = "boot" /\ Boot!Next
        /\ UNCHANGED <<killVars, watchdogVars, heartbeatVars, hashVars>>
     \/ subject = "heartbeat" /\ Heartbeat!Next
        /\ UNCHANGED <<killVars, watchdogVars, pll_locked, postVars, hashVars>>
     \/ subject = "hash" /\ Hash!Next
        /\ UNCHANGED <<killVars, watchdogVars, pll_locked, postVars, heartbeatVars>>

McuStep == subject = "mcu" /\ Mcu!Next /\ UNCHANGED hdlVars

BoardNext == UNCHANGED subject /\ (HdlStep \/ McuStep)

BoardSpec == BoardInit /\ [][BoardNext]_<<subject, hdlVars, mcuVars>>

\* The oscillator runs, and the AES core does not stay silent for ever.
FairBoardSpec ==
  /\ BoardSpec
  /\ WF_killVars(subject = "kill" /\ ClockEdge)
  /\ WF_postVars(subject = "boot" /\ Boot!Tick(TRUE))
-----------------------------------------------------------------------------
TypesOK ==
  /\ TypeOK /\ Watchdog!TypeOK /\ Boot!TypeOK
  /\ Heartbeat!TypeOK /\ Hash!TypeOK /\ Mcu!TypeOK

\* A line that beats is never taken for dead, and one that stays still is.
WatchdogExact == Watchdog!BeatingLineLives /\ Watchdog!StillLineKills

\* Reset is released and ready raised only settled and freshly tested.
BootGates == Boot!ReleasedMeansSettled /\ Boot!ReadyMeansTested

\* A kill whose level falls for good is completed, and a lock that lasts ends
\* the boot.
GetsDone ==
  /\ subject = "kill" => KillCompletes
  /\ subject = "boot" => Boot!BootCompletes

\* The verdict on the other FPGA is earned by an answer to the last challenge,
\* it does not outlive a round, a ready tag answers the last challenge but for
\* one that crossed, and the hash core answers every start with the HMAC of
\* the message it was given, after the same number of edges each time.
HeartbeatExact ==
  /\ Heartbeat!OkIsEarned /\ Heartbeat!OkIsRecent /\ Heartbeat!TagOfChallenge
  /\ Hash!HmacExact

\* The MCU counts wrong PINs across restarts, kills for a reason only, misses
\* no absence of its operator but behind a key left in its queue, and is reset
\* by its watchdog only where it waits.
CallWhiteExact ==
  /\ Mcu!GuessesCounted /\ Mcu!KillsAreDue
  /\ Mcu!DeadManExact /\ Mcu!LoopsSurvive
==============================================================================
