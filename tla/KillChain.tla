------------------------------- MODULE KillChain -------------------------------
(* The kill chain of artix7_top_v14.vhd: the boot supervisor and self-test,  *)
(* the timers of the PolarFire watchdog, and kill_protocol, on one clock and *)
(* wired as in the top: global_rst resets the watchdog and the kill machine, *)
(* system_rdy opens the way for every source but the KILL_PIN.               *)
(*                                                                           *)
(* The nine digital sources other than the watchdog are one level, alarm,    *)
(* and the voted heartbeat is free.  The key area and the timers are shared  *)
(* constants of the three instances.                                         *)
EXTENDS Naturals

CONSTANTS PLL_STABLE_MIN, WAIT_CYCLES, SETTLE_CYCLES,
          TIMEOUT_CYCLES, MAX_FAIL_COUNT, GRACE_CYCLES,
          KEY_MEMORY_START, KEY_MEMORY_END, FACTORY_TIMEOUT,
          LivePins      \* the input pins that may change in this instance

Pins == {"KILL_PIN", "alarm", "JUMPER_CALIB", "pll_locked"}
ASSUME PinsAssumption == LivePins \subseteq Pins
ASSUME SizesAssumption ==
          /\ FACTORY_TIMEOUT \in Nat \ {0}
          /\ KEY_MEMORY_START \in Nat /\ KEY_MEMORY_END \in Nat
          /\ KEY_MEMORY_START <= KEY_MEMORY_END

VARIABLES KILL_PIN, alarm, JUMPER_CALIB, pll_locked,       \* inputs
          sup_state, timer_counter, pll_stable_cnt, system_rdy, global_rst,
          post_state, startup_cnt, post_pass, post_fail,
          lockedFor, tested,
          grace_counter, grace_done, timer_cnt, fail_counter, kill_latched,
          fsm, dead_latch, factory_timer, factory_expired,
          scrub_addr, scrub_pass, ram_addr, ram_data, ram_write_enable,
          system_halted, ram, overwrites, powered,
          cutFor   \* history: edges in a row, up to EraseTime, for which
                   \* nothing has been able to reach a killed machine

\* all_kill_sources and safe_kill of the top.
MutAllKillSources == KILL_PIN \/ alarm
all_kill_sources == KILL_PIN \/ kill_latched \/ alarm
MutSafeKill == all_kill_sources
safe_kill == KILL_PIN \/ (all_kill_sources /\ system_rdy)
global_rst_n == ~global_rst

Boot == INSTANCE BootSupervisor
Watchdog == INSTANCE WatchdogTimer WITH rst_n <- global_rst_n
Kill == INSTANCE KillProtocol
          WITH rst_n <- global_rst_n, kill_pin <- safe_kill,
               factory_mode <- JUMPER_CALIB

inputs == <<KILL_PIN, alarm, JUMPER_CALIB, pll_locked>>
boot == <<sup_state, timer_counter, pll_stable_cnt, system_rdy, global_rst,
          post_state, startup_cnt, post_pass, post_fail,
          lockedFor, tested>>
timer == <<grace_counter, grace_done, timer_cnt, fail_counter, kill_latched>>
killer == <<fsm, dead_latch, factory_timer, factory_expired, scrub_addr,
            scrub_pass, ram_addr, ram_data, ram_write_enable, system_halted,
            ram, overwrites, powered>>
vars == <<inputs, boot, timer, killer, cutFor>>

\* The pin is low and the gate is shut: no source reaches the kill machine.
CutOff == ~KILL_PIN /\ ~system_rdy
\* Edges of a full erasure: the start, four passes that each run one address
\* too far, and the stop.
EraseTime == 4 * (KEY_MEMORY_END - KEY_MEMORY_START + 2) + 2

TypeOK ==
  /\ KILL_PIN \in BOOLEAN /\ alarm \in BOOLEAN
  /\ Boot!TypeOK /\ Watchdog!TimerTypeOK /\ Kill!TypeOK
  /\ cutFor \in 0 .. EraseTime

\* Power-up with the jumper fitted or not; a pin that never changes is low,
\* except for the lock, which is then there from the start.
Init ==
  /\ KILL_PIN = FALSE /\ alarm = FALSE
  /\ JUMPER_CALIB \in (IF "JUMPER_CALIB" \in LivePins THEN BOOLEAN ELSE {FALSE})
  /\ pll_locked = ("pll_locked" \notin LivePins)
  /\ Boot!BootInit /\ Watchdog!TimerInit /\ Kill!PowerUp
  /\ cutFor = 0
-----------------------------------------------------------------------------
\* One edge of sys_clk: every process of the design steps together.
Tick ==
  /\ UNCHANGED inputs
  /\ \E answer \in BOOLEAN, verdict \in Boot!Verdicts : Boot!BootTick(answer, verdict)
  /\ \E edge \in BOOLEAN : Watchdog!TimerStep(edge)
  /\ Kill!Tick
  /\ cutFor' = IF dead_latch /\ CutOff /\ CutOff'
               THEN IF cutFor < EraseTime THEN cutFor + 1 ELSE cutFor
               ELSE 0

Change(pin) ==
  /\ pin \in LivePins
  /\ KILL_PIN' = IF pin = "KILL_PIN" THEN ~KILL_PIN ELSE KILL_PIN
  /\ alarm' = IF pin = "alarm" THEN ~alarm ELSE alarm
  /\ JUMPER_CALIB' = IF pin = "JUMPER_CALIB" THEN ~JUMPER_CALIB ELSE JUMPER_CALIB
  /\ pll_locked' = IF pin = "pll_locked" THEN ~pll_locked ELSE pll_locked

\* A pin changes between two edges; only the asynchronous kill branch reacts.
PinChange ==
  /\ \E pin \in Pins : Change(pin)
  /\ UNCHANGED <<boot, timer>>
  /\ Kill!Pins
  /\ cutFor' = IF CutOff' THEN cutFor ELSE 0

Next == Tick \/ PinChange
Spec == Init /\ [][Next]_vars
\* The oscillator runs.
FairSpec == Spec /\ WF_vars(Tick)
-----------------------------------------------------------------------------
\* No digital source can kill a system that has not passed its self-test in
\* this boot: until then only the KILL_PIN is heard (self-bricking).
NoKillBeforeTested ==
  [][~dead_latch /\ dead_latch' => KILL_PIN' \/ (system_rdy' /\ tested)]_vars

\* Once the system is not ready and the KILL_PIN is low, a kill that was taken
\* runs to its end in a fixed time: neither the reset the supervisor pulses at
\* an unlock, nor the new boot, nor a source that is still high delays or
\* repeats the erasure, and the board stands halted with its keys erased.
ErasedInTime ==
  cutFor = EraseTime => system_halted /\ \A a \in Kill!KeyArea : ram[a] = "zero"

\* A kill that the watchdog has latched is taken as soon as the system is
\* ready, and at the latest when the factory window closes.
WatchdogKillLands ==
  kill_latched /\ system_rdy /\ powered = FACTORY_TIMEOUT => dead_latch

\* What the documents promise of a kill: it ends in the erased, halted state.
EveryKillErases == dead_latch ~> system_halted
=============================================================================
