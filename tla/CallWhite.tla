------------------------------ MODULE CallWhite ------------------------------
(* The firmware of the Call-White MCU from its reset to its main loop:       *)
(* main.c with boot_pin.h, operator_bind.h, dead_man.h, mcu_watchdog.h,      *)
(* pvd_kill.h and the event queue of keypad.h.  Time is in seconds, and the  *)
(* TPL5010 pulses WAKE once in each; the backup registers survive a restart  *)
(* and RAM does not.  A typed PIN with its '#' is one event of the queue.    *)
EXTENDS Naturals, Sequences

CONSTANTS PIN_MAX_ATTEMPTS, PIN_LOCKOUT_TIER1, PIN_LOCKOUT_TIER2,
          LOCKOUT_T1, LOCKOUT_T2, DEAD_MAN_WARN_SEC, DEAD_MAN_KILL_SEC,
          DuressDelay,            \* HAL_Delay(3000)
          BindWords,              \* the eight registers of the binding
          KP_EVENT_QUEUE,         \* here in entries
          MaxTick, MaxRestarts    \* bounds: seconds since the reset, restarts

\* HAL_Delay(3000) outlasts the two WAKEs the TPL5010 lets pass.
CallWhiteConstants ==
  /\ {PIN_MAX_ATTEMPTS, PIN_LOCKOUT_TIER1, PIN_LOCKOUT_TIER2, LOCKOUT_T1, LOCKOUT_T2,
      DEAD_MAN_WARN_SEC, DEAD_MAN_KILL_SEC, DuressDelay, BindWords, KP_EVENT_QUEUE,
      MaxTick, MaxRestarts} \subseteq Nat
  /\ 2 < DuressDelay
  /\ 0 < PIN_LOCKOUT_TIER1 /\ PIN_LOCKOUT_TIER1 < PIN_LOCKOUT_TIER2
  /\ PIN_LOCKOUT_TIER2 < PIN_MAX_ATTEMPTS
  /\ 0 < LOCKOUT_T1 /\ LOCKOUT_T1 < LOCKOUT_T2
  /\ 0 < DEAD_MAN_WARN_SEC /\ DEAD_MAN_WARN_SEC < DEAD_MAN_KILL_SEC
  /\ 1 < BindWords

VARIABLES
  bkp,       \* backup registers: attempts, whether a PIN is stored, and how
             \* many words of the binding
  at,        \* where the program is
  delay,     \* seconds left of an HAL_Delay
  pin,       \* boot_pin's fail_count and lockout_until
  bound,     \* words of the binding that operator_bind_init read
  queue,     \* keypad's event_queue
  dm,        \* dead_man's state and last_touch_tick
  tick,
  turned,    \* the loop has turned in this second
  wake,      \* wake_pending; of the TPL5010, whether the last WAKE was
             \* answered and how many before it in a row were not
  killed,    \* FPGA_KILL has been high since power-up: the FPGA is erased
  restarts,
  guesses,   \* history: wrong PINs compared since the last right one, those
             \* whose write a restart cut off, when the last was written
  why        \* history: the first reason to kill, and where the program was
             \* when the TPL5010 last reset it

callWhiteVars == <<bkp, at, delay, pin, bound, queue, dm, tick, turned, wake,
                   killed, restarts, guesses, why>>

Entries == {"right", "wrong", "short", "duress", "key"}
Never == MaxTick + 1

------------------------------------------------------------------------------
Kill(reason) ==
  /\ killed' = TRUE
  /\ why' = IF killed THEN why ELSE [why EXCEPT !.kill = reason]

Elapsed == tick - dm.last_touch

Armed(now) == [state |-> "DM_ACTIVE", last_touch |-> now]
Disarmed == [state |-> "DM_IDLE", last_touch |-> 0]

(* main up to the entry loop: RAM as initialised, the registers read by      *)
(* boot_pin_init and operator_bind_init.  Without a PIN there is no loop.    *)
Boot ==
  /\ pin' = [fail_count |-> bkp.attempts, lockout_until |-> 0]
  /\ bound' = bkp.bind
  /\ delay' = 0 /\ queue' = <<>> /\ tick' = 0 /\ turned' = FALSE
  /\ wake' = [pending |-> FALSE, answered |-> TRUE, missed |-> 0]
  /\ dm' = IF bkp.pin THEN Disarmed ELSE Armed(0)
  /\ at' = IF bkp.attempts >= PIN_MAX_ATTEMPTS THEN "halted"
           ELSE IF bkp.pin THEN "entry" ELSE "comms"

(* NRST falls, from a power cycle or the TPL5010, wherever the program is.   *)
(* An attempt that is compared and not written is lost.                      *)
Restart(from) ==
  /\ restarts < MaxRestarts
  /\ restarts' = restarts + 1
  /\ Boot
  /\ guesses' = [n |-> guesses.n, last |-> Never,
                 lost |-> guesses.lost + (IF at = "counting" THEN 1 ELSE 0)]
  /\ killed' = (killed \/ bkp.attempts >= PIN_MAX_ATTEMPTS)
  /\ why' = [why EXCEPT !.reset = from]
  /\ UNCHANGED bkp

PowerCycle == Restart(why.reset)

------------------------------------------------------------------------------
(* Mutant: a WAKE is answered only at the next turn of the loop.             *)
MutPolled == IF wake.pending THEN [wake EXCEPT !.pending = FALSE] ELSE wake

(* mcu_watchdog_poll *)
Polled == IF wake.pending THEN [wake EXCEPT !.pending = FALSE, !.answered = TRUE]
          ELSE wake

Looping == at \in {"entry", "run"}
Waiting == delay > 0 \/ at \in {"comms", "halted"}

(* A second passes, and its WAKE comes.  A turn of a loop is shorter.        *)
Missed == IF wake.answered THEN 0 ELSE wake.missed + 1

SecondPasses ==
  /\ Waiting \/ (Looping /\ turned)
  /\ tick < MaxTick /\ Missed < 2
  /\ tick' = tick + 1 /\ turned' = FALSE
  /\ delay' = IF delay > 0 THEN delay - 1 ELSE 0
  /\ wake' = [pending |-> TRUE, answered |-> FALSE, missed |-> Missed]
  /\ UNCHANGED <<bkp, at, pin, bound, queue, dm, killed, restarts, guesses, why>>

(* The WAKE comes between the DONE pulse for the one before and the          *)
(* assignment that clears wake_pending, which forgets it.  That turn still    *)
(* has the tick it read first, and would kill by it.                         *)
WakeForgotten ==
  /\ Looping /\ ~turned /\ wake.pending /\ tick < MaxTick
  /\ at = "run" => Elapsed < DEAD_MAN_KILL_SEC
  /\ tick' = tick + 1
  /\ wake' = [pending |-> FALSE, answered |-> FALSE, missed |-> 0]
  /\ UNCHANGED <<bkp, at, delay, pin, bound, queue, dm, turned, killed, restarts,
                 guesses, why>>

TplResets ==
  /\ Waiting \/ (Looping /\ turned)
  /\ Missed = 2
  /\ Restart(at)

------------------------------------------------------------------------------
(* keypad_poll in the loops, which then turn; a full queue drops the key,    *)
(* and to the main loop one key is like another.                             *)
Press(e) ==
  /\ Looping /\ Len(queue) < KP_EVENT_QUEUE
  /\ at = "run" => e = "key"
  /\ queue' = Append(queue, e) /\ turned' = FALSE
  /\ UNCHANGED <<bkp, at, delay, pin, bound, dm, tick, wake, killed, restarts,
                 guesses, why>>

Delayed(place, seconds) ==
  at' = place /\ \E phase \in {0, 1} : delay' = seconds + phase

(* boot_pin_is_locked *)
Locked == tick < pin.lockout_until
Unlocked == [pin EXCEPT !.lockout_until = 0]

(* boot_pin_verify up to the comparison, and main's switch on its result.    *)
Submitted(e) ==
  \/ /\ e = "key"
     /\ pin' = Unlocked /\ UNCHANGED <<at, delay, bkp, guesses>>
  \/ /\ e = "short"
     /\ pin' = Unlocked /\ Delayed("wrong", 1) /\ UNCHANGED <<bkp, guesses>>
  \/ /\ e = "duress"
     /\ pin' = Unlocked /\ Delayed("duress", DuressDelay) /\ UNCHANGED <<bkp, guesses>>
  \/ /\ e = "right"
     /\ pin' = [Unlocked EXCEPT !.fail_count = 0]
     /\ bkp' = [bkp EXCEPT !.attempts = 0]
     /\ guesses' = [n |-> 0, lost |-> 0, last |-> Never]
     /\ at' = "bind" /\ UNCHANGED delay
  \/ /\ e = "wrong"
     /\ pin' = Unlocked /\ at' = "counting"
     /\ guesses' = [guesses EXCEPT !.n = @ + 1]
     /\ UNCHANGED <<bkp, delay>>

EntryTurn ==
  /\ at = "entry"
  /\ turned' = TRUE /\ wake' = Polled
  /\ IF Locked \/ queue = <<>>
     THEN /\ pin' = IF Locked THEN pin ELSE Unlocked
          /\ UNCHANGED <<at, delay, bkp, guesses, queue>>
     ELSE queue' = Tail(queue) /\ Submitted(Head(queue))
  /\ UNCHANGED <<bound, dm, tick, killed, restarts, why>>

(* Mutant: the register is written only from the second tier on. *)
MutWritten(n) == IF n >= PIN_LOCKOUT_TIER2 THEN n ELSE bkp.attempts
Written(n) == n

LockoutUntil(n) ==
  IF n >= PIN_LOCKOUT_TIER2 THEN tick + LOCKOUT_T2
  ELSE IF n >= PIN_LOCKOUT_TIER1 THEN tick + LOCKOUT_T1
  ELSE pin.lockout_until

(* boot_pin_verify from the wrong comparison on. *)
CountAttempt ==
  LET n == pin.fail_count + 1 IN
  /\ at = "counting"
  /\ bkp' = [bkp EXCEPT !.attempts = Written(n)]
  /\ IF n >= PIN_MAX_ATTEMPTS
     THEN /\ pin' = [pin EXCEPT !.fail_count = n]
          /\ at' = "halted" /\ Kill("attempts") /\ UNCHANGED <<delay, guesses>>
     ELSE /\ pin' = [fail_count |-> n, lockout_until |-> LockoutUntil(n)]
          /\ Delayed("wrong", 1)
          /\ guesses' = [guesses EXCEPT !.last = tick]
          /\ UNCHANGED <<killed, why>>
  /\ UNCHANGED <<bound, queue, dm, tick, turned, wake, restarts>>

DelayOver ==
  /\ delay = 0
  /\ \/ at = "wrong" /\ at' = "entry" /\ UNCHANGED <<killed, why>>
     \/ at = "duress" /\ at' = "halted" /\ Kill("duress")
     \/ at = "mismatch" /\ at' = "halted" /\ Kill("mismatch")
  /\ UNCHANGED <<bkp, delay, pin, bound, queue, dm, tick, turned, wake, restarts,
                 guesses>>

------------------------------------------------------------------------------
(* operator_bind_check: the hash over the words read at boot matches only    *)
(* when all of them were written.                                            *)
BindChecked ==
  /\ at = "bind" /\ bound > 0
  /\ IF bound = BindWords
     THEN at' = "comms" /\ dm' = Armed(tick) /\ UNCHANGED delay
     ELSE Delayed("mismatch", 1) /\ UNCHANGED dm
  /\ UNCHANGED <<bkp, pin, bound, queue, tick, turned, wake, killed, restarts,
                 guesses, why>>

(* operator_bind_set, one register at a time. *)
BindWord ==
  /\ at = "bind" /\ bound = 0
  /\ bkp' = [bkp EXCEPT !.bind = @ + 1]
  /\ IF bkp'.bind = BindWords
     THEN at' = "comms" /\ dm' = Armed(tick) /\ bound' = BindWords
     ELSE UNCHANGED <<at, dm, bound>>
  /\ UNCHANGED <<delay, pin, queue, tick, turned, wake, killed, restarts, guesses,
                 why>>

(* The modem and the rest of phase 4, without a poll of the watchdog.        *)
CommsUp ==
  /\ at = "comms" /\ at' = "run"
  /\ UNCHANGED <<bkp, delay, pin, bound, queue, dm, tick, turned, wake, killed,
                 restarts, guesses, why>>

------------------------------------------------------------------------------
(* Mutant: a warning is not taken back. *)
MutTouched(d) == IF d.state = "DM_WARNING" THEN d ELSE [d EXCEPT !.last_touch = tick]

(* dead_man_touch *)
Touched(d) == [state |-> "DM_ACTIVE", last_touch |-> tick]

(* dead_man_poll short of the kill *)
Warned == IF Elapsed >= DEAD_MAN_WARN_SEC THEN [dm EXCEPT !.state = "DM_WARNING"] ELSE dm

(* The main loop: a key is popped, counts as a touch and is pushed back.     *)
RunTurn ==
  /\ at = "run"
  /\ turned' = TRUE /\ wake' = Polled
  /\ IF Elapsed >= DEAD_MAN_KILL_SEC
     THEN /\ dm' = [dm EXCEPT !.state = "DM_KILLED"]
          /\ at' = "halted" /\ Kill("dead man") /\ UNCHANGED queue
     ELSE /\ IF queue = <<>> THEN dm' = Warned /\ UNCHANGED queue
             ELSE dm' = Touched(Warned) /\ queue' = Append(Tail(queue), Head(queue))
          /\ UNCHANGED <<at, killed, why>>
  /\ UNCHANGED <<bkp, delay, pin, bound, tick, restarts, guesses>>

(* Mutant: the registers are wiped before the kill. *)
MutPowerFails ==
  /\ at = "run" /\ at' = "wiping"
  /\ UNCHANGED <<killed, why>>
  /\ UNCHANGED <<bkp, delay, pin, bound, queue, dm, tick, turned, wake, restarts,
                 guesses>>

(* pvd_poll sees a falling supply: pvd_emergency_wipe kills first and then   *)
(* wipes the registers one by one, the PIN before the binding.               *)
PowerFails ==
  /\ at = "run" /\ at' = "wiping"
  /\ Kill("power")
  /\ UNCHANGED <<bkp, delay, pin, bound, queue, dm, tick, turned, wake, restarts,
                 guesses>>

WipeRegister ==
  /\ at = "wiping"
  /\ IF bkp.pin
     THEN bkp' = [attempts |-> 0, pin |-> FALSE, bind |-> bkp.bind] /\ UNCHANGED at
     ELSE bkp' = [bkp EXCEPT !.bind = 0] /\ at' = "halted"
  /\ UNCHANGED <<delay, pin, bound, queue, dm, tick, turned, wake, killed, restarts,
                 guesses, why>>

------------------------------------------------------------------------------
(* A device with its PINs set, new to its operator. *)
Init ==
  /\ bkp = [attempts |-> 0, pin |-> TRUE, bind |-> 0]
  /\ at = "entry" /\ delay = 0 /\ pin = [fail_count |-> 0, lockout_until |-> 0]
  /\ bound = 0 /\ queue = <<>> /\ dm = Disarmed /\ tick = 0 /\ turned = FALSE
  /\ wake = [pending |-> FALSE, answered |-> TRUE, missed |-> 0]
  /\ killed = FALSE /\ restarts = 0
  /\ guesses = [n |-> 0, lost |-> 0, last |-> Never]
  /\ why = [kill |-> "none", reset |-> "none"]

Next ==
  \/ PowerCycle \/ SecondPasses \/ WakeForgotten \/ TplResets
  \/ \E e \in Entries : Press(e)
  \/ EntryTurn \/ CountAttempt \/ DelayOver \/ BindChecked \/ BindWord \/ CommsUp
  \/ RunTurn \/ PowerFails \/ WipeRegister

Spec == Init /\ [][Next]_callWhiteVars

------------------------------------------------------------------------------
TypeOK ==
  /\ bkp.attempts \in 0 .. PIN_MAX_ATTEMPTS /\ bkp.bind \in 0 .. BindWords
  /\ pin.fail_count \in 0 .. PIN_MAX_ATTEMPTS
  /\ Len(queue) <= KP_EVENT_QUEUE /\ delay \in 0 .. DuressDelay + 1
  /\ wake.missed \in 0 .. 1 /\ dm.last_touch <= tick

(* Every wrong PIN of full length is counted across restarts, but for one    *)
(* whose restart fell between the comparison and the write, and the last     *)
(* one allowed kills.  The lockout holds between two of one boot; a restart  *)
(* forgets it (boot_pin.h 145-180).                                          *)
GuessesCounted ==
  /\ bkp.pin /\ at # "counting" => bkp.attempts = guesses.n - guesses.lost
  /\ guesses.n - guesses.lost > PIN_MAX_ATTEMPTS - 1 /\ at # "counting" => killed
  /\ at = "counting" /\ guesses.last # Never /\ pin.fail_count >= PIN_LOCKOUT_TIER1 =>
       tick >= guesses.last + (IF pin.fail_count >= PIN_LOCKOUT_TIER2 THEN LOCKOUT_T2
                               ELSE LOCKOUT_T1)

(* A kill has its reason.  The operator's own PIN kills only when a restart  *)
(* tore the binding; registers are wiped only behind a kill; and the duress  *)
(* PIN never kills: HAL_Delay(3000) polls no watchdog, and the TPL5010       *)
(* resets the MCU before it returns (main.c 205-213, mcu_watchdog.h 9).      *)
KillsAreDue ==
  /\ at = "halted" \/ ~bkp.pin => killed
  /\ killed <=> why.kill # "none"
  /\ at = "mismatch" => bkp.bind \in 1 .. BindWords - 1
  /\ why.kill # "duress"

(* An armed switch with no key in the queue fires when its time is over; a   *)
(* key that nobody consumes holds it back for ever, one left over from the   *)
(* PIN entry too (main.c 357-371).                                           *)
DeadManExact ==
  at = "run" =>
    /\ Elapsed <= DEAD_MAN_KILL_SEC
    /\ turned /\ queue # <<>> => Elapsed = 0 /\ dm.state = "DM_ACTIVE"
    /\ turned /\ Elapsed >= DEAD_MAN_WARN_SEC => dm.state = "DM_WARNING"

(* The TPL5010 resets the program only where it waits without polling: a     *)
(* loop that turns is never reset, even when it forgets a WAKE               *)
(* (mcu_watchdog.h 85-119).                                                  *)
LoopsSurvive == why.reset \notin {"entry", "run"}
==============================================================================
