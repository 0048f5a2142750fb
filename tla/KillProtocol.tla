---------------------------- MODULE KillProtocol ----------------------------
(* kill_protocol.vhd: the zeroization machine of the Artix-7.  A kill level  *)
(* acts asynchronously: the moment kill_active rises the machine jumps to    *)
(* ZEROIZE_START and an irreversible latch is preset, whatever the clock is  *)
(* doing.  On the clock, and only while kill_active is low, it overwrites    *)
(* the key memory in four passes, the last with zero, and stops in           *)
(* DEAD_LOOP.                                                                *)
(*                                                                           *)
(* Input ports are variables here.  The environment may change them with a   *)
(* clock edge, as registers of the same clock do, or between two edges; Tick *)
(* leaves their next values open, so that KillChain can wire them to the     *)
(* rest of the design.  A byte of the key memory is abstracted to what the   *)
(* passes make of it.                                                        *)
EXTENDS Naturals

CONSTANTS KEY_MEMORY_START,  \* first address of the key area
          KEY_MEMORY_END,    \* last address of the key area
          FACTORY_TIMEOUT    \* ticks the calibration jumper can mask a kill

ASSUME KeyAreaAssumption ==
          /\ KEY_MEMORY_START \in Nat
          /\ KEY_MEMORY_END \in Nat
          /\ KEY_MEMORY_START <= KEY_MEMORY_END
          /\ FACTORY_TIMEOUT \in Nat \ {0}

VARIABLES kill_pin, factory_mode, rst_n,            \* input ports
          fsm, dead_latch, factory_timer, factory_expired,
          scrub_addr, scrub_pass,
          ram_addr, ram_data, ram_write_enable,     \* registered memory port
          system_halted,
          ram,                                      \* the memory on that port
          overwrites,  \* history: writes to each address since the last start
          powered      \* history: edges since power-up, up to FACTORY_TIMEOUT

inputs == <<kill_pin, factory_mode, rst_n>>
factory == <<factory_timer, factory_expired>>
scrub == <<scrub_addr, scrub_pass>>
port == <<ram_addr, ram_data, ram_write_enable>>
registers == <<fsm, dead_latch, factory, scrub, port, system_halted, ram,
               overwrites, powered>>
vars == <<inputs, registers>>

KeyArea == KEY_MEMORY_START .. KEY_MEMORY_END
LastPass == 3
Passes == 0 .. LastPass
Bytes == {"key", "random", "zero"}
States == {"NORMAL", "ZEROIZE_START", "ZEROIZE_RAM", "DEAD_LOOP"}

TypeOK ==
  /\ kill_pin \in BOOLEAN /\ factory_mode \in BOOLEAN /\ rst_n \in BOOLEAN
  /\ fsm \in States
  /\ dead_latch \in BOOLEAN
  /\ factory_timer \in 0 .. FACTORY_TIMEOUT
  /\ factory_expired \in BOOLEAN
  /\ scrub_addr \in 0 .. KEY_MEMORY_END + 1
  /\ scrub_pass \in Passes
  /\ ram_addr \in 0 .. KEY_MEMORY_END
  /\ ram_data \in Bytes
  /\ ram_write_enable \in BOOLEAN
  /\ system_halted \in BOOLEAN
  /\ ram \in [KeyArea -> Bytes]
  /\ overwrites \in [KeyArea -> 0 .. LastPass + 1]
  /\ powered \in 0 .. FACTORY_TIMEOUT

\* Power-up values of the registers; ext_clk_dead is tied to '0' in the top.
PowerUp ==
  /\ fsm = "NORMAL" /\ dead_latch = FALSE
  /\ factory_timer = 0 /\ factory_expired = FALSE
  /\ scrub_addr = 0 /\ scrub_pass = 0
  /\ ram_addr = 0 /\ ram_data = "zero" /\ ram_write_enable = FALSE
  /\ system_halted = FALSE
  /\ ram = [a \in KeyArea |-> "key"]
  /\ overwrites = [a \in KeyArea |-> 0] /\ powered = 0

Init == PowerUp /\ kill_pin = FALSE /\ factory_mode \in BOOLEAN /\ rst_n = FALSE
-----------------------------------------------------------------------------
kill_active == kill_pin /\ (~factory_mode \/ factory_expired)

MutFactoryStep ==
  IF ~rst_n THEN factory_timer' = 0 /\ factory_expired' = FALSE
  ELSE IF factory_expired THEN UNCHANGED factory
  ELSE IF factory_timer = FACTORY_TIMEOUT - 1
       THEN factory_expired' = TRUE /\ UNCHANGED factory_timer
       ELSE factory_timer' = factory_timer + 1 /\ UNCHANGED factory_expired
\* The jumper's mask expires once and for all; no reset touches it.
FactoryStep ==
  IF factory_expired THEN UNCHANGED factory
  ELSE IF factory_timer = FACTORY_TIMEOUT - 1
       THEN factory_expired' = TRUE /\ UNCHANGED factory_timer
       ELSE factory_timer' = factory_timer + 1 /\ UNCHANGED factory_expired

\* The memory on the port writes what was registered on the edge before; the
\* history starts again when the machine leaves ZEROIZE_START.
MemoryStep ==
  IF ram_write_enable /\ ram_addr \in KeyArea
  THEN ram' = [ram EXCEPT ![ram_addr] = ram_data]
  ELSE ram' = ram
HistoryStep ==
  /\ powered' = IF powered < FACTORY_TIMEOUT THEN powered + 1 ELSE powered
  /\ overwrites' =
       [a \in KeyArea |->
          IF fsm = "ZEROIZE_START" THEN 0
          ELSE IF ram_write_enable /\ ram_addr = a /\ overwrites[a] <= LastPass
               THEN overwrites[a] + 1 ELSE overwrites[a]]

MutSettle(state, halted) ==
  /\ dead_latch' = dead_latch
  /\ fsm' = IF kill_active' THEN "ZEROIZE_START" ELSE state
  /\ system_halted' = (~kill_active' /\ halted)
\* The asynchronous branch wins whatever the edge would have done.
Settle(state, halted) ==
  /\ dead_latch' = (dead_latch \/ kill_active')
  /\ fsm' = IF kill_active' THEN "ZEROIZE_START" ELSE state
  /\ system_halted' = (~kill_active' /\ halted)

MutResetTaken == ~rst_n
\* A reset works only until the latch is set.
ResetTaken == ~rst_n /\ ~dead_latch
ResetStep ==
  /\ Settle("NORMAL", FALSE)
  /\ scrub_addr' = 0 /\ scrub_pass' = 0
  /\ UNCHANGED port

NormalStep ==
  /\ fsm = "NORMAL"
  /\ Settle("NORMAL", FALSE)
  /\ ram_write_enable' = FALSE
  /\ UNCHANGED <<scrub, ram_addr, ram_data>>

MutStartStep ==
  /\ fsm = "ZEROIZE_START"
  /\ Settle("ZEROIZE_RAM", system_halted)
  /\ scrub_addr' = KEY_MEMORY_START
  /\ UNCHANGED <<scrub_pass, port>>
StartStep ==
  /\ fsm = "ZEROIZE_START"
  /\ Settle("ZEROIZE_RAM", system_halted)
  /\ scrub_addr' = KEY_MEMORY_START /\ scrub_pass' = 0
  /\ UNCHANGED port

MutScrubByteTooFar ==
  /\ fsm = "ZEROIZE_RAM" /\ scrub_addr <= KEY_MEMORY_END + 1
  /\ Settle("ZEROIZE_RAM", system_halted)
  /\ ram_addr' = scrub_addr
  /\ ram_data' = (IF scrub_pass = LastPass THEN "zero" ELSE "random")
  /\ ram_write_enable' = TRUE
  /\ scrub_addr' = scrub_addr + 1
  /\ UNCHANGED scrub_pass
\* One byte of the current pass goes to the port.
ScrubByte ==
  /\ fsm = "ZEROIZE_RAM" /\ scrub_addr <= KEY_MEMORY_END
  /\ Settle("ZEROIZE_RAM", system_halted)
  /\ ram_addr' = scrub_addr
  /\ ram_data' = (IF scrub_pass = LastPass THEN "zero" ELSE "random")
  /\ ram_write_enable' = TRUE
  /\ scrub_addr' = scrub_addr + 1
  /\ UNCHANGED scrub_pass

MutScrubPassDoneEarly ==
  /\ fsm = "ZEROIZE_RAM" /\ scrub_addr > KEY_MEMORY_END
  /\ ram_write_enable' = FALSE
  /\ UNCHANGED <<ram_addr, ram_data>>
  /\ IF scrub_pass < LastPass - 1
     THEN /\ Settle("ZEROIZE_RAM", system_halted)
          /\ scrub_pass' = scrub_pass + 1 /\ scrub_addr' = KEY_MEMORY_START
     ELSE /\ Settle("DEAD_LOOP", system_halted)
          /\ UNCHANGED scrub
\* A pass has run past the last address.
ScrubPassDone ==
  /\ fsm = "ZEROIZE_RAM" /\ scrub_addr > KEY_MEMORY_END
  /\ ram_write_enable' = FALSE
  /\ UNCHANGED <<ram_addr, ram_data>>
  /\ IF scrub_pass < LastPass
     THEN /\ Settle("ZEROIZE_RAM", system_halted)
          /\ scrub_pass' = scrub_pass + 1 /\ scrub_addr' = KEY_MEMORY_START
     ELSE /\ Settle("DEAD_LOOP", system_halted)
          /\ UNCHANGED scrub

MutDeadStep ==
  /\ fsm = "DEAD_LOOP"
  /\ Settle("DEAD_LOOP", system_halted)
  /\ ram_write_enable' = FALSE
  /\ UNCHANGED <<scrub, ram_addr, ram_data>>
DeadStep ==
  /\ fsm = "DEAD_LOOP"
  /\ Settle("DEAD_LOOP", TRUE)
  /\ ram_write_enable' = FALSE
  /\ UNCHANGED <<scrub, ram_addr, ram_data>>

FsmStep == NormalStep \/ StartStep \/ ScrubByte \/ ScrubPassDone \/ DeadStep

\* While the level is high the asynchronous branch hides the clocked one.
Held == Settle("ZEROIZE_START", FALSE) /\ UNCHANGED <<scrub, port>>

\* A rising edge of clk.  The next values of the inputs are the caller's.
Tick ==
  /\ FactoryStep
  /\ MemoryStep
  /\ HistoryStep
  /\ \/ kill_active /\ Held
     \/ ~kill_active /\ ResetTaken /\ ResetStep
     \/ ~kill_active /\ ~ResetTaken /\ FsmStep

\* An input changes between two edges.
Pins ==
  /\ UNCHANGED <<factory, scrub, port, ram, overwrites, powered>>
  /\ Settle(fsm, system_halted)

AnyInputs == kill_pin' \in BOOLEAN /\ factory_mode' \in BOOLEAN /\ rst_n' \in BOOLEAN
ClockEdge == AnyInputs /\ Tick
InputChange == AnyInputs /\ Pins

Next == ClockEdge \/ InputChange
Spec == Init /\ [][Next]_vars
\* The oscillator runs.
FairSpec == Spec /\ WF_vars(ClockEdge)
-----------------------------------------------------------------------------
\* Once a kill has been taken the machine never works normally again: neither
\* a reset nor the end of the kill level brings it back (dead_latch).
NeverNormalAgain == dead_latch => fsm # "NORMAL"

\* The machine stops only with the whole key area written with zero, however
\* often it was started again in the middle of a pass (4-pass scrub).
StoppedMeansErased ==
  fsm = "DEAD_LOOP" \/ system_halted => \A a \in KeyArea : ram[a] = "zero"

\* No address got away with fewer than the four passes since the last start:
\* a kill that interrupts a pass starts all of them again.
FourPassesOverAll ==
  fsm = "DEAD_LOOP" => \A a \in KeyArea : overwrites[a] = LastPass + 1

\* Without a kill nothing in the key area is ever touched: resets and jumper
\* changes leave the keys alone.
KeysSurviveWithoutKill == ~dead_latch => \A a \in KeyArea : ram[a] = "key"

\* The three together: keys are lost only to a kill, and then all of them.
EraseExact == StoppedMeansErased /\ FourPassesOverAll /\ KeysSurviveWithoutKill

\* The jumper masks a kill only for FACTORY_TIMEOUT edges after power-up; no
\* later reset gives it another window (factory_expired).
WindowClosesForGood == powered = FACTORY_TIMEOUT /\ kill_pin => dead_latch

\* A kill whose level falls and stays low is completed: the clocked branch
\* runs through the four passes, and the machine is halted for good.
KillCompletes == []((dead_latch /\ []~kill_active) => <>[]system_halted)
=============================================================================
