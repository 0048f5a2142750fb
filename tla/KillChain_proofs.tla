--------------------------- MODULE KillChain_proofs ---------------------------
(* For every size of the timers and of the key area: no source but the pin   *)
(* kills a board that has not been tested, what the watchdog asks for is     *)
(* done, and a killed board whose sources are cut off is erased in time.     *)
EXTENDS KillChain, Integers, TLAPS

\* What is proved of the machine alone, of the machine as it is wired here.
Alone == INSTANCE KillProtocol_proofs
           WITH rst_n <- global_rst_n, kill_pin <- safe_kill,
                factory_mode <- JUMPER_CALIB

\* The jumper is fitted or it is not.
JumperInv == JUMPER_CALIB \in BOOLEAN

LEMMA JumperLemma == Spec => []JumperInv
PROOF
<1>1. Init => JumperInv
  BY DEF Init, JumperInv
<1>2. JumperInv /\ [Next]_vars => JumperInv'
  <2>1. SUFFICES ASSUME JumperInv, [Next]_vars PROVE JumperInv'
    OBVIOUS
  <2>2. CASE Tick
    BY <2>1, <2>2 DEF Tick, inputs, JumperInv
  <2>3. CASE PinChange
    <3>1. PICK pin \in Pins : Change(pin)
      BY <2>3 DEF PinChange
    <3>2. JUMPER_CALIB' = IF pin = "JUMPER_CALIB" THEN ~JUMPER_CALIB ELSE JUMPER_CALIB
      BY <3>1 DEF Change
    <3>3. CASE pin = "JUMPER_CALIB"
      BY <3>2, <3>3, Zenon DEF JumperInv
    <3>4. CASE pin # "JUMPER_CALIB"
      BY <2>1, <3>2, <3>4 DEF JumperInv
    <3> QED BY <3>3, <3>4
  <2>4. CASE UNCHANGED vars
    BY <2>1, <2>4 DEF vars, inputs, JumperInv
  <2> QED BY <2>1, <2>2, <2>3, <2>4 DEF Next
<1> QED BY <1>1, <1>2, PTL DEF Spec

\* The wires of the machine carry Booleans whatever drives them.
LEMMA WireLemma ==
  ASSUME JumperInv'
  PROVE  Alone!AnyInputs
PROOF
<1>1. safe_kill' \in BOOLEAN
  BY Zenon DEF safe_kill
<1>2. global_rst_n' \in BOOLEAN
  BY Zenon DEF global_rst_n
<1> QED BY <1>1, <1>2 DEF Alone!AnyInputs, JumperInv

\* A step of the wired machine is a step of the machine.
LEMMA SameTick == Kill!Tick => Alone!Tick
PROOF
  BY Zenon DEF Kill!Tick, Alone!Tick, Kill!FactoryStep, Alone!FactoryStep, Kill!factory,
     Alone!factory, Kill!MemoryStep, Alone!MemoryStep, Kill!HistoryStep,
     Alone!HistoryStep, Kill!KeyArea, Alone!KeyArea, Kill!LastPass, Alone!LastPass,
     Kill!Held, Alone!Held, Kill!ResetTaken, Alone!ResetTaken, Kill!ResetStep,
     Alone!ResetStep, Kill!FsmStep, Alone!FsmStep, Kill!NormalStep, Alone!NormalStep,
     Kill!StartStep, Alone!StartStep, Kill!ScrubByte, Alone!ScrubByte,
     Kill!ScrubPassDone, Alone!ScrubPassDone, Kill!DeadStep, Alone!DeadStep,
     Kill!Settle, Alone!Settle, Kill!kill_active, Alone!kill_active, Kill!scrub,
     Alone!scrub, Kill!port, Alone!port

LEMMA SamePins == Kill!Pins => Alone!Pins
PROOF
  BY Zenon DEF Kill!Pins, Alone!Pins, Kill!factory, Alone!factory, Kill!Settle,
     Alone!Settle, Kill!kill_active, Alone!kill_active, Kill!scrub, Alone!scrub,
     Kill!port, Alone!port

\* The invariant of the machine holds of the machine on the board.
LEMMA MachineInv == Spec => []Alone!Inv
PROOF
<1> USE SizesAssumption
<1>1. Init => Alone!Inv
  <2>1. SUFFICES ASSUME Init PROVE Alone!Inv
    OBVIOUS
  <2>2. safe_kill = FALSE
    BY <2>1, Zenon DEF Init, safe_kill, all_kill_sources, Watchdog!TimerInit,
       Boot!BootInit
  <2>3. global_rst_n = FALSE
    BY <2>1, Zenon DEF Init, global_rst_n, Boot!BootInit
  <2>4. JUMPER_CALIB \in BOOLEAN
    BY <2>1 DEF Init
  <2>5. Alone!PowerUp
    BY <2>1, Zenon DEF Init, Kill!PowerUp, Alone!PowerUp, Kill!KeyArea, Alone!KeyArea
  <2>6. Alone!Init
    BY <2>2, <2>3, <2>4, <2>5, Zenon DEF Alone!Init
  <2> QED BY <2>6, Alone!InitInv
<1>2. Alone!Inv /\ JumperInv' /\ [Next]_vars => Alone!Inv'
  <2>1. SUFFICES ASSUME Alone!Inv, JumperInv', [Next]_vars PROVE Alone!Inv'
    OBVIOUS
  <2>2. CASE Tick
    <3>1. Alone!ClockEdge
      BY <2>1, <2>2, SameTick, WireLemma, Zenon DEF Tick, Alone!ClockEdge
    <3> QED BY <2>1, <3>1, Alone!TickInv
  <2>3. CASE PinChange
    <3>1. Alone!InputChange
      BY <2>1, <2>3, SamePins, WireLemma, Zenon DEF PinChange, Alone!InputChange
    <3> QED BY <2>1, <3>1, Alone!PinsInv
  <2>4. CASE UNCHANGED vars
    <3>1. UNCHANGED <<KILL_PIN, alarm, JUMPER_CALIB, kill_latched, system_rdy,
                      global_rst, killer>>
      BY <2>4 DEF vars, inputs, boot, timer
    <3>2. safe_kill' = safe_kill /\ global_rst_n' = global_rst_n
      BY <3>1 DEF safe_kill, all_kill_sources, global_rst_n
    <3>3. UNCHANGED Alone!vars
      BY <3>1, <3>2 DEF Alone!vars, Alone!inputs, Alone!registers, killer,
         Alone!factory, Alone!scrub, Alone!port
    <3> QED BY <2>1, <3>3, Alone!StutterInv
  <2> QED BY <2>1, <2>2, <2>3, <2>4 DEF Next
<1> QED BY <1>1, <1>2, JumperLemma, PTL DEF Spec
-----------------------------------------------------------------------------
\* What the board knows of the boot: the self-test of this boot, and nothing
\* older, stands behind a system that is ready.
ReadyInv ==
  /\ system_rdy \in BOOLEAN /\ post_pass \in BOOLEAN /\ tested \in BOOLEAN
  /\ sup_state \in {"WAIT_PLL_LOCK", "PLL_QUALIFY", "WARMUP"} => global_rst
  /\ sup_state = "WARMUP" => post_state = "S_IDLE" /\ ~post_pass
  /\ sup_state = "POST_CHECK" /\ (post_state = "S_PASS" \/ post_pass) => tested
  /\ sup_state = "SYSTEM_ACTIVE" => tested
  /\ system_rdy => tested

\* The factory window follows the edges since power-up, and no level that the
\* window lets through waits for an edge.
LandInv ==
  /\ powered \in 0 .. FACTORY_TIMEOUT
  /\ IF powered < FACTORY_TIMEOUT THEN factory_timer = powered /\ ~factory_expired
     ELSE factory_expired
  /\ Kill!kill_active => dead_latch

LEMMA ReadyStep ==
  ASSUME ReadyInv, NEW answer \in BOOLEAN, NEW verdict \in Boot!Verdicts,
         Boot!BootTick(answer, verdict)
  PROVE  ReadyInv' /\ (system_rdy' => tested)
PROOF
<1>1. Boot!SupervisorStep /\ Boot!PostStep(answer, verdict) /\ Boot!HistoryStep
  BY DEF Boot!BootTick
<1>2. global_rst => post_state' = "S_IDLE" /\ post_pass' = FALSE
  BY <1>1 DEF Boot!PostStep, Boot!PostReset
<1>3. /\ post_pass' => post_pass \/ post_state = "S_PASS"
      /\ post_pass' \in BOOLEAN
  <2>1. \/ post_pass' = post_pass
        \/ post_pass' = FALSE
        \/ post_state = "S_PASS" /\ post_pass' = TRUE
    BY <1>1, Zenon DEF Boot!PostStep, Boot!PostReset, Boot!PostIdle, Boot!PostLoadKey,
       Boot!PostWaits, Boot!PostCompare, Boot!PostPass, Boot!PostFail, Boot!PostMoves
  <2>2. CASE post_pass' = FALSE
    BY <2>2, Zenon
  <2>3. CASE post_pass' = post_pass
    <3>1. post_pass \in BOOLEAN
      BY Zenon DEF ReadyInv
    <3> QED BY <2>3, <3>1, Zenon
  <2>4. CASE post_state = "S_PASS" /\ post_pass' = TRUE
    BY <2>4, Zenon
  <2> QED BY <2>1, <2>2, <2>3, <2>4, Zenon
<1>4. tested' = IF sup_state \in {"WAIT_PLL_LOCK", "FAIL_SAFE"} THEN FALSE
                ELSE tested \/ (post_state # "S_PASS" /\ post_state' = "S_PASS")
  BY <1>1 DEF Boot!HistoryStep
<1>5. tested' \in BOOLEAN
  BY <1>4, Zenon DEF ReadyInv
<1>6. system_rdy' \in BOOLEAN /\ (system_rdy' => sup_state = "SYSTEM_ACTIVE")
  BY <1>1, Zenon DEF Boot!Outputs, Boot!SupervisorStep, Boot!WaitPllLock, Boot!PllQualify,
     Boot!Warmup, Boot!PostCheck, Boot!SystemActive, Boot!FailSafe
<1>7. system_rdy' => tested /\ tested'
  BY <1>4, <1>6 DEF ReadyInv
<1>8. /\ sup_state' \in {"WAIT_PLL_LOCK", "PLL_QUALIFY", "WARMUP"} => global_rst'
      /\ sup_state' = "WARMUP" => post_state' = "S_IDLE" /\ ~post_pass'
      /\ sup_state' = "POST_CHECK" /\ (post_state' = "S_PASS" \/ post_pass') => tested'
      /\ sup_state' = "SYSTEM_ACTIVE" => tested'
  <2> USE <1>1, <1>2, <1>3, <1>4 DEF Boot!Outputs, ReadyInv
  <2>1. CASE Boot!WaitPllLock
    BY <2>1 DEF Boot!WaitPllLock
  <2>2. CASE Boot!PllQualify
    BY <2>2 DEF Boot!PllQualify
  <2>3. CASE Boot!Warmup
    BY <2>3 DEF Boot!Warmup
  <2>4. CASE Boot!PostCheck
    BY <2>4 DEF Boot!PostCheck
  <2>5. CASE Boot!SystemActive
    BY <2>5 DEF Boot!SystemActive
  <2>6. CASE Boot!FailSafe
    BY <2>6 DEF Boot!FailSafe
  <2> QED BY <2>1, <2>2, <2>3, <2>4, <2>5, <2>6 DEF Boot!SupervisorStep
<1> QED BY <1>3, <1>5, <1>6, <1>7, <1>8, Zenon DEF ReadyInv

LEMMA ReadyNext ==
  ASSUME ReadyInv, [Next]_vars
  PROVE  ReadyInv' /\ (system_rdy' => tested)
PROOF
<1>1. CASE Tick
  <2>1. PICK answer \in BOOLEAN, verdict \in Boot!Verdicts : Boot!BootTick(answer, verdict)
    BY <1>1, Zenon DEF Tick
  <2> QED BY <2>1, ReadyStep
<1>2. CASE UNCHANGED boot
  <2>1. /\ sup_state' = sup_state /\ system_rdy' = system_rdy /\ global_rst' = global_rst
        /\ post_state' = post_state /\ post_pass' = post_pass /\ tested' = tested
    BY <1>2, Zenon DEF boot
  <2> QED BY <2>1, Zenon DEF ReadyInv
<1>3. PinChange \/ UNCHANGED vars => UNCHANGED boot
  BY DEF PinChange, vars, boot
<1> QED BY <1>1, <1>2, <1>3 DEF Next

LEMMA ReadyLemma == Spec => []ReadyInv
PROOF
<1>1. Init => ReadyInv
  BY DEF Init, Boot!BootInit, ReadyInv
<1>2. ReadyInv /\ [Next]_vars => ReadyInv'
  BY ReadyNext
<1> QED BY <1>1, <1>2, PTL DEF Spec

\* Every step of the kill machine takes a level that is there.
LEMMA LevelTaken ==
  ASSUME Kill!Tick \/ Kill!Pins
  PROVE  dead_latch' = (dead_latch \/ Kill!kill_active')
PROOF BY Zenon DEF Kill!Tick, Kill!Pins, Kill!Held, Kill!ResetStep, Kill!FsmStep,
         Kill!NormalStep, Kill!StartStep, Kill!ScrubByte, Kill!ScrubPassDone,
         Kill!DeadStep, Kill!Settle

\* Until the system is ready the wire to the kill machine carries the pin.
LEMMA WireTested ==
  ASSUME ReadyInv, [Next]_vars, Kill!kill_active'
  PROVE  KILL_PIN' \/ (system_rdy' /\ tested)
PROOF
<1>1. safe_kill'
  BY Zenon DEF Kill!kill_active
<1>2. KILL_PIN' \/ system_rdy'
  BY <1>1, Zenon DEF safe_kill
<1> QED BY <1>2, ReadyNext, Zenon

\* Whatever the watchdog, the other sources and the supply do, a kill comes
\* from the pin or from a system that has passed its self-test in this boot.
THEOREM NoKillUntested == Spec => NoKillBeforeTested
PROOF
<1>1. ASSUME ReadyInv, [Next]_vars
      PROVE  [~dead_latch /\ dead_latch' => KILL_PIN' \/ (system_rdy' /\ tested)]_vars
  <2>1. CASE Tick \/ PinChange
    <3>1. dead_latch' = (dead_latch \/ Kill!kill_active')
      BY <2>1, LevelTaken, Zenon DEF Tick, PinChange
    <3>2. ~dead_latch /\ dead_latch' => Kill!kill_active'
      BY <3>1, Zenon
    <3> QED BY <1>1, <3>2, WireTested, Zenon
  <2>2. CASE UNCHANGED vars
    BY <2>2
  <2> QED BY <1>1, <2>1, <2>2 DEF Next
<1> QED BY <1>1, ReadyLemma, PTL DEF Spec, NoKillBeforeTested

LEMMA LandStep ==
  ASSUME LandInv, [Next]_vars
  PROVE  LandInv'
PROOF
<1> USE SizesAssumption
<1>1. CASE Tick
  <2>1. Kill!FactoryStep /\ Kill!HistoryStep
    BY <1>1, Zenon DEF Tick, Kill!Tick
  <2>2. powered' = IF powered < FACTORY_TIMEOUT THEN powered + 1 ELSE powered
    BY <2>1, Zenon DEF Kill!HistoryStep
  <2>3. powered' \in 0 .. FACTORY_TIMEOUT
    BY <2>2 DEF LandInv
  <2>4. CASE powered < FACTORY_TIMEOUT
    <3>1. factory_timer = powered /\ ~factory_expired
      BY <2>4, Zenon DEF LandInv
    <3>2. CASE factory_timer = FACTORY_TIMEOUT - 1
      <4>1. factory_expired' = TRUE
        BY <2>1, <3>1, <3>2, Zenon DEF Kill!FactoryStep
      <4>2. ~(powered' < FACTORY_TIMEOUT)
        BY <2>2, <2>4, <3>1, <3>2
      <4> QED BY <1>1, <2>3, <4>1, <4>2, LevelTaken, Zenon DEF LandInv, Tick
    <3>3. CASE factory_timer # FACTORY_TIMEOUT - 1
      <4>1. factory_timer' = powered + 1 /\ factory_expired' = factory_expired
        BY <2>1, <3>1, <3>3, Zenon DEF Kill!FactoryStep
      <4>2. powered' < FACTORY_TIMEOUT /\ powered' = powered + 1
        BY <2>2, <2>4, <3>1, <3>3 DEF LandInv
      <4> QED BY <1>1, <2>3, <3>1, <4>1, <4>2, LevelTaken, Zenon DEF LandInv, Tick
    <3> QED BY <3>2, <3>3
  <2>5. CASE ~(powered < FACTORY_TIMEOUT)
    <3>1. factory_expired
      BY <2>5, Zenon DEF LandInv
    <3>2. factory_expired' = factory_expired /\ powered' = powered
      BY <2>1, <2>2, <2>5, <3>1, Zenon DEF Kill!FactoryStep, Kill!factory
    <3> QED BY <1>1, <2>3, <2>5, <3>1, <3>2, LevelTaken, Zenon DEF LandInv, Tick
  <2> QED BY <2>4, <2>5
<1>2. CASE PinChange
  <2>1. /\ powered' = powered /\ factory_timer' = factory_timer
        /\ factory_expired' = factory_expired
    BY <1>2, Zenon DEF PinChange, Kill!Pins, Kill!factory
  <2> QED BY <1>2, <2>1, LevelTaken, Zenon DEF LandInv, PinChange
<1>3. CASE UNCHANGED vars
  <2>1. /\ powered' = powered /\ factory_timer' = factory_timer
        /\ factory_expired' = factory_expired /\ dead_latch' = dead_latch
        /\ KILL_PIN' = KILL_PIN /\ alarm' = alarm /\ JUMPER_CALIB' = JUMPER_CALIB
        /\ kill_latched' = kill_latched /\ system_rdy' = system_rdy
    BY <1>3, Zenon DEF vars, inputs, boot, timer, killer
  <2>2. Kill!kill_active' <=> Kill!kill_active
    BY <2>1, Zenon DEF Kill!kill_active, safe_kill, all_kill_sources
  <2> QED BY <2>1, <2>2, Zenon DEF LandInv
<1> QED BY <1>1, <1>2, <1>3 DEF Next

LEMMA LandLemma == Spec => []LandInv
PROOF
<1>1. Init => LandInv
  <2>1. SUFFICES ASSUME Init PROVE LandInv
    OBVIOUS
  <2>2. /\ powered = 0 /\ factory_timer = 0 /\ factory_expired = FALSE
        /\ KILL_PIN = FALSE /\ system_rdy = FALSE
    BY <2>1, Zenon DEF Init, Kill!PowerUp, Boot!BootInit
  <2>3. ~Kill!kill_active
    BY <2>2, Zenon DEF Kill!kill_active, safe_kill
  <2> QED BY <2>2, <2>3, SizesAssumption DEF LandInv
<1>2. LandInv /\ [Next]_vars => LandInv'
  BY LandStep
<1> QED BY <1>1, <1>2, PTL DEF Spec

\* The watchdog's latched kill reaches the machine of a ready system, jumper or
\* not, once the factory window is over.
THEOREM WatchdogKillIsTaken == Spec => []WatchdogKillLands
PROOF
<1>1. LandInv => WatchdogKillLands
  <2>1. SUFFICES ASSUME LandInv, kill_latched, system_rdy, powered = FACTORY_TIMEOUT
                 PROVE  dead_latch
    BY Zenon DEF WatchdogKillLands
  <2>2. factory_expired
    <3>1. ~(powered < FACTORY_TIMEOUT)
      BY <2>1, SizesAssumption
    <3> QED BY <2>1, <3>1, Zenon DEF LandInv
  <2>3. Kill!kill_active
    BY <2>1, <2>2, Zenon DEF Kill!kill_active, safe_kill, all_kill_sources
  <2> QED BY <2>1, <2>3, Zenon DEF LandInv
<1> QED BY <1>1, LandLemma, PTL
-----------------------------------------------------------------------------
\* Edges that the erasure still needs.
Left ==
  IF fsm = "ZEROIZE_START" THEN EraseTime
  ELSE IF fsm = "ZEROIZE_RAM"
       THEN (3 - scrub_pass) * (KEY_MEMORY_END - KEY_MEMORY_START + 2)
              + (KEY_MEMORY_END + 1 - scrub_addr) + 2
  ELSE IF system_halted THEN 0 ELSE 1

\* The edges that have passed and those still needed never exceed EraseTime.
CutInv ==
  /\ cutFor \in 0 .. EraseTime
  /\ cutFor # 0 => dead_latch /\ CutOff /\ cutFor + Left <= EraseTime

\* What the machine's invariant says of the registers that count.
LEMMA LeftTypes ==
  ASSUME Alone!Inv, dead_latch
  PROVE  /\ fsm \in {"ZEROIZE_START", "ZEROIZE_RAM", "DEAD_LOOP"}
         /\ scrub_pass \in 0 .. 3
         /\ scrub_addr \in 0 .. KEY_MEMORY_END + 1
         /\ fsm = "ZEROIZE_RAM" => scrub_addr >= KEY_MEMORY_START
PROOF
<1>1. /\ fsm \in Alone!States /\ scrub_pass \in Alone!Passes
      /\ scrub_addr \in 0 .. KEY_MEMORY_END + 1
  BY Zenon DEF Alone!Inv, Alone!TypeOK
<1>2. fsm # "NORMAL"
  BY Zenon DEF Alone!Inv, Alone!LatchInv
<1>3. fsm = "ZEROIZE_RAM" => scrub_addr >= KEY_MEMORY_START
  BY Zenon DEF Alone!Inv, Alone!ScrubInv
<1> QED BY <1>1, <1>2, <1>3 DEF Alone!States, Alone!Passes, Alone!LastPass

\* No erasure takes longer than a full one.
LEMMA LeftBound ==
  ASSUME Alone!Inv, dead_latch
  PROVE  Left \in 0 .. EraseTime
PROOF
<1>1. /\ scrub_pass \in 0 .. 3 /\ scrub_addr \in 0 .. KEY_MEMORY_END + 1
      /\ fsm = "ZEROIZE_RAM" => scrub_addr >= KEY_MEMORY_START
  BY LeftTypes
<1> DEFINE n == KEY_MEMORY_END - KEY_MEMORY_START + 2
<1>2. n \in Nat /\ n >= 2 /\ EraseTime = 4 * n + 2
  BY SizesAssumption DEF EraseTime
<1>3. CASE fsm = "ZEROIZE_RAM"
  <2>1. Left = (3 - scrub_pass) * n + (KEY_MEMORY_END + 1 - scrub_addr) + 2
    BY <1>3 DEF Left
  <2>2. (3 - scrub_pass) * n \in 0 .. 3 * n
    <3> HIDE DEF n
    <3>1. scrub_pass \in {0, 1, 2, 3}
      BY <1>1
    <3> QED BY <1>2, <3>1
  <2>3. KEY_MEMORY_END + 1 - scrub_addr \in 0 .. n - 1
    BY <1>1, <1>3, SizesAssumption
  <2> HIDE DEF n
  <2> QED BY <1>2, <2>1, <2>2, <2>3
<1>4. CASE fsm # "ZEROIZE_RAM"
  <2> HIDE DEF n
  <2> QED BY <1>2, <1>4 DEF Left
<1> QED BY <1>3, <1>4

LEMMA LeftBoundNext == Alone!Inv' => (dead_latch => Left \in 0 .. EraseTime)'
PROOF
<1>1. Alone!Inv => (dead_latch => Left \in 0 .. EraseTime)
  BY LeftBound
<1> QED BY <1>1, PTL

\* Nothing reaches the machine while the sources are cut off.
LEMMA NoLevel == CutOff => ~Kill!kill_active
PROOF BY Zenon DEF CutOff, Kill!kill_active, safe_kill

LEMMA NoLevelNext == CutOff' => ~Kill!kill_active'
PROOF BY Zenon DEF CutOff, Kill!kill_active, safe_kill

\* Every edge of a cut-off board brings the end of the erasure one edge nearer.
LEMMA Nearer ==
  ASSUME Alone!Inv, dead_latch, CutOff, CutOff', Kill!Tick
  PROVE  dead_latch' /\ (Left' = 0 \/ Left' + 1 <= Left)
PROOF
<1>1. ~Kill!kill_active /\ ~Kill!kill_active'
  BY NoLevel, NoLevelNext
<1>2. Kill!FsmStep
  BY <1>1, Zenon DEF Kill!Tick, Kill!ResetTaken
<1>3. ASSUME NEW s, NEW h, Kill!Settle(s, h)
      PROVE  dead_latch' /\ fsm' = s /\ (system_halted' <=> h)
  BY <1>1, <1>3, Zenon DEF Kill!Settle
<1>4. /\ fsm \in {"ZEROIZE_START", "ZEROIZE_RAM", "DEAD_LOOP"}
      /\ scrub_pass \in 0 .. 3 /\ scrub_addr \in 0 .. KEY_MEMORY_END + 1
  BY LeftTypes
<1> DEFINE n == KEY_MEMORY_END - KEY_MEMORY_START + 2
<1>5. n \in Nat /\ n >= 2 /\ EraseTime = 4 * n + 2
  BY SizesAssumption DEF EraseTime
<1>6. CASE Kill!StartStep
  <2>1. fsm = "ZEROIZE_START" /\ Kill!Settle("ZEROIZE_RAM", system_halted)
        /\ scrub_addr' = KEY_MEMORY_START /\ scrub_pass' = 0
    BY <1>6, Zenon DEF Kill!StartStep
  <2>2. dead_latch' /\ fsm' = "ZEROIZE_RAM"
    BY <1>3, <2>1, Zenon
  <2>3. Left = EraseTime
    BY <2>1 DEF Left
  <2>4. Left' = (3 - 0) * n + (KEY_MEMORY_END + 1 - KEY_MEMORY_START) + 2
    BY <2>1, <2>2 DEF Left
  <2> QED BY <1>5, <2>2, <2>3, <2>4, SizesAssumption
<1>7. CASE Kill!ScrubByte
  <2>1. fsm = "ZEROIZE_RAM" /\ Kill!Settle("ZEROIZE_RAM", system_halted)
        /\ scrub_addr' = scrub_addr + 1 /\ scrub_pass' = scrub_pass
    BY <1>7, Zenon DEF Kill!ScrubByte
  <2>2. dead_latch' /\ fsm' = "ZEROIZE_RAM"
    BY <1>3, <2>1, Zenon
  <2> DEFINE passes == (3 - scrub_pass) * n
  <2>3. passes \in Int
    BY <1>4, <1>5
  <2>4. Left = passes + (KEY_MEMORY_END + 1 - scrub_addr) + 2
    BY <2>1 DEF Left
  <2>5. Left' = passes + (KEY_MEMORY_END + 1 - (scrub_addr + 1)) + 2
    BY <2>1, <2>2 DEF Left
  <2> HIDE DEF passes
  <2> QED BY <1>4, <2>2, <2>3, <2>4, <2>5, SizesAssumption
<1>8. CASE Kill!ScrubPassDone
  <2>1. /\ fsm = "ZEROIZE_RAM" /\ scrub_addr > KEY_MEMORY_END
        /\ IF scrub_pass < 3
           THEN /\ Kill!Settle("ZEROIZE_RAM", system_halted)
                /\ scrub_pass' = scrub_pass + 1 /\ scrub_addr' = KEY_MEMORY_START
           ELSE Kill!Settle("DEAD_LOOP", system_halted)
    BY <1>8, Zenon DEF Kill!ScrubPassDone, Kill!LastPass
  <2>2. scrub_addr = KEY_MEMORY_END + 1
    BY <1>4, <2>1, SizesAssumption
  <2> DEFINE passes == (3 - scrub_pass) * n
  <2>3. Left = passes + 2
    <3>1. Left = passes + (KEY_MEMORY_END + 1 - scrub_addr) + 2
      BY <2>1 DEF Left
    <3>2. KEY_MEMORY_END + 1 - scrub_addr = 0
      BY <2>2, SizesAssumption
    <3>3. passes \in Int
      BY <1>4, <1>5
    <3> HIDE DEF passes
    <3> QED BY <3>1, <3>2, <3>3
  <2>4. CASE scrub_pass < 3
    <3>1. dead_latch' /\ fsm' = "ZEROIZE_RAM"
      BY <1>3, <2>1, <2>4, Zenon
    <3>2. Left' = (3 - (scrub_pass + 1)) * n + (KEY_MEMORY_END + 1 - KEY_MEMORY_START) + 2
      BY <2>1, <2>4, <3>1 DEF Left
    <3>3. KEY_MEMORY_END + 1 - KEY_MEMORY_START = n - 1
      BY SizesAssumption
    <3> HIDE DEF n
    <3>4. scrub_pass \in {0, 1, 2}
      BY <1>4, <2>4
    <3> QED BY <1>5, <2>3, <3>1, <3>2, <3>3, <3>4
  <2>5. CASE ~(scrub_pass < 3)
    <3>1. dead_latch' /\ fsm' = "DEAD_LOOP"
      BY <1>3, <2>1, <2>5, Zenon
    <3>2. Left' \in {0, 1}
      BY <3>1 DEF Left
    <3>3. scrub_pass = 3
      BY <1>4, <2>5
    <3>4. passes = 0
      <4> HIDE DEF n
      <4> QED BY <1>5, <3>3
    <3>5. Left = 2
      <4> HIDE DEF passes
      <4> QED BY <2>3, <3>4
    <3>6. Left' = 0 \/ Left' + 1 <= Left
      <4>1. CASE Left' = 0
        BY <4>1
      <4>2. CASE Left' = 1
        BY <3>5, <4>2
      <4> QED BY <3>2, <4>1, <4>2
    <3> QED BY <3>1, <3>6
  <2> QED BY <2>4, <2>5
<1>9. CASE Kill!DeadStep
  <2>1. Kill!Settle("DEAD_LOOP", TRUE)
    BY <1>9, Zenon DEF Kill!DeadStep
  <2>2. dead_latch' /\ fsm' = "DEAD_LOOP" /\ system_halted'
    BY <1>3, <2>1, Zenon
  <2> QED BY <2>2 DEF Left
<1>10. ~Kill!NormalStep
  BY <1>4 DEF Kill!NormalStep
<1> QED BY <1>2, <1>6, <1>7, <1>8, <1>9, <1>10 DEF Kill!FsmStep

LEMMA CutStep ==
  ASSUME Alone!Inv, Alone!Inv', CutInv, [Next]_vars
  PROVE  CutInv'
PROOF
<1>1. EraseTime \in Nat /\ EraseTime >= 2
  BY SizesAssumption DEF EraseTime
<1>2. EraseTime' = EraseTime
  BY DEF EraseTime
<1>3. dead_latch => Left \in 0 .. EraseTime
  BY LeftBound
<1>4. dead_latch' => Left' \in 0 .. EraseTime
  BY <1>2, LeftBoundNext
<1>5. CASE Tick
  <2>1. /\ Kill!Tick
        /\ cutFor' = IF dead_latch /\ CutOff /\ CutOff'
                     THEN IF cutFor < EraseTime THEN cutFor + 1 ELSE cutFor
                     ELSE 0
    BY <1>5, Zenon DEF Tick
  <2>2. CASE dead_latch /\ CutOff /\ CutOff'
    <3>1. dead_latch' /\ (Left' = 0 \/ Left' + 1 <= Left)
      BY <2>1, <2>2, Nearer
    <3>2. cutFor + Left <= EraseTime \/ cutFor = 0
      BY Zenon DEF CutInv
    <3>3. cutFor' = IF cutFor < EraseTime THEN cutFor + 1 ELSE cutFor
      BY <2>1, <2>2
    <3>4. cutFor \in 0 .. EraseTime
      BY Zenon DEF CutInv
    <3>5. cutFor' \in 0 .. EraseTime /\ cutFor' + Left' <= EraseTime
      BY <1>1, <1>3, <1>4, <2>2, <3>1, <3>2, <3>3, <3>4
    <3> QED BY <1>2, <2>2, <3>1, <3>5, Zenon DEF CutInv
  <2>3. CASE ~(dead_latch /\ CutOff /\ CutOff')
    <3>1. cutFor' = 0
      BY <2>1, <2>3, Zenon
    <3>2. cutFor' \in 0 .. EraseTime
      BY <1>1, <3>1
    <3> QED BY <1>2, <3>1, <3>2, Zenon DEF CutInv
  <2> QED BY <2>2, <2>3
<1>6. CASE PinChange
  <2>1. Kill!Pins /\ cutFor' = IF CutOff' THEN cutFor ELSE 0
    BY <1>6, Zenon DEF PinChange
  <2>2. CASE CutOff' /\ cutFor # 0
    <3>1. dead_latch /\ CutOff /\ cutFor + Left <= EraseTime
      BY <2>2, Zenon DEF CutInv
    <3>2. Kill!Settle(fsm, system_halted) /\ scrub_addr' = scrub_addr
          /\ scrub_pass' = scrub_pass
      BY <2>1, Zenon DEF Kill!Pins, Kill!scrub
    <3>3. dead_latch' /\ fsm' = fsm /\ (system_halted' <=> system_halted)
      BY <2>2, <3>1, <3>2, NoLevelNext, Zenon DEF Kill!Settle
    <3>4. Left' = Left
      BY <3>2, <3>3 DEF Left, EraseTime
    <3>5. cutFor' = cutFor
      BY <2>1, <2>2, Zenon
    <3> QED BY <1>2, <2>2, <3>1, <3>3, <3>4, <3>5, Zenon DEF CutInv
  <2>3. CASE ~(CutOff' /\ cutFor # 0)
    <3>1. cutFor' = 0
      BY <2>1, <2>3, Zenon
    <3>2. cutFor' \in 0 .. EraseTime
      BY <1>1, <3>1
    <3> QED BY <1>2, <3>1, <3>2, Zenon DEF CutInv
  <2> QED BY <2>2, <2>3
<1>7. CASE UNCHANGED vars
  <2>1. /\ cutFor' = cutFor /\ dead_latch' = dead_latch /\ KILL_PIN' = KILL_PIN
        /\ system_rdy' = system_rdy /\ fsm' = fsm /\ scrub_addr' = scrub_addr
        /\ scrub_pass' = scrub_pass /\ system_halted' = system_halted
    BY <1>7, Zenon DEF vars, inputs, boot, killer
  <2>2. Left' = Left /\ (CutOff' <=> CutOff)
    BY <2>1, Zenon DEF Left, CutOff, EraseTime
  <2> QED BY <1>2, <2>1, <2>2, Zenon DEF CutInv
<1> QED BY <1>5, <1>6, <1>7 DEF Next

\* A killed board that nothing can reach is halted with its keys erased
\* EraseTime edges later, whatever the supervisor, the self-test, the watchdog,
\* the jumper and the lock do in the meantime.
THEOREM KillRunsToItsEnd == Spec => []ErasedInTime
PROOF
<1>1. Init => CutInv
  <2>1. EraseTime \in Nat
    BY SizesAssumption DEF EraseTime
  <2> QED BY <2>1 DEF Init, CutInv
<1>2. Alone!Inv /\ Alone!Inv' /\ CutInv /\ [Next]_vars => CutInv'
  BY CutStep
<1>3. Alone!Inv /\ CutInv => ErasedInTime
  <2>1. SUFFICES ASSUME Alone!Inv, CutInv, cutFor = EraseTime
                 PROVE  system_halted /\ \A a \in Kill!KeyArea : ram[a] = "zero"
    BY Zenon DEF ErasedInTime
  <2>2. EraseTime \in Nat /\ EraseTime >= 2
    BY SizesAssumption DEF EraseTime
  <2>3. dead_latch /\ cutFor + Left <= EraseTime
    BY <2>1, <2>2 DEF CutInv
  <2>4. Left = 0
    BY <2>1, <2>2, <2>3, LeftBound
  <2>5. fsm = "DEAD_LOOP" /\ system_halted
    <3>1. fsm # "ZEROIZE_START"
      BY <2>2, <2>4 DEF Left
    <3>2. fsm # "ZEROIZE_RAM"
      <4>1. SUFFICES ASSUME fsm = "ZEROIZE_RAM" PROVE FALSE
        OBVIOUS
      <4>2. /\ scrub_pass \in 0 .. 3 /\ scrub_addr \in 0 .. KEY_MEMORY_END + 1
        BY <2>1, <2>3, LeftTypes
      <4> DEFINE n == KEY_MEMORY_END - KEY_MEMORY_START + 2
      <4>3. n \in Nat
        BY SizesAssumption
      <4>4. Left = (3 - scrub_pass) * n + (KEY_MEMORY_END + 1 - scrub_addr) + 2
        BY <4>1 DEF Left
      <4> HIDE DEF n
      <4>5. (3 - scrub_pass) * n >= 0
        <5>1. scrub_pass \in {0, 1, 2, 3}
          BY <4>2
        <5> QED BY <4>3, <5>1
      <4>6. (3 - scrub_pass) * n \in Int
        BY <4>2, <4>3
      <4> QED BY <2>4, <4>2, <4>4, <4>5, <4>6, SizesAssumption
    <3>3. fsm = "DEAD_LOOP"
      BY <2>1, <2>3, <3>1, <3>2, LeftTypes
    <3> QED BY <2>4, <3>3 DEF Left
  <2>6. \A a \in Alone!KeyArea : ram[a] = "zero"
    BY <2>1, <2>5, Zenon DEF Alone!Inv, Alone!StopInv
  <2> QED BY <2>5, <2>6, Zenon DEF Kill!KeyArea, Alone!KeyArea
<1> QED BY <1>1, <1>2, <1>3, MachineInv, PTL DEF Spec
===============================================================================
