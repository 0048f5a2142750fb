------------------------- MODULE KillProtocol_proofs -------------------------
(* For every key area and every factory timeout: a killed machine is never   *)
(* normal again, it stops only with the key area erased in four full passes, *)
(* and nothing but a kill touches the keys.                                  *)
EXTENDS KillProtocol, TLAPS

\* The byte at address a once the write on the port has been done.
After(a) == IF ram_write_enable /\ ram_addr = a THEN ram_data ELSE ram[a]
\* 1 when a write to address a is on the port.
Pending(a) == IF ram_write_enable /\ ram_addr = a THEN 1 ELSE 0
\* 1 when the current pass has been at address a.
Passed(a) == IF a < scrub_addr THEN 1 ELSE 0

LatchInv == /\ dead_latch <=> fsm # "NORMAL"
            /\ kill_active => fsm = "ZEROIZE_START"
            /\ system_halted => fsm = "DEAD_LOOP"
WindowInv == IF powered < FACTORY_TIMEOUT
             THEN factory_timer = powered /\ ~factory_expired
             ELSE factory_expired
UntouchedInv == fsm = "NORMAL" => /\ ~ram_write_enable
                                  /\ \A a \in KeyArea : ram[a] = "key"
ScrubInv ==
  fsm = "ZEROIZE_RAM" =>
    /\ scrub_addr >= KEY_MEMORY_START
    /\ \A a \in KeyArea :
         /\ overwrites[a] + Pending(a) >= scrub_pass + Passed(a)
         /\ scrub_pass = LastPass /\ a < scrub_addr => After(a) = "zero"
StopInv ==
  fsm = "DEAD_LOOP" =>
    /\ ~ram_write_enable
    /\ \A a \in KeyArea : ram[a] = "zero" /\ overwrites[a] = LastPass + 1

Inv == TypeOK /\ LatchInv /\ WindowInv /\ UntouchedInv /\ ScrubInv /\ StopInv
-----------------------------------------------------------------------------
\* The factory timer counts the edges since power-up and expires on the last.
LEMMA FactoryLemma ==
  ASSUME TypeOK, WindowInv, FactoryStep, HistoryStep
  PROVE  /\ factory_timer' \in 0 .. FACTORY_TIMEOUT
         /\ factory_expired' \in BOOLEAN
         /\ powered' \in 0 .. FACTORY_TIMEOUT
         /\ WindowInv'
PROOF
<1> USE KeyAreaAssumption DEF FactoryStep, factory, HistoryStep, WindowInv
<1>1. factory_timer \in 0 .. FACTORY_TIMEOUT /\ powered \in 0 .. FACTORY_TIMEOUT
  BY DEF TypeOK
<1>2. factory_expired \in BOOLEAN
  BY DEF TypeOK
<1>3. CASE powered < FACTORY_TIMEOUT
  <2>1. factory_timer = powered /\ ~factory_expired /\ powered' = powered + 1
    BY <1>3
  <2>2. CASE factory_timer = FACTORY_TIMEOUT - 1
    BY <2>1, <2>2, <1>1
  <2>3. CASE factory_timer # FACTORY_TIMEOUT - 1
    <3>1. factory_timer' = factory_timer + 1 /\ factory_expired' = factory_expired
      BY <2>1, <2>3
    <3>2. ~factory_expired'
      BY <2>1, <3>1
    <3>3. factory_timer + 1 < FACTORY_TIMEOUT
      BY <2>1, <2>3, <1>1, <1>3
    <3>4. factory_expired' \in BOOLEAN
      BY <3>1, <1>2, Zenon
    <3>5. factory_timer' \in 0 .. FACTORY_TIMEOUT /\ powered' \in 0 .. FACTORY_TIMEOUT
      BY <2>1, <3>1, <3>3, <1>1
    <3>6. factory_timer' = powered' /\ powered' < FACTORY_TIMEOUT
      BY <2>1, <3>1, <3>3, <1>1
    <3> QED BY <3>2, <3>4, <3>5, <3>6
  <2> QED BY <2>2, <2>3
<1>4. CASE ~(powered < FACTORY_TIMEOUT)
  <2>1. factory_expired /\ powered' = powered
    BY <1>4
  <2>2. factory_expired' = factory_expired /\ factory_timer' = factory_timer
    BY <2>1
  <2>3. factory_expired'
    BY <2>1, <2>2
  <2> QED BY <2>1, <2>2, <2>3, <1>1, <1>4
<1> QED BY <1>3, <1>4

\* An edge puts the byte on the port into the memory.
LEMMA MemoryLemma ==
  ASSUME TypeOK, MemoryStep
  PROVE  /\ ram' \in [KeyArea -> Bytes]
         /\ \A a \in KeyArea : ram'[a] = After(a)
PROOF
<1>1. ram \in [KeyArea -> Bytes] /\ ram_data \in Bytes
  BY DEF TypeOK
<1>2. CASE ram_write_enable /\ ram_addr \in KeyArea
  <2>1. ram' = [ram EXCEPT ![ram_addr] = ram_data]
    BY <1>2 DEF MemoryStep
  <2> QED BY <2>1, <1>1, <1>2 DEF After
<1>3. CASE ~(ram_write_enable /\ ram_addr \in KeyArea)
  <2>1. ram' = ram
    BY <1>3 DEF MemoryStep
  <2> QED BY <2>1, <1>1, <1>3 DEF After
<1> QED BY <1>2, <1>3

\* Outside ZEROIZE_START the history counts the write on the port, up to the
\* four that are promised.
LEMMA HistoryLemma ==
  ASSUME TypeOK, HistoryStep
  PROVE  /\ overwrites' \in [KeyArea -> 0 .. LastPass + 1]
         /\ fsm = "ZEROIZE_START" => \A a \in KeyArea : overwrites'[a] = 0
         /\ fsm # "ZEROIZE_START" => \A a \in KeyArea :
              overwrites'[a] = IF overwrites[a] <= LastPass
                               THEN overwrites[a] + Pending(a) ELSE overwrites[a]
PROOF
<1>1. overwrites \in [KeyArea -> 0 .. LastPass + 1]
  BY DEF TypeOK
<1> QED BY <1>1 DEF HistoryStep, Pending, LastPass

\* The asynchronous branch, whatever state the edge asked for.
LEMMA SettleLemma ==
  ASSUME NEW s \in States \ {"NORMAL"}, NEW h \in BOOLEAN, Settle(s, h),
         TypeOK, dead_latch, kill_active' \in BOOLEAN,
         h => s = "DEAD_LOOP"
  PROVE  /\ fsm' \in States /\ dead_latch' \in BOOLEAN /\ system_halted' \in BOOLEAN
         /\ LatchInv'
         /\ fsm' # "NORMAL"
         /\ fsm' \in {s, "ZEROIZE_START"}
PROOF
<1>1. dead_latch'
  BY Zenon DEF Settle
<1>2. system_halted' \in BOOLEAN /\ dead_latch' \in BOOLEAN
  BY <1>1, Zenon DEF Settle
<1>3. fsm' \in {s, "ZEROIZE_START"} /\ fsm' # "NORMAL"
  BY DEF Settle, States
<1>4. kill_active' => fsm' = "ZEROIZE_START"
  BY DEF Settle
<1>5. system_halted' => fsm' = "DEAD_LOOP"
  BY DEF Settle
<1> QED BY <1>1, <1>2, <1>3, <1>4, <1>5 DEF LatchInv, States

\* The same when the machine was not killed yet and the edge asks for NORMAL.
LEMMA SettleNormalLemma ==
  ASSUME Settle("NORMAL", FALSE), ~dead_latch, kill_active' \in BOOLEAN
  PROVE  /\ fsm' \in States /\ dead_latch' \in BOOLEAN /\ system_halted' \in BOOLEAN
         /\ LatchInv'
         /\ fsm' \in {"NORMAL", "ZEROIZE_START"}
PROOF
<1>1. dead_latch' \in BOOLEAN /\ (dead_latch' <=> kill_active')
  BY Zenon DEF Settle
<1>2. ~system_halted' /\ system_halted' \in BOOLEAN
  BY Zenon DEF Settle
<1>3. fsm' = IF kill_active' THEN "ZEROIZE_START" ELSE "NORMAL"
  BY DEF Settle
<1> QED BY <1>1, <1>2, <1>3 DEF LatchInv, States
-----------------------------------------------------------------------------
\* The types of the scrub registers and of the memory port.
PortTyped == /\ scrub_addr \in 0 .. KEY_MEMORY_END + 1
             /\ scrub_pass \in Passes
             /\ ram_addr \in 0 .. KEY_MEMORY_END
             /\ ram_data \in Bytes
             /\ ram_write_enable \in BOOLEAN
\* What an edge must leave behind besides the latch, the window and the types.
Data == UntouchedInv /\ ScrubInv /\ StopInv

\* A start resets the history and puts the scrub on the first address.
LEMMA StartLemma ==
  ASSUME Inv, StartStep, MemoryStep, HistoryStep, kill_active' \in BOOLEAN
  PROVE  PortTyped' /\ LatchInv' /\ Data' /\ fsm' \in States
         /\ dead_latch' \in BOOLEAN /\ system_halted' \in BOOLEAN
PROOF
<1> USE KeyAreaAssumption
<1>1. fsm = "ZEROIZE_START" /\ dead_latch /\ ~system_halted /\ TypeOK
  BY DEF Inv, StartStep, LatchInv
<1>2. system_halted \in BOOLEAN
  BY <1>1 DEF TypeOK
<1>3. Settle("ZEROIZE_RAM", system_halted)
  BY DEF StartStep
<1>4. LatchInv' /\ fsm' \in {"ZEROIZE_RAM", "ZEROIZE_START"} /\ fsm' \in States
      /\ dead_latch' \in BOOLEAN /\ system_halted' \in BOOLEAN
  BY <1>1, <1>2, <1>3, SettleLemma DEF States
<1>5. PortTyped'
  BY <1>1 DEF TypeOK, StartStep, port, PortTyped, Passes, LastPass
<1>6. \A a \in KeyArea : overwrites'[a] = 0
  BY <1>1, HistoryLemma
<1>7. scrub_addr' = KEY_MEMORY_START /\ scrub_pass' = 0
  BY DEF StartStep
<1>8. \A a \in KeyArea : Passed(a)' = 0 /\ Pending(a)' \in {0, 1} /\ ~(a < scrub_addr')
  BY <1>7 DEF Passed, Pending, KeyArea
<1>9. ScrubInv'
  BY <1>6, <1>7, <1>8 DEF ScrubInv, LastPass
<1>10. UntouchedInv' /\ StopInv'
  BY <1>4 DEF UntouchedInv, StopInv
<1> QED BY <1>4, <1>5, <1>9, <1>10 DEF Data

\* A byte of a pass: the write on the port is done and the next one put there.
LEMMA ByteLemma ==
  ASSUME Inv, ScrubByte, MemoryStep, HistoryStep, kill_active' \in BOOLEAN
  PROVE  PortTyped' /\ LatchInv' /\ Data' /\ fsm' \in States
         /\ dead_latch' \in BOOLEAN /\ system_halted' \in BOOLEAN
PROOF
<1> USE KeyAreaAssumption
<1>1. fsm = "ZEROIZE_RAM" /\ dead_latch /\ ~system_halted /\ TypeOK /\ ScrubInv
  BY DEF Inv, ScrubByte, LatchInv
<1>2. system_halted \in BOOLEAN
  BY <1>1 DEF TypeOK
<1>3. Settle("ZEROIZE_RAM", system_halted)
  BY DEF ScrubByte
<1>4. LatchInv' /\ fsm' \in {"ZEROIZE_RAM", "ZEROIZE_START"} /\ fsm' \in States
      /\ dead_latch' \in BOOLEAN /\ system_halted' \in BOOLEAN
  BY <1>1, <1>2, <1>3, SettleLemma DEF States
<1>5. /\ scrub_addr \in 0 .. KEY_MEMORY_END /\ scrub_addr >= KEY_MEMORY_START
      /\ scrub_addr' = scrub_addr + 1 /\ scrub_pass' = scrub_pass
      /\ scrub_pass \in 0 .. LastPass
  BY <1>1 DEF TypeOK, ScrubByte, ScrubInv, Passes
<1>6. /\ ram_addr' = scrub_addr /\ ram_write_enable' = TRUE
      /\ ram_data' = IF scrub_pass = LastPass THEN "zero" ELSE "random"
  BY DEF ScrubByte
<1>7. PortTyped'
  BY <1>5, <1>6 DEF PortTyped, Bytes, Passes
<1>8. \A a \in KeyArea : ram'[a] = After(a)
  BY <1>1, MemoryLemma
<1>9. \A a \in KeyArea :
        overwrites'[a] = IF overwrites[a] <= LastPass
                         THEN overwrites[a] + Pending(a) ELSE overwrites[a]
  BY <1>1, HistoryLemma
<1>10. ASSUME NEW a \in KeyArea
       PROVE  /\ overwrites'[a] + Pending(a)' >= scrub_pass' + Passed(a)'
              /\ scrub_pass' = LastPass /\ a < scrub_addr' => After(a)' = "zero"
  <2>1. a \in Nat /\ overwrites[a] \in 0 .. LastPass + 1 /\ Pending(a) \in {0, 1}
    BY <1>1 DEF TypeOK, KeyArea, Pending
  <2>2. overwrites[a] + Pending(a) >= scrub_pass + Passed(a)
    BY <1>1 DEF ScrubInv
  <2>3. Pending(a)' = IF a = scrub_addr THEN 1 ELSE 0
    BY <1>6 DEF Pending
  <2>4. Passed(a)' = IF a <= scrub_addr THEN 1 ELSE 0
    BY <1>5, <2>1 DEF Passed
  <2>5. overwrites'[a] + Pending(a)' >= scrub_pass' + Passed(a)'
    BY <2>1, <2>2, <2>3, <2>4, <1>5, <1>9 DEF Passed, LastPass
  <2>6. ASSUME scrub_pass' = LastPass, a < scrub_addr' PROVE After(a)' = "zero"
    <3>1. CASE a = scrub_addr
      BY <3>1, <2>6, <1>5, <1>6 DEF After
    <3>2. CASE a # scrub_addr
      <4>1. a < scrub_addr /\ scrub_pass = LastPass
        BY <3>2, <2>6, <1>5, <2>1
      <4>2. After(a) = "zero"
        BY <4>1, <1>1 DEF ScrubInv
      <4> QED BY <4>2, <1>6, <1>8, <3>2 DEF After
    <3> QED BY <3>1, <3>2
  <2> QED BY <2>5, <2>6
<1>11. ScrubInv'
  BY <1>5, <1>10 DEF ScrubInv
<1>12. UntouchedInv' /\ StopInv'
  BY <1>4 DEF UntouchedInv, StopInv
<1> QED BY <1>4, <1>7, <1>11, <1>12 DEF Data

\* The end of a pass: every address of the key area has been passed.
LEMMA PassLemma ==
  ASSUME Inv, ScrubPassDone, MemoryStep, HistoryStep, kill_active' \in BOOLEAN
  PROVE  PortTyped' /\ LatchInv' /\ Data' /\ fsm' \in States
         /\ dead_latch' \in BOOLEAN /\ system_halted' \in BOOLEAN
PROOF
<1> USE KeyAreaAssumption
<1>1. fsm = "ZEROIZE_RAM" /\ dead_latch /\ ~system_halted /\ TypeOK /\ ScrubInv
  BY DEF Inv, ScrubPassDone, LatchInv
<1>2. system_halted \in BOOLEAN /\ system_halted = FALSE
  BY <1>1, Zenon DEF TypeOK
<1>3. /\ scrub_addr > KEY_MEMORY_END /\ scrub_addr \in Nat
      /\ scrub_pass \in 0 .. LastPass /\ ram_write_enable' = FALSE
      /\ ram_addr' = ram_addr /\ ram_data' = ram_data
  BY <1>1 DEF TypeOK, ScrubPassDone, Passes
<1>4. \A a \in KeyArea : ram'[a] = After(a)
  BY <1>1, MemoryLemma
<1>5. ASSUME NEW a \in KeyArea
      PROVE  /\ overwrites'[a] >= scrub_pass + 1
             /\ overwrites'[a] \in 0 .. LastPass + 1
             /\ scrub_pass = LastPass => ram'[a] = "zero"
             /\ Pending(a)' = 0 /\ After(a)' = ram'[a]
  <2>1. /\ a \in Nat /\ a < scrub_addr /\ overwrites[a] \in 0 .. LastPass + 1
        /\ Pending(a) \in {0, 1}
    BY <1>1, <1>3 DEF TypeOK, KeyArea, Pending
  <2>2. overwrites[a] + Pending(a) >= scrub_pass + 1
    BY <1>1, <2>1 DEF ScrubInv, Passed
  <2>3. overwrites'[a] = IF overwrites[a] <= LastPass
                         THEN overwrites[a] + Pending(a) ELSE overwrites[a]
    BY <1>1, HistoryLemma
  <2>4. overwrites'[a] >= scrub_pass + 1 /\ overwrites'[a] \in 0 .. LastPass + 1
    BY <2>1, <2>2, <2>3, <1>3 DEF LastPass
  <2>5. scrub_pass = LastPass => ram'[a] = "zero"
    BY <2>1, <1>1, <1>4 DEF ScrubInv
  <2>6. Pending(a)' = 0 /\ After(a)' = ram'[a]
    BY <1>3 DEF Pending, After
  <2> QED BY <2>4, <2>5, <2>6
<1>6. CASE scrub_pass < LastPass
  <2>1. /\ Settle("ZEROIZE_RAM", system_halted)
        /\ scrub_pass' = scrub_pass + 1 /\ scrub_addr' = KEY_MEMORY_START
    BY <1>6 DEF ScrubPassDone
  <2>2. LatchInv' /\ fsm' \in {"ZEROIZE_RAM", "ZEROIZE_START"} /\ fsm' \in States
        /\ dead_latch' \in BOOLEAN /\ system_halted' \in BOOLEAN
    BY <1>1, <1>2, <2>1, SettleLemma DEF States
  <2>3. PortTyped'
    <3>1. ram_write_enable' \in BOOLEAN
      BY <1>3
    <3>2. scrub_addr' \in 0 .. KEY_MEMORY_END + 1
      BY <2>1
    <3>3. scrub_pass' \in Passes
      BY <1>3, <1>6, <2>1 DEF Passes, LastPass
    <3>4. ram_addr' \in 0 .. KEY_MEMORY_END /\ ram_data' \in Bytes
      BY <1>1, <1>3 DEF TypeOK
    <3> QED BY <3>1, <3>2, <3>3, <3>4 DEF PortTyped
  <2>4. \A a \in KeyArea : Passed(a)' = 0 /\ ~(a < scrub_addr')
    BY <2>1 DEF Passed, KeyArea
  <2>5. ScrubInv'
    BY <2>1, <2>4, <1>3, <1>5 DEF ScrubInv, LastPass
  <2>6. UntouchedInv' /\ StopInv'
    BY <2>2 DEF UntouchedInv, StopInv
  <2> QED BY <2>2, <2>3, <2>5, <2>6 DEF Data
<1>7. CASE ~(scrub_pass < LastPass)
  <2>1. /\ Settle("DEAD_LOOP", system_halted)
        /\ scrub_pass' = scrub_pass /\ scrub_addr' = scrub_addr
    BY <1>7 DEF ScrubPassDone, scrub
  <2>2. LatchInv' /\ fsm' \in {"DEAD_LOOP", "ZEROIZE_START"} /\ fsm' \in States
        /\ dead_latch' \in BOOLEAN /\ system_halted' \in BOOLEAN
    BY <1>1, <1>2, <2>1, SettleLemma DEF States
  <2>3. PortTyped'
    <3>1. ram_write_enable' \in BOOLEAN
      BY <1>3
    <3>2. scrub_addr' \in 0 .. KEY_MEMORY_END + 1 /\ scrub_pass' \in Passes
      BY <1>1, <2>1 DEF TypeOK
    <3>3. ram_addr' \in 0 .. KEY_MEMORY_END /\ ram_data' \in Bytes
      BY <1>1, <1>3 DEF TypeOK
    <3> QED BY <3>1, <3>2, <3>3 DEF PortTyped
  <2>4. scrub_pass = LastPass
    BY <1>3, <1>7 DEF LastPass
  <2>5. StopInv'
    BY <2>4, <1>3, <1>5 DEF StopInv, LastPass
  <2>6. UntouchedInv' /\ ScrubInv'
    BY <2>2 DEF UntouchedInv, ScrubInv
  <2> QED BY <2>2, <2>3, <2>5, <2>6 DEF Data
<1> QED BY <1>6, <1>7
-----------------------------------------------------------------------------
\* The quiet edges: normal work, a reset, the dead loop and a held kill.
LEMMA QuietLemma ==
  ASSUME Inv, MemoryStep, HistoryStep, kill_active' \in BOOLEAN,
         \/ NormalStep
         \/ ResetTaken /\ ResetStep
         \/ DeadStep
         \/ kill_active /\ Held
  PROVE  PortTyped' /\ LatchInv' /\ Data' /\ fsm' \in States
         /\ dead_latch' \in BOOLEAN /\ system_halted' \in BOOLEAN
PROOF
<1> USE KeyAreaAssumption
<1>1. TypeOK /\ LatchInv /\ UntouchedInv /\ StopInv
  BY DEF Inv
<1>2. \A a \in KeyArea : ram'[a] = After(a)
  BY <1>1, MemoryLemma
<1>3. CASE NormalStep \/ (ResetTaken /\ ResetStep)
  <2>1. Settle("NORMAL", FALSE) /\ ~dead_latch /\ fsm = "NORMAL"
    BY <1>1, <1>3 DEF NormalStep, ResetStep, ResetTaken, LatchInv
  <2>2. LatchInv' /\ fsm' \in {"NORMAL", "ZEROIZE_START"} /\ fsm' \in States
        /\ dead_latch' \in BOOLEAN /\ system_halted' \in BOOLEAN
    BY <2>1, SettleNormalLemma
  <2>3. ~ram_write_enable
    BY <1>1, <2>1 DEF UntouchedInv
  <2>4. ram_addr' = ram_addr /\ ram_data' = ram_data
    BY <1>3 DEF NormalStep, ResetStep, port
  <2>5. ~ram_write_enable' /\ ram_write_enable' \in BOOLEAN
    <3>1. CASE NormalStep
      BY <3>1 DEF NormalStep
    <3>2. CASE ResetStep
      <4>1. ram_write_enable' = ram_write_enable
        BY <3>2 DEF ResetStep, port
      <4>2. ram_write_enable \in BOOLEAN
        BY <1>1 DEF TypeOK
      <4> QED BY <4>1, <4>2, <2>3, Zenon
    <3> QED BY <3>1, <3>2, <1>3
  <2>6. scrub_addr' \in 0 .. KEY_MEMORY_END + 1 /\ scrub_pass' \in Passes
    <3>1. scrub_addr \in 0 .. KEY_MEMORY_END + 1 /\ scrub_pass \in Passes
      BY <1>1 DEF TypeOK
    <3>2. CASE NormalStep
      BY <3>1, <3>2 DEF NormalStep, scrub
    <3>3. CASE ResetStep
      BY <3>3 DEF ResetStep, Passes, LastPass
    <3> QED BY <3>2, <3>3, <1>3
  <2>7. ram_addr' \in 0 .. KEY_MEMORY_END /\ ram_data' \in Bytes
    BY <1>1, <2>4 DEF TypeOK
  <2>8. PortTyped'
    BY <2>5, <2>6, <2>7 DEF PortTyped
  <2>9. UntouchedInv'
    BY <1>1, <1>2, <2>1, <2>3, <2>5 DEF UntouchedInv, After
  <2>10. ScrubInv' /\ StopInv'
    BY <2>2 DEF ScrubInv, StopInv
  <2> QED BY <2>2, <2>8, <2>9, <2>10 DEF Data
<1>4. CASE DeadStep
  <2>1. fsm = "DEAD_LOOP" /\ dead_latch /\ Settle("DEAD_LOOP", TRUE)
    BY <1>1, <1>4 DEF DeadStep, LatchInv
  <2>2. LatchInv' /\ fsm' \in {"DEAD_LOOP", "ZEROIZE_START"} /\ fsm' \in States
        /\ dead_latch' \in BOOLEAN /\ system_halted' \in BOOLEAN
    BY <1>1, <2>1, SettleLemma DEF States
  <2>3. PortTyped'
    BY <1>1, <1>4 DEF DeadStep, scrub, TypeOK, PortTyped, Passes, LastPass
  <2>4. ASSUME NEW a \in KeyArea
        PROVE  ram'[a] = "zero" /\ overwrites'[a] = LastPass + 1
    <3>1. ~ram_write_enable /\ ram[a] = "zero" /\ overwrites[a] = LastPass + 1
      BY <1>1, <2>1 DEF StopInv
    <3>2. overwrites'[a] = overwrites[a]
      BY <3>1, <1>1, <2>1, HistoryLemma DEF LastPass
    <3> QED BY <3>1, <3>2, <1>2 DEF After
  <2>5. StopInv'
    BY <2>4, <1>4 DEF StopInv, DeadStep
  <2>6. UntouchedInv' /\ ScrubInv'
    BY <2>2 DEF UntouchedInv, ScrubInv
  <2> QED BY <2>2, <2>3, <2>5, <2>6 DEF Data
<1>5. CASE kill_active /\ Held
  <2>1. dead_latch /\ Settle("ZEROIZE_START", FALSE)
    BY <1>1, <1>5 DEF Held, LatchInv
  <2>2. LatchInv' /\ fsm' = "ZEROIZE_START" /\ fsm' \in States
        /\ dead_latch' \in BOOLEAN /\ system_halted' \in BOOLEAN
    BY <1>1, <2>1, SettleLemma DEF States
  <2>3. PortTyped'
    <3>1. UNCHANGED <<scrub_addr, scrub_pass, ram_addr, ram_data, ram_write_enable>>
      BY <1>5 DEF Held, scrub, port
    <3>2. PortTyped
      BY <1>1 DEF TypeOK, PortTyped
    <3> QED BY <3>1, <3>2 DEF PortTyped
  <2>4. UntouchedInv' /\ ScrubInv' /\ StopInv'
    BY <2>2 DEF UntouchedInv, ScrubInv, StopInv
  <2> QED BY <2>2, <2>3, <2>4 DEF Data
<1> QED BY <1>3, <1>4, <1>5
-----------------------------------------------------------------------------
LEMMA TickInv ==
  ASSUME Inv, ClockEdge
  PROVE  Inv'
PROOF
<1>1. TypeOK /\ WindowInv
  BY DEF Inv
<1>2. FactoryStep /\ MemoryStep /\ HistoryStep
  BY DEF ClockEdge, Tick
<1>3. kill_pin' \in BOOLEAN /\ factory_mode' \in BOOLEAN /\ rst_n' \in BOOLEAN
  BY DEF ClockEdge, AnyInputs
<1>4. /\ factory_timer' \in 0 .. FACTORY_TIMEOUT
      /\ factory_expired' \in BOOLEAN
      /\ powered' \in 0 .. FACTORY_TIMEOUT
      /\ WindowInv'
  BY <1>1, <1>2, FactoryLemma
<1>5. kill_active' \in BOOLEAN
  BY <1>3, <1>4, Zenon DEF kill_active
<1>6. ram' \in [KeyArea -> Bytes] /\ overwrites' \in [KeyArea -> 0 .. LastPass + 1]
  BY <1>1, <1>2, MemoryLemma, HistoryLemma
<1>7. \/ StartStep \/ ScrubByte \/ ScrubPassDone
      \/ NormalStep \/ (ResetTaken /\ ResetStep) \/ DeadStep \/ (kill_active /\ Held)
  BY DEF ClockEdge, Tick, FsmStep
<1>8. PortTyped' /\ LatchInv' /\ Data' /\ fsm' \in States
      /\ dead_latch' \in BOOLEAN /\ system_halted' \in BOOLEAN
  BY <1>2, <1>5, <1>7, StartLemma, ByteLemma, PassLemma, QuietLemma
<1>9. TypeOK'
  BY <1>3, <1>4, <1>6, <1>8 DEF TypeOK, PortTyped
<1> QED BY <1>4, <1>8, <1>9 DEF Inv, Data

LEMMA PinsInv ==
  ASSUME Inv, InputChange
  PROVE  Inv'
PROOF
<1>1. /\ UNCHANGED <<factory_timer, factory_expired, scrub_addr, scrub_pass,
                     ram_addr, ram_data, ram_write_enable, ram, overwrites, powered>>
      /\ Settle(fsm, system_halted)
      /\ kill_pin' \in BOOLEAN /\ factory_mode' \in BOOLEAN /\ rst_n' \in BOOLEAN
  BY DEF InputChange, AnyInputs, Pins, factory, scrub, port
<1>2. TypeOK /\ LatchInv
  BY DEF Inv
<1>3. factory_expired' \in BOOLEAN
  BY <1>1, <1>2 DEF TypeOK
<1>4. kill_active' \in BOOLEAN
  BY <1>1, <1>3, Zenon DEF kill_active
<1>5. /\ LatchInv' /\ fsm' \in {fsm, "ZEROIZE_START"} /\ fsm' \in States
      /\ dead_latch' \in BOOLEAN /\ system_halted' \in BOOLEAN
  <2>1. CASE dead_latch
    <3>1. fsm \in States \ {"NORMAL"} /\ system_halted \in BOOLEAN
          /\ (system_halted => fsm = "DEAD_LOOP")
      BY <1>2, <2>1 DEF TypeOK, LatchInv
    <3> QED BY <3>1, <1>1, <1>2, <1>4, <2>1, SettleLemma
  <2>2. CASE ~dead_latch
    <3>1. fsm = "NORMAL" /\ ~system_halted
      BY <1>2, <2>2 DEF LatchInv
    <3>2. system_halted = FALSE
      BY <3>1, <1>2, Zenon DEF TypeOK
    <3>3. Settle("NORMAL", FALSE)
      BY <3>1, <3>2, <1>1
    <3> QED BY <3>1, <3>3, <1>4, <2>2, SettleNormalLemma
  <2> QED BY <2>1, <2>2
<1>6. TypeOK'
  BY <1>1, <1>2, <1>5 DEF TypeOK
<1>7. WindowInv'
  BY <1>1 DEF Inv, WindowInv
<1>8. UntouchedInv' /\ StopInv'
  BY <1>1, <1>5 DEF Inv, UntouchedInv, StopInv
<1>9. ScrubInv'
  BY <1>1, <1>5 DEF Inv, ScrubInv, After, Pending, Passed
<1> QED BY <1>5, <1>6, <1>7, <1>8, <1>9 DEF Inv

LEMMA InitInv ==
  ASSUME Init
  PROVE  Inv
PROOF
<1> USE KeyAreaAssumption DEF Init, PowerUp
<1>1. TypeOK
  <2>1. kill_pin \in BOOLEAN /\ factory_mode \in BOOLEAN /\ rst_n \in BOOLEAN
        /\ dead_latch \in BOOLEAN /\ factory_expired \in BOOLEAN
        /\ ram_write_enable \in BOOLEAN /\ system_halted \in BOOLEAN
    BY Zenon
  <2>2. factory_timer \in 0 .. FACTORY_TIMEOUT /\ powered \in 0 .. FACTORY_TIMEOUT
    BY SMT
  <2>3. scrub_addr \in 0 .. KEY_MEMORY_END + 1 /\ scrub_pass \in Passes
    BY DEF Passes, LastPass
  <2>4. ram_addr \in 0 .. KEY_MEMORY_END /\ ram_data \in Bytes /\ fsm \in States
    BY DEF Bytes, States
  <2>5. ram \in [KeyArea -> Bytes]
    BY DEF Bytes
  <2>6. overwrites \in [KeyArea -> 0 .. LastPass + 1]
    BY DEF LastPass
  <2> QED BY <2>1, <2>2, <2>3, <2>4, <2>5, <2>6 DEF TypeOK
<1>2. LatchInv /\ WindowInv
  BY DEF LatchInv, WindowInv, kill_active
<1>3. UntouchedInv /\ ScrubInv /\ StopInv
  BY DEF UntouchedInv, ScrubInv, StopInv
<1> QED BY <1>1, <1>2, <1>3 DEF Inv

LEMMA StutterInv ==
  ASSUME Inv, UNCHANGED vars
  PROVE  Inv'
PROOF
<1>1. UNCHANGED <<kill_pin, factory_mode, rst_n, fsm, dead_latch, factory_timer,
                  factory_expired, scrub_addr, scrub_pass, ram_addr, ram_data,
                  ram_write_enable, system_halted, ram, overwrites, powered>>
  BY DEF vars, inputs, registers, factory, scrub, port
<1> QED BY <1>1 DEF Inv, TypeOK, LatchInv, WindowInv, UntouchedInv, ScrubInv,
                    StopInv, kill_active, After, Pending, Passed

\* The inductive invariant: the latch and the state agree, the factory window
\* follows the edges since power-up, and the history of the scrub is never
\* behind its pass and address.
THEOREM Invariance == Spec => []Inv
PROOF
<1>1. Inv /\ [Next]_vars => Inv'
  BY TickInv, PinsInv, StutterInv DEF Next
<1> QED BY InitInv, <1>1, PTL DEF Spec

\* Types of every register, for every size of the key area.
THEOREM Typing == Spec => []TypeOK
PROOF
<1>1. Inv => TypeOK
  BY DEF Inv
<1> QED BY <1>1, Invariance, PTL

\* A killed machine is never in NORMAL again, whatever resets follow.
THEOREM Latched == Spec => []NeverNormalAgain
PROOF
<1>1. Inv => NeverNormalAgain
  BY DEF Inv, LatchInv, NeverNormalAgain
<1> QED BY <1>1, Invariance, PTL

\* The machine stops only with every key address written with zero.
THEOREM Erasure == Spec => []StoppedMeansErased
PROOF
<1>1. Inv => StoppedMeansErased
  BY DEF Inv, LatchInv, StopInv, StoppedMeansErased
<1> QED BY <1>1, Invariance, PTL

\* The machine stops only after four whole passes since the last start.
THEOREM FourPasses == Spec => []FourPassesOverAll
PROOF
<1>1. Inv => FourPassesOverAll
  BY DEF Inv, StopInv, FourPassesOverAll
<1> QED BY <1>1, Invariance, PTL

\* Nothing but a kill touches the key area.
THEOREM Preservation == Spec => []KeysSurviveWithoutKill
PROOF
<1>1. Inv => KeysSurviveWithoutKill
  BY DEF Inv, LatchInv, UntouchedInv, KeysSurviveWithoutKill
<1> QED BY <1>1, Invariance, PTL

\* The keys are lost only to a kill, and a stopped machine has lost them all.
THEOREM Erased == Spec => []EraseExact
PROOF
<1>1. StoppedMeansErased /\ FourPassesOverAll /\ KeysSurviveWithoutKill => EraseExact
  BY DEF EraseExact
<1> QED BY <1>1, Erasure, FourPasses, Preservation, PTL

\* Once FACTORY_TIMEOUT edges have passed no kill level is masked any more.
THEOREM WindowCloses == Spec => []WindowClosesForGood
PROOF
<1>1. Inv => WindowClosesForGood
  <2>1. SUFFICES ASSUME Inv, powered = FACTORY_TIMEOUT, kill_pin
                 PROVE  dead_latch
    BY DEF WindowClosesForGood
  <2>2. factory_expired
    BY <2>1, KeyAreaAssumption DEF Inv, WindowInv
  <2>3. kill_active
    BY <2>1, <2>2, Zenon DEF kill_active
  <2> QED BY <2>1, <2>3 DEF Inv, LatchInv
<1> QED BY <1>1, Invariance, PTL
=============================================================================
