----------------------------- MODULE Board_proofs -----------------------------
(* What the run of MCBoard checks of each machine on a small instance,       *)
(* proved of the machine's own specification for every size of its timers:   *)
(* boot sequence, watchdog and Call-White MCU here, kill machine and         *)
(* heartbeat in the modules extended.  The last part composes them: MCBoard  *)
(* moves one machine at a time, and each keeps its promises there.           *)
EXTENDS MCBoard, KillProtocol_proofs, Heartbeat_proofs,
        FiniteSets, FiniteSetTheorems, SequenceTheorems, TLAPS

-----------------------------------------------------------------------------
(* The boot sequence                                                         *)

\* How long the lock has held when the supervisor is in each of its states,
\* and what the counters held on the way.
SettledInv ==
  /\ sup_state = "PLL_QUALIFY" =>
       /\ timer_counter = 0
       /\ lockedFor >= pll_stable_cnt
  /\ sup_state = "WARMUP" => lockedFor >= PLL_STABLE_MIN + timer_counter
  /\ sup_state \in {"POST_CHECK", "SYSTEM_ACTIVE"} => lockedFor = Boot!Settling

\* The board is in reset until the warm-up is over, and from then on nothing
\* that the self-test shows is older than this boot.
FreshTestInv ==
  /\ sup_state \in {"WAIT_PLL_LOCK", "PLL_QUALIFY", "WARMUP"} => global_rst
  /\ sup_state = "WARMUP" => post_state = "S_IDLE" /\ ~post_pass
  /\ sup_state = "POST_CHECK" /\ (post_state = "S_PASS" \/ post_pass) => tested
  /\ sup_state = "SYSTEM_ACTIVE" => tested

BootInv == Boot!TypeOK /\ SettledInv /\ FreshTestInv

LEMMA BootConstantsLemma ==
  /\ PLL_STABLE_MIN \in Nat \ {0}
  /\ WAIT_CYCLES \in Nat \ {0}
  /\ SETTLE_CYCLES \in Nat
  /\ Boot!Settling = PLL_STABLE_MIN + WAIT_CYCLES
PROOF BY TimerSizes DEF Boot!BootConstants, Boot!Settling

LEMMA BootStarts ==
  ASSUME Boot!Init
  PROVE  BootInv
PROOF
<1> USE BootConstantsLemma
<1>1. Boot!TypeOK
  <2>1. /\ pll_locked \in BOOLEAN /\ system_rdy \in BOOLEAN /\ global_rst \in BOOLEAN
        /\ post_pass \in BOOLEAN /\ post_fail \in BOOLEAN /\ tested \in BOOLEAN
    BY Zenon DEF Boot!Init, Boot!BootInit
  <2>2. /\ sup_state \in Boot!SupStates /\ post_state \in Boot!PostStates
        /\ timer_counter \in 0 .. WAIT_CYCLES /\ pll_stable_cnt \in 0 .. PLL_STABLE_MIN
        /\ startup_cnt \in 0 .. SETTLE_CYCLES /\ lockedFor \in 0 .. Boot!Settling
    BY DEF Boot!Init, Boot!BootInit, Boot!SupStates, Boot!PostStates
  <2> QED BY <2>1, <2>2, Zenon DEF Boot!TypeOK, Boot!Settling
<1>2. SettledInv
  BY DEF Boot!Init, Boot!BootInit, SettledInv
<1>3. FreshTestInv
  BY DEF Boot!Init, Boot!BootInit, FreshTestInv
<1> QED BY <1>1, <1>2, <1>3 DEF BootInv

\* An edge of the supervisor, whatever the self-test does on it.
LEMMA SupervisorTypes ==
  ASSUME Boot!TypeOK, Boot!SupervisorStep, Boot!HistoryStep
  PROVE  /\ sup_state' \in Boot!SupStates
         /\ timer_counter' \in 0 .. WAIT_CYCLES
         /\ pll_stable_cnt' \in 0 .. PLL_STABLE_MIN
         /\ system_rdy' \in BOOLEAN /\ global_rst' \in BOOLEAN
         /\ lockedFor' \in 0 .. Boot!Settling
PROOF
<1> USE BootConstantsLemma DEF Boot!Outputs, Boot!ClearCounters, Boot!KeepCounters
<1>1. lockedFor' \in 0 .. Boot!Settling
  BY DEF Boot!TypeOK, Boot!HistoryStep
<1>2. system_rdy' \in BOOLEAN /\ global_rst' \in BOOLEAN
  BY Zenon DEF Boot!SupervisorStep, Boot!WaitPllLock, Boot!PllQualify, Boot!Warmup,
               Boot!PostCheck, Boot!SystemActive, Boot!FailSafe
<1>3. /\ sup_state' \in Boot!SupStates
      /\ timer_counter' \in 0 .. WAIT_CYCLES
      /\ pll_stable_cnt' \in 0 .. PLL_STABLE_MIN
  BY DEF Boot!SupervisorStep, Boot!WaitPllLock, Boot!PllQualify, Boot!Warmup,
         Boot!PostCheck, Boot!SystemActive, Boot!FailSafe, Boot!TypeOK, Boot!SupStates
<1> QED BY <1>1, <1>2, <1>3

LEMMA PostTypes ==
  ASSUME Boot!TypeOK, NEW answer \in BOOLEAN, NEW verdict,
         Boot!PostStep(answer, verdict)
  PROVE  /\ post_state' \in Boot!PostStates
         /\ startup_cnt' \in 0 .. SETTLE_CYCLES
         /\ post_pass' \in BOOLEAN /\ post_fail' \in BOOLEAN
PROOF
<1> USE BootConstantsLemma DEF Boot!PostMoves
<1>1. post_pass' \in BOOLEAN /\ post_fail' \in BOOLEAN
  BY Zenon DEF Boot!TypeOK, Boot!PostStep, Boot!PostReset, Boot!PostIdle,
     Boot!PostLoadKey, Boot!PostWaits, Boot!PostCompare, Boot!PostPass, Boot!PostFail
<1>2. post_state' \in Boot!PostStates /\ startup_cnt' \in 0 .. SETTLE_CYCLES
  BY DEF Boot!TypeOK, Boot!PostStates, Boot!PostStep, Boot!PostReset, Boot!PostIdle,
     Boot!PostLoadKey, Boot!PostWaits, Boot!PostCompare, Boot!PostPass, Boot!PostFail
<1> QED BY <1>1, <1>2

LEMMA SettledStep ==
  ASSUME BootInv, Boot!SupervisorStep, Boot!HistoryStep
  PROVE  SettledInv'
PROOF
<1> USE BootConstantsLemma
    DEF BootInv, SettledInv, Boot!TypeOK, Boot!HistoryStep, Boot!Settling,
        Boot!Outputs, Boot!ClearCounters, Boot!KeepCounters
<1>1. CASE Boot!WaitPllLock
  BY <1>1 DEF Boot!WaitPllLock
<1>2. CASE Boot!PllQualify
  BY <1>2 DEF Boot!PllQualify
<1>3. CASE Boot!Warmup
  BY <1>3 DEF Boot!Warmup
<1>4. CASE Boot!PostCheck
  BY <1>4 DEF Boot!PostCheck
<1>5. CASE Boot!SystemActive
  BY <1>5 DEF Boot!SystemActive
<1>6. CASE Boot!FailSafe
  BY <1>6 DEF Boot!FailSafe
<1> QED BY <1>1, <1>2, <1>3, <1>4, <1>5, <1>6 DEF Boot!SupervisorStep

LEMMA FreshTestStep ==
  ASSUME BootInv, NEW answer \in BOOLEAN, NEW verdict \in Boot!Verdicts,
         Boot!BootTick(answer, verdict)
  PROVE  FreshTestInv'
PROOF
<1>1. FreshTestInv /\ Boot!TypeOK
  BY DEF BootInv
<1>2. Boot!SupervisorStep /\ Boot!PostStep(answer, verdict) /\ Boot!HistoryStep
  BY DEF Boot!BootTick
<1>3. global_rst => post_state' = "S_IDLE" /\ post_pass' = FALSE
  BY <1>2 DEF Boot!PostStep, Boot!PostReset
<1>4. post_pass' => post_pass \/ post_state = "S_PASS"
  BY <1>2, <1>1 DEF Boot!PostStep, Boot!PostReset, Boot!PostIdle, Boot!PostLoadKey,
     Boot!PostWaits, Boot!PostCompare, Boot!PostPass, Boot!PostFail, Boot!PostMoves,
     Boot!TypeOK
<1>5. tested' = IF sup_state \in {"WAIT_PLL_LOCK", "FAIL_SAFE"} THEN FALSE
                ELSE tested \/ (post_state # "S_PASS" /\ post_state' = "S_PASS")
  BY <1>2 DEF Boot!HistoryStep
<1> USE DEF Boot!Outputs
<1>6. CASE Boot!WaitPllLock
  BY <1>6 DEF Boot!WaitPllLock, FreshTestInv
<1>7. CASE Boot!PllQualify
  BY <1>1, <1>3, <1>7 DEF Boot!PllQualify, FreshTestInv
<1>8. CASE Boot!Warmup
  BY <1>1, <1>3, <1>8 DEF Boot!Warmup, FreshTestInv
<1>9. CASE Boot!PostCheck
  BY <1>1, <1>3, <1>4, <1>5, <1>9 DEF Boot!PostCheck, FreshTestInv
<1>10. CASE Boot!SystemActive
  BY <1>1, <1>5, <1>10 DEF Boot!SystemActive, FreshTestInv
<1>11. CASE Boot!FailSafe
  BY <1>11 DEF Boot!FailSafe, FreshTestInv
<1> QED BY <1>2, <1>6, <1>7, <1>8, <1>9, <1>10, <1>11 DEF Boot!SupervisorStep

LEMMA BootStep ==
  ASSUME BootInv, [Boot!Next]_Boot!vars
  PROVE  BootInv'
PROOF
<1>1. CASE Boot!Next
  <2>1. PICK answer \in BOOLEAN, verdict \in Boot!Verdicts :
          Boot!BootTick(answer, verdict) /\ pll_locked' \in BOOLEAN
    BY <1>1, Zenon DEF Boot!Next, Boot!Tick
  <2>2. Boot!SupervisorStep /\ Boot!PostStep(answer, verdict) /\ Boot!HistoryStep
    BY <2>1, Zenon DEF Boot!BootTick
  <2>3. tested' \in BOOLEAN
    BY <2>2, Zenon DEF BootInv, Boot!TypeOK, Boot!HistoryStep
  <2>4. Boot!TypeOK'
    BY <2>1, <2>2, <2>3, SupervisorTypes, PostTypes, Zenon DEF BootInv, Boot!TypeOK,
       Boot!Settling, Boot!SupStates, Boot!PostStates
  <2> QED BY <2>1, <2>2, <2>4, SettledStep, FreshTestStep DEF BootInv
<1>2. CASE UNCHANGED Boot!vars
  BY <1>2 DEF BootInv, SettledInv, FreshTestInv, Boot!vars, Boot!bootVars,
     Boot!supervisor, Boot!post, Boot!history, Boot!TypeOK, Boot!Settling
<1> QED BY <1>1, <1>2

\* The boot sequence keeps the types and the order of its steps, whatever the
\* lock and the AES core do (system_supervisor, post_self_test).
THEOREM BootOrdered == Boot!Spec => []BootInv
PROOF
<1>1. BootInv /\ [Boot!Next]_Boot!vars => BootInv'
  BY BootStep
<1> QED BY <1>1, BootStarts, PTL DEF Boot!Spec

\* For every size of the timers: reset is released and ready raised only after
\* an unbroken lock of the whole qualification and warm-up, and ready only on
\* a self-test of this boot.
THEOREM BootIsGated == Boot!Spec => BootGates
PROOF
<1>1. ASSUME BootInv, [Boot!Next]_Boot!vars
      PROVE  /\ [Boot!Releases \/ Boot!Activates => lockedFor = Boot!Settling]_Boot!vars
             /\ [Boot!Activates => tested]_Boot!vars
  <2>1. CASE Boot!Next
    <3>1. Boot!SupervisorStep
      BY <2>1 DEF Boot!Next, Boot!Tick, Boot!BootTick
    <3>2. ~global_rst' => sup_state \in {"POST_CHECK", "SYSTEM_ACTIVE"}
      BY <3>1 DEF Boot!SupervisorStep, Boot!WaitPllLock, Boot!PllQualify, Boot!Warmup,
         Boot!PostCheck, Boot!SystemActive, Boot!FailSafe, Boot!Outputs
    <3>3. system_rdy' => sup_state = "SYSTEM_ACTIVE"
      BY <3>1 DEF Boot!SupervisorStep, Boot!WaitPllLock, Boot!PllQualify, Boot!Warmup,
         Boot!PostCheck, Boot!SystemActive, Boot!FailSafe, Boot!Outputs
    <3> QED BY <1>1, <3>2, <3>3 DEF BootInv, SettledInv, FreshTestInv,
               Boot!Releases, Boot!Activates
  <2>2. CASE UNCHANGED Boot!vars
    BY <2>2
  <2> QED BY <1>1, <2>1, <2>2
<1> QED BY <1>1, BootOrdered, PTL DEF Boot!Spec, BootGates, Boot!ReleasedMeansSettled,
           Boot!ReadyMeansTested
-----------------------------------------------------------------------------
(* The watchdog                                                              *)

\* Edges that count towards the kill since the last voted beat.
Elapsed == fail_counter * (TIMEOUT_CYCLES + 1) + timer_cnt

\* The line as the filter still holds it, 0 being the level that the next edge
\* samples and 7 the oldest sample of the vote.
Line == [i \in 0 .. 7 |-> IF i = 0 THEN target_heartbeat
                          ELSE IF i <= 2 THEN heartbeat_sync[i - 1]
                          ELSE vote_shift[i - 3]]

\* The next change of the voted level is the one between i and i + 1.
Oldest(i) == Line[i] # Line[i + 1] /\ \A j \in (i + 1) .. 6 : Line[j] = Line[j + 1]

CountInv == /\ fail_counter < MAX_FAIL_COUNT
            /\ ~grace_done => grace_counter < GRACE_CYCLES

\* The newest level fills the filter for as long as it has been held, and once
\* it fills the vote it is the vote.
FrontInv ==
  /\ \A k \in 1 .. 7 : /\ held >= k => Line[k] = Line[0]
                       /\ held = k - 1 => Line[k] # Line[0]
  /\ held >= 6 => vote_result = Line[0]
  /\ held >= 7 => last_heartbeat = Line[0]

\* On a regular line the vote is the line, a fixed number of edges late, and
\* its next change comes before the last timeout.
RegularInv ==
  regular =>
    /\ held < Watchdog!KillAfter
    /\ \A i \in 1 .. 5 : Line[i - 1] # Line[i] =>
                           Line[i + 1] = Line[i] /\ Line[i + 2] = Line[i]
    /\ vote_result = Line[6] /\ last_heartbeat = Line[7]
    /\ ~kill_latched
    /\ held >= 7 => Elapsed <= held - 7
    /\ \A i \in 0 .. 6 : Oldest(i) => Elapsed <= Watchdog!KillAfter - 7 + i

\* A still line is timed from the moment its last change has left the filter.
ArmedInv ==
  /\ armed <= held
  /\ armed > 0 => grace_done
  /\ armed >= 7 => kill_latched \/ Elapsed >= armed - 7
  /\ armed >= Watchdog!Cap => kill_latched

WatchdogInv == Watchdog!TypeOK /\ CountInv /\ FrontInv /\ RegularInv /\ ArmedInv

LEMMA WatchdogConstantsLemma ==
  /\ TIMEOUT_CYCLES \in Nat \ {0}
  /\ MAX_FAIL_COUNT \in Nat \ {0}
  /\ GRACE_CYCLES \in Nat \ {0}
  /\ Watchdog!KillAfter \in Nat /\ Watchdog!KillAfter > 7
  /\ Watchdog!Cap = Watchdog!KillAfter + 7
PROOF
<1>1. /\ TIMEOUT_CYCLES \in Nat \ {0} /\ MAX_FAIL_COUNT \in Nat \ {0}
      /\ GRACE_CYCLES \in Nat \ {0} /\ Watchdog!KillAfter > 7
  BY TimerSizes DEF Watchdog!MonitorConstants, Watchdog!WatchdogConstants, Watchdog!Lag
<1>2. Watchdog!KillAfter \in Nat
  BY <1>1 DEF Watchdog!KillAfter
<1> QED BY <1>1, <1>2 DEF Watchdog!Cap, Watchdog!Lag

\* A set of samples with three members is a majority of five, and one that
\* misses three is not.
LEMMA ThreeOfFive ==
  ASSUME NEW S \in SUBSET (0 .. 4),
         NEW a \in 0 .. 4, NEW b \in 0 .. 4, NEW c \in 0 .. 4,
         a # b, b # c, a # c
  PROVE  /\ {a, b, c} \subseteq S => Cardinality(S) >= 3
         /\ {a, b, c} \cap S = {} => ~(Cardinality(S) >= 3)
PROOF
<1>1. IsFiniteSet(0 .. 4) /\ Cardinality(0 .. 4) = 5
  <2>1. \A n \in Nat : IsFiniteSet(0 .. n) /\ Cardinality(0 .. n) = n + 1
    BY FS_Interval
  <2>2. IsFiniteSet(0 .. 4) /\ Cardinality(0 .. 4) = 4 + 1
    BY <2>1, 4 \in Nat, Zenon
  <2> QED BY <2>2
<1>2. IsFiniteSet(S) /\ Cardinality(S) \in Nat
  BY <1>1, FS_Subset, FS_CardinalityType
<1>3. IsFiniteSet({a, b, c}) /\ Cardinality({a, b, c}) = 3
  <2>1. IsFiniteSet({a}) /\ Cardinality({a}) = 1
    BY FS_Singleton
  <2>2. {a, b} = {a} \cup {b} /\ b \notin {a}
    OBVIOUS
  <2>3. IsFiniteSet({a, b}) /\ Cardinality({a, b}) = 2
    BY <2>1, <2>2, FS_AddElement
  <2>4. {a, b, c} = {a, b} \cup {c} /\ c \notin {a, b}
    OBVIOUS
  <2> QED BY <2>3, <2>4, FS_AddElement
<1>4. ASSUME {a, b, c} \subseteq S PROVE Cardinality(S) >= 3
  BY <1>2, <1>3, <1>4, FS_Subset
<1>5. ASSUME {a, b, c} \cap S = {} PROVE ~(Cardinality(S) >= 3)
  <2>1. S \subseteq (0 .. 4) \ {a, b, c}
    BY <1>5
  <2>2. (0 .. 4) \cap {a, b, c} = {a, b, c}
    OBVIOUS
  <2>3. /\ IsFiniteSet((0 .. 4) \ {a, b, c})
        /\ Cardinality((0 .. 4) \ {a, b, c}) = 2
    BY <1>1, <1>3, <2>2, FS_Difference
  <2>4. S \in SUBSET ((0 .. 4) \ {a, b, c})
    BY <2>1
  <2>5. Cardinality(S) <= Cardinality((0 .. 4) \ {a, b, c})
    BY <2>3, <2>4, FS_Subset, Zenon
  <2> QED BY <1>2, <2>3, <2>5
<1> QED BY <1>4, <1>5

\* Three equal samples decide the vote.
LEMMA VoteLemma ==
  ASSUME vote_shift \in [0 .. 4 -> BOOLEAN],
         NEW a \in 0 .. 4, NEW b \in 0 .. 4, NEW c \in 0 .. 4,
         a # b, b # c, a # c,
         vote_shift[b] = vote_shift[a], vote_shift[c] = vote_shift[a]
  PROVE  Watchdog!Majority = vote_shift[a]
PROOF
<1> DEFINE S == {i \in 0 .. 4 : vote_shift[i]}
<1>1. S \in SUBSET (0 .. 4)
  OBVIOUS
<1>2. Watchdog!Majority <=> Cardinality(S) >= 3
  <2>1. Watchdog!Cardinality(S) = Cardinality(S)
    BY Zenon DEF Watchdog!Cardinality, Cardinality
  <2> QED BY <2>1, Zenon DEF Watchdog!Majority
<1>3. vote_shift[a] \in BOOLEAN /\ Watchdog!Majority \in BOOLEAN
  BY DEF Watchdog!Majority
<1>4. CASE vote_shift[a] = TRUE
  <2>1. {a, b, c} \subseteq S
    BY <1>4
  <2>2. Cardinality(S) >= 3
    BY <1>1, <2>1, ThreeOfFive
  <2> QED BY <1>2, <1>4, <2>2, Zenon
<1>5. CASE vote_shift[a] = FALSE
  <2>1. {a, b, c} \cap S = {}
    BY <1>5
  <2>2. ~(Cardinality(S) >= 3)
    BY <1>1, <2>1, ThreeOfFive
  <2> QED BY <1>2, <1>3, <1>5, <2>2, Zenon
<1> QED BY <1>3, <1>4, <1>5

LEMMA LineLemma ==
  ASSUME Watchdog!TypeOK
  PROVE  /\ Line \in [0 .. 7 -> BOOLEAN]
         /\ Line[0] = target_heartbeat
         /\ Line[1] = heartbeat_sync[0] /\ Line[2] = heartbeat_sync[1]
         /\ Line[3] = vote_shift[0] /\ Line[4] = vote_shift[1]
         /\ Line[5] = vote_shift[2] /\ Line[6] = vote_shift[3]
         /\ Line[7] = vote_shift[4]
PROOF BY DEF Line, Watchdog!TypeOK

\* An edge moves every sample one place on and takes the vote.
LEMMA FilterLemma ==
  ASSUME Watchdog!TypeOK, Watchdog!FilterStep, target_heartbeat' \in BOOLEAN
  PROVE  /\ heartbeat_sync' \in [0 .. 1 -> BOOLEAN]
         /\ vote_shift' \in [0 .. 4 -> BOOLEAN]
         /\ vote_result' \in BOOLEAN /\ last_heartbeat' \in BOOLEAN
         /\ \A i \in 1 .. 7 : Line'[i] = Line[i - 1]
         /\ Line'[0] = target_heartbeat'
         /\ last_heartbeat' = vote_result
PROOF
<1>1. /\ heartbeat_sync' \in [0 .. 1 -> BOOLEAN]
      /\ heartbeat_sync'[0] = target_heartbeat
      /\ heartbeat_sync'[1] = heartbeat_sync[0]
  BY DEF Watchdog!TypeOK, Watchdog!FilterStep
<1>2. /\ vote_shift' \in [0 .. 4 -> BOOLEAN]
      /\ vote_shift'[0] = heartbeat_sync[1]
      /\ vote_shift'[1] = vote_shift[0] /\ vote_shift'[2] = vote_shift[1]
      /\ vote_shift'[3] = vote_shift[2] /\ vote_shift'[4] = vote_shift[3]
  BY DEF Watchdog!TypeOK, Watchdog!FilterStep
<1>3. /\ Line'[0] = target_heartbeat'
      /\ Line'[1] = heartbeat_sync'[0] /\ Line'[2] = heartbeat_sync'[1]
      /\ Line'[3] = vote_shift'[0] /\ Line'[4] = vote_shift'[1]
      /\ Line'[5] = vote_shift'[2] /\ Line'[6] = vote_shift'[3]
      /\ Line'[7] = vote_shift'[4]
  BY DEF Line
<1>4. /\ Line'[1] = Line[0] /\ Line'[2] = Line[1] /\ Line'[3] = Line[2]
      /\ Line'[4] = Line[3] /\ Line'[5] = Line[4] /\ Line'[6] = Line[5]
      /\ Line'[7] = Line[6]
  BY <1>1, <1>2, <1>3, LineLemma, Zenon
<1>5. \A i \in 1 .. 7 : Line'[i] = Line[i - 1]
  BY <1>4
<1>6. vote_result' \in BOOLEAN
  BY DEF Watchdog!FilterStep, Watchdog!Majority
<1>7. last_heartbeat' \in BOOLEAN /\ last_heartbeat' = vote_result
  BY DEF Watchdog!FilterStep, Watchdog!TypeOK
<1> QED BY <1>1, <1>2, <1>3, <1>5, <1>6, <1>7

\* The vote on a filter whose middle level fills three of the five samples.
LEMMA VotedLemma ==
  ASSUME Watchdog!TypeOK, Watchdog!FilterStep
  PROVE  /\ Line[3] = Line[5] /\ Line[4] = Line[5] => vote_result' = Line[5]
         /\ Line[4] = Line[5] /\ Line[6] = Line[5] => vote_result' = Line[5]
         /\ Line[6] = Line[5] /\ Line[7] = Line[5] => vote_result' = Line[5]
PROOF
<1>1. vote_shift \in [0 .. 4 -> BOOLEAN] /\ vote_result' = Watchdog!Majority
  BY DEF Watchdog!TypeOK, Watchdog!FilterStep
<1>2. 0 \in 0 .. 4 /\ 1 \in 0 .. 4 /\ 2 \in 0 .. 4 /\ 3 \in 0 .. 4 /\ 4 \in 0 .. 4
  OBVIOUS
<1>3. /\ vote_shift[0] = vote_shift[2] /\ vote_shift[1] = vote_shift[2]
           => Watchdog!Majority = vote_shift[2]
      /\ vote_shift[1] = vote_shift[2] /\ vote_shift[3] = vote_shift[2]
           => Watchdog!Majority = vote_shift[2]
      /\ vote_shift[3] = vote_shift[2] /\ vote_shift[4] = vote_shift[2]
           => Watchdog!Majority = vote_shift[2]
  BY <1>1, <1>2, VoteLemma
<1> QED BY <1>1, <1>3, LineLemma, Zenon

\* Two digits in base k make one number, at its greatest when both are.
LEMMA Digits ==
  ASSUME NEW k \in Nat, NEW n \in Nat, NEW f \in Nat, NEW c \in Nat, c < k, f < n
  PROVE  /\ f * k + c \in Nat /\ f * k + c < n * k
         /\ f * k + c = n * k - 1 <=> f = n - 1 /\ c = k - 1
PROOF
<1>1. PICK left \in Nat : n = left + f + 1
  <2>1. n - f - 1 \in Nat /\ n = (n - f - 1) + f + 1
    OBVIOUS
  <2> QED BY <2>1
<1>2. n * k = left * k + f * k + k
  BY <1>1
<1>3. left * k \in Nat /\ f * k \in Nat /\ n * k \in Nat
  BY <1>1
<1>4. CASE left = 0
  <2>1. left * k = 0
    BY <1>4
  <2> QED BY <1>1, <1>2, <1>3, <1>4, <2>1
<1>5. CASE left > 0
  <2>1. left * k = (left - 1) * k + k /\ (left - 1) * k \in Nat
    BY <1>1, <1>5
  <2> QED BY <1>1, <1>2, <1>3, <1>5, <2>1
<1> QED BY <1>1, <1>4, <1>5

\* The timeouts counted and the time since the last one make one number, and
\* the kill comes when it is at its greatest.
LEMMA ElapsedLemma ==
  ASSUME Watchdog!TimerTypeOK, CountInv
  PROVE  /\ Elapsed \in Nat /\ Elapsed < Watchdog!KillAfter
         /\ Elapsed = Watchdog!KillAfter - 1 <=>
              fail_counter = MAX_FAIL_COUNT - 1 /\ timer_cnt = TIMEOUT_CYCLES
PROOF
<1>1. PICK k \in Nat : k = TIMEOUT_CYCLES + 1
  BY WatchdogConstantsLemma
<1>2. /\ MAX_FAIL_COUNT \in Nat
      /\ fail_counter \in Nat /\ fail_counter < MAX_FAIL_COUNT
      /\ timer_cnt \in Nat /\ timer_cnt < k
  BY <1>1, WatchdogConstantsLemma DEF Watchdog!TimerTypeOK, CountInv
<1>3. Elapsed = fail_counter * k + timer_cnt /\ Watchdog!KillAfter = MAX_FAIL_COUNT * k
  BY <1>1 DEF Elapsed, Watchdog!KillAfter
<1>4. /\ fail_counter * k + timer_cnt \in Nat
      /\ fail_counter * k + timer_cnt < MAX_FAIL_COUNT * k
      /\ fail_counter * k + timer_cnt = MAX_FAIL_COUNT * k - 1 <=>
           fail_counter = MAX_FAIL_COUNT - 1 /\ timer_cnt = k - 1
  BY <1>1, <1>2, Digits
<1>5. TIMEOUT_CYCLES = k - 1
  BY <1>1, WatchdogConstantsLemma
<1> QED BY <1>3, <1>4, <1>5, Zenon

\* An edge of the timers outside reset.
LEMMA TimerLemma ==
  ASSUME Watchdog!TimerTypeOK, CountInv, NEW edge \in BOOLEAN,
         wd_rst_n, wd_rst_n', wd_rst_n' \in BOOLEAN, Watchdog!TimerStep(edge)
  PROVE  /\ Watchdog!TimerTypeOK' /\ CountInv'
         /\ kill_latched => kill_latched'
         /\ grace_done => grace_done'
         /\ edge => Elapsed' = 0 /\ (kill_latched' <=> kill_latched)
         /\ Elapsed' <= Elapsed + 1
         /\ ~edge /\ grace_done /\ ~kill_latched =>
              IF Elapsed = Watchdog!KillAfter - 1 THEN kill_latched'
              ELSE Elapsed' = Elapsed + 1
         /\ kill_latched' /\ ~kill_latched => Elapsed = Watchdog!KillAfter - 1
PROOF
<1> USE WatchdogConstantsLemma
<1>1. /\ grace_counter' \in 0 .. GRACE_CYCLES /\ grace_done' \in BOOLEAN
      /\ ~grace_done' => grace_counter' < GRACE_CYCLES
      /\ grace_done => grace_done'
  <2>1. Watchdog!GraceStep
    BY Zenon DEF Watchdog!TimerStep
  <2>2. CASE grace_done
    BY <2>1, <2>2 DEF Watchdog!GraceStep, Watchdog!TimerTypeOK, CountInv
  <2>3. CASE ~grace_done /\ grace_counter = GRACE_CYCLES - 1
    <3>1. grace_done' = TRUE /\ grace_counter' = grace_counter
      BY <2>1, <2>3, Zenon DEF Watchdog!GraceStep
    <3> QED BY <3>1 DEF Watchdog!TimerTypeOK
  <2>4. CASE ~grace_done /\ grace_counter # GRACE_CYCLES - 1
    <3>1. grace_done' = grace_done /\ grace_counter' = grace_counter + 1
      BY <2>1, <2>4, Zenon DEF Watchdog!GraceStep
    <3> QED BY <2>4, <3>1 DEF Watchdog!TimerTypeOK, CountInv
  <2> QED BY <2>2, <2>3, <2>4
<1>2. /\ Elapsed \in Nat /\ Elapsed < Watchdog!KillAfter
      /\ Elapsed = Watchdog!KillAfter - 1 <=>
              fail_counter = MAX_FAIL_COUNT - 1 /\ timer_cnt = TIMEOUT_CYCLES
  BY ElapsedLemma
<1>3. /\ timer_cnt \in 0 .. TIMEOUT_CYCLES /\ fail_counter \in 0 .. MAX_FAIL_COUNT
      /\ fail_counter < MAX_FAIL_COUNT /\ kill_latched \in BOOLEAN
  BY DEF Watchdog!TimerTypeOK, CountInv
<1> DEFINE Goal ==
      /\ timer_cnt' \in 0 .. TIMEOUT_CYCLES /\ fail_counter' \in 0 .. MAX_FAIL_COUNT
      /\ fail_counter' < MAX_FAIL_COUNT /\ kill_latched' \in BOOLEAN
      /\ kill_latched => kill_latched'
      /\ edge => Elapsed' = 0 /\ (kill_latched' <=> kill_latched)
      /\ Elapsed' <= Elapsed + 1
      /\ ~edge /\ grace_done /\ ~kill_latched =>
           IF Elapsed = Watchdog!KillAfter - 1 THEN kill_latched'
           ELSE Elapsed' = Elapsed + 1
      /\ kill_latched' /\ ~kill_latched => Elapsed = Watchdog!KillAfter - 1
<1>4. ASSUME edge, Watchdog!Beat PROVE Goal
  <2>1. timer_cnt' = 0 /\ fail_counter' = 0 /\ kill_latched' = kill_latched
    BY <1>4 DEF Watchdog!Beat
  <2>2. Elapsed' = 0
    BY <2>1 DEF Elapsed
  <2>3. kill_latched' \in BOOLEAN /\ (kill_latched' <=> kill_latched)
    BY <2>1, <1>3, Zenon
  <2> QED BY <1>2, <1>3, <1>4, <2>1, <2>2, <2>3
<1>5. ASSUME ~edge, Watchdog!Waiting PROVE Goal
  <2>1. /\ timer_cnt' = timer_cnt + 1 /\ timer_cnt < TIMEOUT_CYCLES
        /\ fail_counter' = fail_counter /\ kill_latched' = kill_latched
    BY <1>5 DEF Watchdog!Waiting
  <2>2. Elapsed' = Elapsed + 1
    BY <2>1, <1>3 DEF Elapsed
  <2>3. kill_latched' \in BOOLEAN /\ (kill_latched' <=> kill_latched)
    BY <2>1, <1>3, Zenon
  <2> QED BY <1>2, <1>3, <1>5, <2>1, <2>2, <2>3
<1>6. ASSUME ~edge, Watchdog!TimeoutIgnored PROVE Goal
  <2>1. /\ timer_cnt' = timer_cnt /\ fail_counter' = fail_counter
        /\ kill_latched' = kill_latched /\ (~grace_done \/ kill_latched)
    BY <1>6 DEF Watchdog!TimeoutIgnored
  <2>2. Elapsed' = Elapsed
    BY <2>1 DEF Elapsed
  <2>3. kill_latched' \in BOOLEAN /\ (kill_latched' <=> kill_latched)
    BY <2>1, <1>3, Zenon
  <2> QED BY <1>2, <1>3, <1>6, <2>1, <2>2, <2>3
<1>7. ASSUME ~edge, Watchdog!TimeoutCounted, fail_counter < MAX_FAIL_COUNT - 1
      PROVE  Goal
  <2>1. /\ timer_cnt = TIMEOUT_CYCLES /\ timer_cnt' = 0
        /\ fail_counter' = fail_counter + 1
        /\ kill_latched' = kill_latched /\ ~kill_latched
    BY <1>7 DEF Watchdog!TimeoutCounted
  <2>2. Elapsed' = Elapsed + 1
    <3>1. Elapsed' = (fail_counter + 1) * (TIMEOUT_CYCLES + 1)
      BY <2>1, <1>3 DEF Elapsed
    <3>2. Elapsed = fail_counter * (TIMEOUT_CYCLES + 1) + TIMEOUT_CYCLES
      BY <2>1 DEF Elapsed
    <3> QED BY <3>1, <3>2, <1>3
  <2>3. kill_latched' \in BOOLEAN /\ (kill_latched' <=> kill_latched)
    BY <2>1, <1>3, Zenon
  <2> QED BY <1>2, <1>3, <1>7, <2>1, <2>2, <2>3
<1>8. ASSUME ~edge, Watchdog!TimeoutCounted, ~(fail_counter < MAX_FAIL_COUNT - 1)
      PROVE  Goal
  <2>1. /\ timer_cnt = TIMEOUT_CYCLES /\ timer_cnt' = timer_cnt
        /\ fail_counter' = fail_counter
    BY <1>8 DEF Watchdog!TimeoutCounted
  <2>2. Elapsed' = Elapsed
    BY <2>1 DEF Elapsed
  <2>3. fail_counter = MAX_FAIL_COUNT - 1
    BY <1>3, <1>8
  <2>4. kill_latched' \in BOOLEAN /\ kill_latched'
    BY <1>8, Zenon DEF Watchdog!TimeoutCounted
  <2>5. Elapsed = Watchdog!KillAfter - 1 /\ Elapsed' <= Elapsed + 1
    BY <1>2, <2>1, <2>2, <2>3
  <2>6. /\ timer_cnt' \in 0 .. TIMEOUT_CYCLES /\ fail_counter' \in 0 .. MAX_FAIL_COUNT
        /\ fail_counter' < MAX_FAIL_COUNT
    BY <1>3, <2>1
  <2> QED BY <1>8, <2>4, <2>5, <2>6, Zenon
<1>9. Goal
  BY <1>4, <1>5, <1>6, <1>7, <1>8 DEF Watchdog!TimerStep
<1> QED BY <1>1, <1>9 DEF Watchdog!TimerTypeOK, CountInv

\* An edge out of reset, as the filter, the timers and the line see it.
LEMMA RunningEdge ==
  ASSUME WatchdogInv, Watchdog!Tick, wd_rst_n, wd_rst_n'
  PROVE  /\ Watchdog!FilterStep /\ Watchdog!TimerStep(Watchdog!VotedEdge)
         /\ target_heartbeat' \in BOOLEAN /\ wd_rst_n' \in BOOLEAN
         /\ \A i \in 1 .. 7 : Line'[i] = Line[i - 1]
         /\ Line'[0] = target_heartbeat' /\ Line[0] = target_heartbeat
         /\ Line \in [0 .. 7 -> BOOLEAN]
         /\ Line'[0] = Line[0] =>
              /\ held' = IF held < Watchdog!Cap THEN held + 1 ELSE Watchdog!Cap
              /\ armed' = IF ~grace_done THEN 0
                          ELSE IF armed < Watchdog!Cap THEN armed + 1 ELSE Watchdog!Cap
              /\ regular' <=> regular /\ held + 1 < Watchdog!KillAfter
         /\ Line'[0] # Line[0] =>
              /\ held' = 0 /\ armed' = 0
              /\ regular' <=> regular /\ held + 1 >= 3
         /\ regular' \in BOOLEAN
PROOF
<1>1. Watchdog!TypeOK
  BY DEF WatchdogInv
<1>2. /\ Watchdog!FilterStep /\ Watchdog!TimerStep(Watchdog!VotedEdge)
      /\ target_heartbeat' \in BOOLEAN /\ wd_rst_n' \in BOOLEAN
      /\ Watchdog!HistoryStep
  BY Zenon DEF Watchdog!Tick
<1>3. /\ \A i \in 1 .. 7 : Line'[i] = Line[i - 1]
      /\ Line'[0] = target_heartbeat' /\ Line[0] = target_heartbeat
      /\ Line \in [0 .. 7 -> BOOLEAN]
  BY <1>1, <1>2, FilterLemma, LineLemma, Zenon
<1>4. ASSUME target_heartbeat' = target_heartbeat
      PROVE  /\ held' = IF held < Watchdog!Cap THEN held + 1 ELSE Watchdog!Cap
             /\ armed' = IF ~grace_done THEN 0
                         ELSE IF armed < Watchdog!Cap THEN armed + 1 ELSE Watchdog!Cap
             /\ regular' <=> regular /\ held + 1 < Watchdog!KillAfter
             /\ regular' \in BOOLEAN
  <2>1. /\ held' = Watchdog!Capped(held)
        /\ armed' = IF grace_done THEN Watchdog!Capped(armed) ELSE 0
        /\ regular' = (regular /\ held + 1 < Watchdog!KillAfter)
    BY <1>2, <1>4, Zenon DEF Watchdog!HistoryStep
  <2>2. /\ regular' <=> regular /\ held + 1 < Watchdog!KillAfter
        /\ regular' \in BOOLEAN
    BY <2>1
  <2> QED BY <2>1, <2>2, Zenon DEF Watchdog!Capped
<1>5. ASSUME target_heartbeat' # target_heartbeat
      PROVE  /\ held' = 0 /\ armed' = 0
             /\ regular' <=> regular /\ held + 1 >= 3
             /\ regular' \in BOOLEAN
  <2>1. /\ held' = 0 /\ armed' = 0
        /\ regular' = (regular /\ held + 1 >= Watchdog!MinHold)
    BY <1>2, <1>5, Zenon DEF Watchdog!HistoryStep
  <2>2. /\ regular' <=> regular /\ held + 1 >= 3
        /\ regular' \in BOOLEAN
    BY <2>1 DEF Watchdog!MinHold
  <2> QED BY <2>1, <2>2
<1> QED BY <1>2, <1>3, <1>4, <1>5, Zenon

LEMMA RunningTypes ==
  ASSUME WatchdogInv, Watchdog!Tick, wd_rst_n, wd_rst_n'
  PROVE  Watchdog!TypeOK' /\ CountInv'
PROOF
<1>1. Watchdog!TypeOK /\ CountInv /\ Watchdog!TimerTypeOK
  BY DEF WatchdogInv, Watchdog!TypeOK
<1>2. Watchdog!VotedEdge \in BOOLEAN
  BY DEF Watchdog!VotedEdge
<1>3. Watchdog!TimerTypeOK' /\ CountInv'
  BY <1>1, <1>2, RunningEdge, TimerLemma
<1>4. held \in 0 .. Watchdog!Cap /\ armed \in 0 .. Watchdog!Cap
  BY <1>1 DEF Watchdog!TypeOK
<1>5. held' \in 0 .. Watchdog!Cap /\ armed' \in 0 .. Watchdog!Cap
  BY <1>4, RunningEdge, WatchdogConstantsLemma
<1>6. /\ heartbeat_sync' \in [0 .. 1 -> BOOLEAN] /\ vote_shift' \in [0 .. 4 -> BOOLEAN]
      /\ vote_result' \in BOOLEAN /\ last_heartbeat' \in BOOLEAN
      /\ target_heartbeat' \in BOOLEAN /\ regular' \in BOOLEAN
  BY <1>1, RunningEdge, FilterLemma
<1>7. Watchdog!Cap' = Watchdog!Cap
  BY DEF Watchdog!Cap, Watchdog!KillAfter, Watchdog!Lag
<1> QED BY <1>3, <1>5, <1>6, <1>7, Zenon DEF Watchdog!TypeOK

LEMMA FrontStep ==
  ASSUME WatchdogInv, Watchdog!Tick, wd_rst_n, wd_rst_n'
  PROVE  FrontInv'
PROOF
<1>1. FrontInv /\ Watchdog!TypeOK /\ Watchdog!FilterStep
  BY RunningEdge DEF WatchdogInv
<1>2. held \in Nat /\ held <= Watchdog!Cap
  BY <1>1, WatchdogConstantsLemma DEF Watchdog!TypeOK
<1>3. last_heartbeat' = vote_result
  BY <1>1, Zenon DEF Watchdog!FilterStep
<1>4. /\ \A i \in 1 .. 7 : Line'[i] = Line[i - 1]
      /\ Line'[0] = Line[0] => held' = IF held < Watchdog!Cap THEN held + 1
                                       ELSE Watchdog!Cap
      /\ Line'[0] # Line[0] => held' = 0
  BY RunningEdge, Zenon
<1>5. /\ \A k \in 1 .. 7 : /\ held >= k => Line[k] = Line[0]
                           /\ held = k - 1 => Line[k] # Line[0]
      /\ held >= 6 => vote_result = Line[0]
  BY <1>1, Zenon DEF FrontInv
<1>6. ASSUME NEW k \in 1 .. 7
      PROVE  /\ held' >= k => Line'[k] = Line'[0]
             /\ held' = k - 1 => Line'[k] # Line'[0]
  <2>1. CASE Line'[0] = Line[0]
    <3>1. CASE k = 1
      BY <1>2, <1>4, <2>1, <3>1, WatchdogConstantsLemma
    <3>2. CASE k # 1
      <4>1. k - 1 \in 1 .. 7 /\ Line'[k] = Line[k - 1]
        BY <1>4, <3>2
      <4>2. /\ held >= k - 1 => Line[k - 1] = Line[0]
            /\ held = k - 1 - 1 => Line[k - 1] # Line[0]
        BY <1>5, <4>1, Zenon
      <4> QED BY <1>2, <1>4, <2>1, <4>1, <4>2, WatchdogConstantsLemma
    <3> QED BY <3>1, <3>2
  <2>2. CASE Line'[0] # Line[0]
    BY <1>4, <2>2
  <2> QED BY <2>1, <2>2
<1>7. held' >= 6 => vote_result' = Line'[0]
  <2>1. ASSUME held' >= 6 PROVE vote_result' = Line'[0]
    <3>1. Line'[0] = Line[0] /\ held >= 5
      BY <1>2, <1>4, <2>1, WatchdogConstantsLemma
    <3>2. Line[3] = Line[0] /\ Line[4] = Line[0] /\ Line[5] = Line[0]
      BY <1>2, <1>5, <3>1
    <3> QED BY <1>1, <3>1, <3>2, VotedLemma
  <2> QED BY <2>1
<1>8. held' >= 7 => last_heartbeat' = Line'[0]
  BY <1>2, <1>3, <1>4, <1>5, WatchdogConstantsLemma
<1> QED BY <1>6, <1>7, <1>8 DEF FrontInv

\* The beat is the oldest change of the line leaving the filter.
LEMMA BeatLemma ==
  ASSUME WatchdogInv, Watchdog!Tick, wd_rst_n, wd_rst_n', regular
  PROVE  /\ Elapsed \in Nat /\ Elapsed' \in Nat
         /\ Line[6] # Line[7] => Elapsed' = 0
         /\ Elapsed' <= Elapsed + 1
         /\ kill_latched' =>
              Elapsed = Watchdog!KillAfter - 1 /\ Line[6] = Line[7]
PROOF
<1>1. /\ Watchdog!TimerTypeOK /\ CountInv /\ Watchdog!VotedEdge \in BOOLEAN
      /\ Watchdog!TimerStep(Watchdog!VotedEdge) /\ wd_rst_n' \in BOOLEAN
  BY RunningEdge DEF WatchdogInv, Watchdog!TypeOK, Watchdog!VotedEdge
<1>2. Watchdog!TimerTypeOK' /\ CountInv'
  BY <1>1, TimerLemma
<1>3. Elapsed \in Nat /\ Elapsed' \in Nat
  <2>1. Elapsed \in Nat
    BY <1>1, ElapsedLemma
  <2>2. /\ TIMEOUT_CYCLES \in Nat /\ fail_counter' \in Nat /\ timer_cnt' \in Nat
    BY <1>2, WatchdogConstantsLemma DEF Watchdog!TimerTypeOK
  <2>3. Elapsed' = fail_counter' * (TIMEOUT_CYCLES + 1) + timer_cnt'
    BY DEF Elapsed
  <2>4. \A m, n, k \in Nat : m * (n + 1) + k \in Nat
    OBVIOUS
  <2> QED BY <2>1, <2>2, <2>3, <2>4, Zenon
<1>4. vote_result = Line[6] /\ last_heartbeat = Line[7] /\ ~kill_latched
  BY Zenon DEF WatchdogInv, RegularInv
<1>5. Watchdog!VotedEdge <=> Line[6] # Line[7]
  BY <1>4, Zenon DEF Watchdog!VotedEdge
<1>6. /\ Watchdog!VotedEdge => Elapsed' = 0 /\ (kill_latched' <=> kill_latched)
      /\ Elapsed' <= Elapsed + 1
      /\ kill_latched' /\ ~kill_latched => Elapsed = Watchdog!KillAfter - 1
  BY <1>1, TimerLemma
<1> QED BY <1>3, <1>4, <1>5, <1>6, Zenon

\* A filter that is not full of one level has an oldest change.
LEMMA OldestLemma ==
  ASSUME Line \in [0 .. 7 -> BOOLEAN], NEW k \in 1 .. 7, Line[k] # Line[0]
  PROVE  \E i \in 0 .. 6 : Oldest(i)
PROOF
<1>1. CASE Line[6] # Line[7]
  BY <1>1 DEF Oldest
<1>2. CASE Line[6] = Line[7] /\ Line[5] # Line[6]
  BY <1>2 DEF Oldest
<1>3. CASE Line[6] = Line[7] /\ Line[5] = Line[6] /\ Line[4] # Line[5]
  BY <1>3 DEF Oldest
<1>4. CASE /\ Line[6] = Line[7] /\ Line[5] = Line[6] /\ Line[4] = Line[5]
           /\ Line[3] # Line[4]
  BY <1>4 DEF Oldest
<1>5. CASE /\ Line[6] = Line[7] /\ Line[5] = Line[6] /\ Line[4] = Line[5]
           /\ Line[3] = Line[4] /\ Line[2] # Line[3]
  BY <1>5 DEF Oldest
<1>6. CASE /\ Line[6] = Line[7] /\ Line[5] = Line[6] /\ Line[4] = Line[5]
           /\ Line[3] = Line[4] /\ Line[2] = Line[3] /\ Line[1] # Line[2]
  BY <1>6 DEF Oldest
<1>7. CASE /\ Line[6] = Line[7] /\ Line[5] = Line[6] /\ Line[4] = Line[5]
           /\ Line[3] = Line[4] /\ Line[2] = Line[3] /\ Line[1] = Line[2]
  <2>1. Line[0] # Line[1]
    BY <1>7
  <2> QED BY <1>7, <2>1 DEF Oldest
<1> QED BY <1>1, <1>2, <1>3, <1>4, <1>5, <1>6, <1>7

LEMMA RegularStep ==
  ASSUME WatchdogInv, Watchdog!Tick, wd_rst_n, wd_rst_n'
  PROVE  RegularInv'
PROOF
<1>0. SUFFICES ASSUME regular'
               PROVE  /\ held' < Watchdog!KillAfter
                      /\ \A i \in 1 .. 5 :
                           Line'[i - 1] # Line'[i] =>
                             Line'[i + 1] = Line'[i] /\ Line'[i + 2] = Line'[i]
                      /\ vote_result' = Line'[6] /\ last_heartbeat' = Line'[7]
                      /\ ~kill_latched'
                      /\ held' >= 7 => Elapsed' <= held' - 7
                      /\ \A i \in 0 .. 6 :
                           Oldest(i)' => Elapsed' <= Watchdog!KillAfter - 7 + i
  BY DEF RegularInv, Watchdog!KillAfter
<1>1. /\ Watchdog!TypeOK /\ FrontInv /\ RegularInv /\ Watchdog!FilterStep
      /\ Line \in [0 .. 7 -> BOOLEAN]
  BY RunningEdge DEF WatchdogInv
<1>2. held \in Nat /\ held <= Watchdog!Cap
  BY <1>1, WatchdogConstantsLemma DEF Watchdog!TypeOK
<1>3. /\ \A i \in 1 .. 7 : Line'[i] = Line[i - 1]
      /\ Line'[0] = Line[0] =>
           /\ held' = IF held < Watchdog!Cap THEN held + 1 ELSE Watchdog!Cap
           /\ regular' <=> regular /\ held + 1 < Watchdog!KillAfter
      /\ Line'[0] # Line[0] => held' = 0 /\ (regular' <=> regular /\ held + 1 >= 3)
  BY RunningEdge, Zenon
<1>4. regular
  BY <1>0, <1>3, Zenon
<1>5. /\ held < Watchdog!KillAfter
      /\ \A i \in 1 .. 5 : Line[i - 1] # Line[i] =>
                             Line[i + 1] = Line[i] /\ Line[i + 2] = Line[i]
      /\ vote_result = Line[6]
      /\ held >= 7 => Elapsed <= held - 7
      /\ \A i \in 0 .. 6 : Oldest(i) => Elapsed <= Watchdog!KillAfter - 7 + i
  BY <1>1, <1>4, Zenon DEF RegularInv
<1>6. \A k \in 1 .. 7 : /\ held >= k => Line[k] = Line[0]
                        /\ held = k - 1 => Line[k] # Line[0]
  BY <1>1, Zenon DEF FrontInv
<1>7. /\ Elapsed \in Nat /\ Elapsed' \in Nat
      /\ Line[6] # Line[7] => Elapsed' = 0
      /\ Elapsed' <= Elapsed + 1
      /\ kill_latched' => Elapsed = Watchdog!KillAfter - 1 /\ Line[6] = Line[7]
  BY <1>4, BeatLemma
<1>8. held < 7 => \E i \in 0 .. 6 : Oldest(i)
  <2>1. ASSUME held < 7 PROVE \E i \in 0 .. 6 : Oldest(i)
    <3>1. held + 1 \in 1 .. 7 /\ held = (held + 1) - 1
      BY <1>2, <2>1
    <3>2. Line[held + 1] # Line[0]
      BY <1>6, <3>1
    <3> QED BY <1>1, <3>1, <3>2, OldestLemma
  <2> QED BY <2>1
<1>9. held' < Watchdog!KillAfter
  BY <1>0, <1>2, <1>3, WatchdogConstantsLemma
<1>10. ASSUME NEW i \in 1 .. 5, Line'[i - 1] # Line'[i]
       PROVE  Line'[i + 1] = Line'[i] /\ Line'[i + 2] = Line'[i]
  <2>1. Line'[i] = Line[i - 1] /\ Line'[i + 1] = Line[i] /\ Line'[i + 2] = Line[i + 1]
    BY <1>3
  <2>2. CASE i = 1
    <3>1. held >= 2
      BY <1>0, <1>2, <1>3, <1>10, <2>1, <2>2
    <3> QED BY <1>2, <1>6, <2>1, <2>2, <3>1
  <2>3. CASE i # 1
    <3>1. i - 1 \in 1 .. 5 /\ Line'[i - 1] = Line[i - 1 - 1]
      BY <1>3, <2>3
    <3>2. Line[i - 1 + 1] = Line[i - 1] /\ Line[i - 1 + 2] = Line[i - 1]
      BY <1>5, <1>10, <2>1, <3>1
    <3> QED BY <2>1, <3>2
  <2> QED BY <2>2, <2>3
<1>11. vote_result' = Line'[6]
  <2>1. \/ Line[3] = Line[5] /\ Line[4] = Line[5]
        \/ Line[4] = Line[5] /\ Line[6] = Line[5]
        \/ Line[6] = Line[5] /\ Line[7] = Line[5]
    <3>1. /\ Line[4] # Line[5] => Line[6] = Line[5] /\ Line[7] = Line[5]
          /\ Line[3] # Line[4] => Line[5] = Line[4] /\ Line[6] = Line[4]
      BY <1>5
    <3> QED BY <3>1
  <2>2. vote_result' = Line[5]
    BY <1>1, <2>1, VotedLemma
  <2> QED BY <1>3, <2>2
<1>12. last_heartbeat' = Line'[7]
  <2>1. last_heartbeat' = vote_result
    BY <1>1 DEF Watchdog!FilterStep
  <2> QED BY <1>3, <1>5, <2>1
<1>13. ~kill_latched'
  <2>1. SUFFICES ASSUME Elapsed = Watchdog!KillAfter - 1, Line[6] = Line[7] PROVE FALSE
    BY <1>7
  <2>2. held < 7
    BY <1>2, <1>5, <2>1, WatchdogConstantsLemma
  <2>3. PICK i \in 0 .. 6 : Oldest(i)
    BY <1>8, <2>2
  <2>4. i # 6
    BY <2>1, <2>3 DEF Oldest
  <2>5. Elapsed <= Watchdog!KillAfter - 7 + i
    BY <1>5, <2>3
  <2> QED BY <2>1, <2>4, <2>5, WatchdogConstantsLemma
<1>14. held' >= 7 => Elapsed' <= held' - 7
  <2>1. SUFFICES ASSUME held' >= 7 PROVE Elapsed' <= held' - 7
    OBVIOUS
  <2>2. held' = held + 1 /\ held >= 6
    BY <1>2, <1>3, <1>5, <2>1, WatchdogConstantsLemma
  <2>3. CASE held = 6
    BY <1>6, <1>7, <2>2, <2>3
  <2>4. CASE held # 6
    BY <1>2, <1>5, <1>7, <2>2, <2>4
  <2> QED BY <2>3, <2>4
<1>15. ASSUME NEW i \in 0 .. 6, Oldest(i)'
       PROVE  Elapsed' <= Watchdog!KillAfter - 7 + i
  <2>1. /\ Line'[i] # Line'[i + 1]
        /\ \A j \in (i + 1) .. 6 : Line'[j] = Line'[j + 1]
    BY <1>15 DEF Oldest
  <2>2. CASE Line[6] # Line[7]
    BY <1>7, <2>2, WatchdogConstantsLemma
  <2>3. CASE Line[6] = Line[7]
    <3>1. \A j \in i .. 6 : Line[j] = Line[j + 1]
      <4>1. SUFFICES ASSUME NEW j \in i .. 6, j # 6 PROVE Line[j] = Line[j + 1]
        BY <2>3
      <4>2. j + 1 \in (i + 1) .. 6 /\ j + 1 \in 1 .. 7 /\ j + 1 + 1 \in 1 .. 7
        BY <4>1
      <4>3. Line'[j + 1] = Line'[j + 1 + 1]
        BY <2>1, <4>2
      <4> QED BY <1>3, <4>2, <4>3
    <3>2. CASE i = 0
      <4>1. Line[1] = Line[0] /\ Line[2] = Line[0] /\ Line[3] = Line[0] /\ Line[4] = Line[0]
            /\ Line[5] = Line[0] /\ Line[6] = Line[0] /\ Line[7] = Line[0]
        BY <3>1, <3>2
      <4>2. held >= 7
        BY <1>2, <1>6, <4>1
      <4> QED BY <1>2, <1>5, <1>7, <4>2, <3>2, WatchdogConstantsLemma
    <3>3. CASE i # 0
      <4>1. i - 1 \in 0 .. 6 /\ Line[i - 1] # Line[i - 1 + 1]
        BY <1>3, <2>1, <3>3
      <4>2. \A j \in (i - 1 + 1) .. 6 : Line[j] = Line[j + 1]
        BY <3>1
      <4>3. Oldest(i - 1)
        BY <4>1, <4>2 DEF Oldest
      <4>4. Elapsed <= Watchdog!KillAfter - 7 + (i - 1)
        BY <1>5, <4>1, <4>3
      <4> QED BY <1>7, <4>4, WatchdogConstantsLemma
    <3> QED BY <3>2, <3>3
  <2> QED BY <2>2, <2>3
<1> QED BY <1>9, <1>10, <1>11, <1>12, <1>13, <1>14, <1>15

LEMMA ArmedStep ==
  ASSUME WatchdogInv, Watchdog!Tick, wd_rst_n, wd_rst_n'
  PROVE  ArmedInv'
PROOF
<1>1. /\ Watchdog!TypeOK /\ Watchdog!TimerTypeOK /\ CountInv /\ FrontInv /\ ArmedInv
      /\ Watchdog!VotedEdge \in BOOLEAN /\ wd_rst_n' \in BOOLEAN
      /\ Watchdog!TimerStep(Watchdog!VotedEdge)
  BY RunningEdge DEF WatchdogInv, Watchdog!TypeOK, Watchdog!VotedEdge
<1>2. /\ held \in Nat /\ held <= Watchdog!Cap /\ armed \in Nat /\ armed <= Watchdog!Cap
  BY <1>1, WatchdogConstantsLemma DEF Watchdog!TypeOK
<1>3. /\ Line'[0] = Line[0] =>
           /\ held' = IF held < Watchdog!Cap THEN held + 1 ELSE Watchdog!Cap
           /\ armed' = IF ~grace_done THEN 0
                       ELSE IF armed < Watchdog!Cap THEN armed + 1 ELSE Watchdog!Cap
      /\ Line'[0] # Line[0] => held' = 0 /\ armed' = 0
  BY RunningEdge, Zenon
<1>4. /\ armed <= held
      /\ armed >= 7 => kill_latched \/ Elapsed >= armed - 7
      /\ armed >= Watchdog!Cap => kill_latched
  BY <1>1, Zenon DEF ArmedInv
<1>5. /\ kill_latched => kill_latched'
      /\ grace_done => grace_done'
      /\ ~Watchdog!VotedEdge /\ grace_done /\ ~kill_latched =>
           IF Elapsed = Watchdog!KillAfter - 1 THEN kill_latched'
           ELSE Elapsed' = Elapsed + 1
  BY <1>1, TimerLemma
<1>6. Elapsed \in Nat /\ Elapsed < Watchdog!KillAfter
  BY <1>1, ElapsedLemma
<1>7. Elapsed' \in Nat
  <2>1. Watchdog!TimerTypeOK'
    BY <1>1, TimerLemma
  <2>2. /\ TIMEOUT_CYCLES \in Nat /\ fail_counter' \in Nat /\ timer_cnt' \in Nat
    BY <2>1, WatchdogConstantsLemma DEF Watchdog!TimerTypeOK
  <2>3. Elapsed' = fail_counter' * (TIMEOUT_CYCLES + 1) + timer_cnt'
    BY DEF Elapsed
  <2>4. \A m, n, k \in Nat : m * (n + 1) + k \in Nat
    OBVIOUS
  <2> QED BY <2>2, <2>3, <2>4, Zenon
<1>8. armed' <= held' /\ (armed' > 0 => grace_done')
  BY <1>2, <1>3, <1>4, <1>5, WatchdogConstantsLemma
<1>9. ASSUME armed' >= 7
      PROVE  /\ kill_latched' \/ Elapsed' >= armed' - 7
             /\ armed' >= Watchdog!Cap => kill_latched'
  <2>1. /\ Line'[0] = Line[0] /\ grace_done /\ armed >= 6
        /\ armed' <= armed + 1 /\ armed' \in Nat
    BY <1>2, <1>3, <1>9, WatchdogConstantsLemma
  <2>2. CASE armed = 6
    BY <1>7, <2>1, <2>2, WatchdogConstantsLemma
  <2>3. CASE armed >= 7
    <3>1. vote_result = Line[0] /\ last_heartbeat = Line[0]
      BY <1>1, <1>2, <1>4, <2>3 DEF FrontInv
    <3>2. ~Watchdog!VotedEdge
      BY <3>1 DEF Watchdog!VotedEdge
    <3>3. CASE kill_latched
      BY <1>5, <3>3
    <3>4. CASE ~kill_latched
      <4>1. Elapsed >= armed - 7
        BY <1>4, <2>3, <3>4
      <4>2. IF Elapsed = Watchdog!KillAfter - 1 THEN kill_latched'
            ELSE Elapsed' = Elapsed + 1
        BY <1>5, <2>1, <3>2, <3>4
      <4>3. armed < Watchdog!Cap
        BY <1>2, <1>4, <3>4, WatchdogConstantsLemma
      <4>4. CASE Elapsed = Watchdog!KillAfter - 1
        BY <4>2, <4>4
      <4>5. CASE Elapsed # Watchdog!KillAfter - 1
        <5>1. Elapsed' = Elapsed + 1
          BY <4>2, <4>5
        <5>2. armed < Watchdog!KillAfter + 6
          BY <1>2, <1>6, <4>1, <4>5, WatchdogConstantsLemma
        <5>3. Elapsed' >= armed' - 7
          <6>1. \A e, a, b \in Nat : e >= a - 7 /\ b <= a + 1 => e + 1 >= b - 7
            OBVIOUS
          <6>2. Elapsed + 1 >= armed' - 7
            BY <1>2, <1>6, <2>1, <4>1, <6>1
          <6> QED BY <5>1, <6>2
        <5>4. ~(armed' >= Watchdog!Cap)
          BY <1>2, <2>1, <5>2, WatchdogConstantsLemma
        <5> QED BY <5>3, <5>4
      <4> QED BY <4>4, <4>5
    <3> QED BY <3>3, <3>4
  <2> QED BY <1>2, <2>1, <2>2, <2>3
<1>10. Watchdog!Cap' = Watchdog!Cap
  BY DEF Watchdog!Cap, Watchdog!KillAfter, Watchdog!Lag
<1>11. armed' >= Watchdog!Cap => armed' >= 7
  BY <1>2, <1>3, WatchdogConstantsLemma
<1> QED BY <1>8, <1>9, <1>10, <1>11, Zenon DEF ArmedInv

\* Reset clears the filter and the timers and starts the histories again.
Clean ==
  /\ wd_rst_n \in BOOLEAN /\ target_heartbeat \in BOOLEAN
  /\ Watchdog!TimerInit /\ Watchdog!FilterZero
  /\ held = (IF target_heartbeat THEN 0 ELSE 7)
  /\ armed = 0 /\ regular = TRUE

LEMMA CleanLemma == Clean => WatchdogInv
PROOF
<1> SUFFICES ASSUME Clean PROVE WatchdogInv
  OBVIOUS
<1> USE WatchdogConstantsLemma DEF Clean
<1>1. Watchdog!TimerTypeOK /\ CountInv /\ Elapsed = 0 /\ ~kill_latched
  <2>1. /\ grace_counter = 0 /\ timer_cnt = 0 /\ fail_counter = 0
        /\ grace_done = FALSE /\ kill_latched = FALSE
    BY Zenon DEF Watchdog!TimerInit
  <2>2. grace_done \in BOOLEAN /\ kill_latched \in BOOLEAN /\ ~kill_latched
    BY <2>1, Zenon
  <2>3. Elapsed = 0
    BY <2>1 DEF Elapsed
  <2> QED BY <2>1, <2>2, <2>3 DEF Watchdog!TimerTypeOK, CountInv
<1>2. /\ heartbeat_sync \in [0 .. 1 -> BOOLEAN] /\ vote_shift \in [0 .. 4 -> BOOLEAN]
      /\ \A i \in 0 .. 1 : heartbeat_sync[i] = FALSE
      /\ \A i \in 0 .. 4 : vote_shift[i] = FALSE
  BY DEF Watchdog!FilterZero
<1>3. vote_result = FALSE /\ last_heartbeat = FALSE /\ regular \in BOOLEAN
  BY Zenon DEF Watchdog!FilterZero
<1>4. held = (IF target_heartbeat THEN 0 ELSE 7) /\ held \in 0 .. Watchdog!Cap
  OBVIOUS
<1>5. Watchdog!TypeOK
  <2>1. armed \in 0 .. Watchdog!Cap
    OBVIOUS
  <2> QED BY <1>1, <1>2, <1>3, <1>4, <2>1, Zenon DEF Watchdog!TypeOK
<1>6. \A i \in 1 .. 7 : Line[i] = FALSE
  BY <1>2, <1>5, LineLemma
<1>7. /\ \A i, j \in 1 .. 7 : Line[i] = Line[j]
      /\ \A i \in 1 .. 7 : vote_result = Line[i] /\ last_heartbeat = Line[i]
      /\ \A i \in 1 .. 7 : target_heartbeat <=> Line[i] # Line[0]
  <2>1. Line[0] = target_heartbeat
    BY <1>5, LineLemma, Zenon
  <2> QED BY <1>3, <1>6, <2>1, Zenon
<1>8. FrontInv
  <2>1. \A k \in 1 .. 7 : /\ held >= k => Line[k] = Line[0]
                          /\ held = k - 1 => Line[k] # Line[0]
    BY <1>4, <1>7
  <2>2. held >= 6 => Line[7] = Line[0]
    BY <1>4, <1>7
  <2>3. vote_result = Line[7] /\ last_heartbeat = Line[7]
    BY <1>7
  <2> QED BY <2>1, <2>2, <2>3 DEF FrontInv
<1>10. RegularInv
  <2>1. held < Watchdog!KillAfter /\ (held >= 7 => Elapsed <= held - 7)
    BY <1>1, <1>4
  <2>2. \A i \in 1 .. 5 : Line[i - 1] # Line[i] =>
                            Line[i + 1] = Line[i] /\ Line[i + 2] = Line[i]
    BY <1>7
  <2>3. vote_result = Line[6] /\ last_heartbeat = Line[7]
    BY <1>7
  <2>4. \A i \in 0 .. 6 : Elapsed <= Watchdog!KillAfter - 7 + i
    BY <1>1
  <2> QED BY <1>1, <2>1, <2>2, <2>3, <2>4, Zenon DEF RegularInv
<1>9. ArmedInv
  BY <1>4 DEF ArmedInv
<1> QED BY <1>1, <1>5, <1>8, <1>9, <1>10, Zenon DEF WatchdogInv

LEMMA WatchdogResets ==
  ASSUME Watchdog!Tick, ~wd_rst_n \/ ~wd_rst_n'
  PROVE  Clean'
PROOF
<1>1. /\ wd_rst_n' \in BOOLEAN /\ target_heartbeat' \in BOOLEAN
      /\ Watchdog!TimerReset /\ Watchdog!FilterReset
      /\ held' = (IF target_heartbeat' THEN 0 ELSE Watchdog!Lag)
      /\ armed' = 0 /\ regular' = TRUE
  BY Zenon DEF Watchdog!Tick, Watchdog!TimerStep, Watchdog!HistoryStep
<1>2. Watchdog!TimerInit' /\ Watchdog!FilterZero'
  BY <1>1, Zenon DEF Watchdog!TimerReset, Watchdog!TimerInit, Watchdog!FilterReset,
                     Watchdog!FilterZero
<1> QED BY <1>1, <1>2, Zenon DEF Clean, Watchdog!Lag

\* Nothing of the machine changes between two edges.
LEMMA WatchdogStutters ==
  ASSUME WatchdogInv, UNCHANGED Watchdog!vars
  PROVE  WatchdogInv'
PROOF
<1>1. /\ wd_rst_n' = wd_rst_n /\ target_heartbeat' = target_heartbeat
      /\ grace_counter' = grace_counter /\ grace_done' = grace_done
      /\ timer_cnt' = timer_cnt /\ fail_counter' = fail_counter
      /\ kill_latched' = kill_latched /\ heartbeat_sync' = heartbeat_sync
      /\ vote_shift' = vote_shift /\ vote_result' = vote_result
      /\ last_heartbeat' = last_heartbeat
      /\ held' = held /\ regular' = regular /\ armed' = armed
  BY Zenon DEF Watchdog!vars, Watchdog!timer, Watchdog!filter, Watchdog!history
<1>2. Line' = Line /\ Elapsed' = Elapsed /\ \A i : Oldest(i)' <=> Oldest(i)
  BY <1>1, Zenon DEF Line, Elapsed, Oldest
<1>3. /\ Watchdog!Cap' = Watchdog!Cap /\ Watchdog!KillAfter' = Watchdog!KillAfter
  BY Zenon DEF Watchdog!Cap, Watchdog!KillAfter, Watchdog!Lag
<1>4. Watchdog!TypeOK' /\ CountInv'
  BY <1>1, <1>3, Zenon DEF WatchdogInv, CountInv, Watchdog!TypeOK, Watchdog!TimerTypeOK
<1>5. FrontInv'
  BY <1>1, <1>2, Zenon DEF WatchdogInv, FrontInv
<1>6. RegularInv'
  BY <1>1, <1>2, <1>3, Zenon DEF WatchdogInv, RegularInv
<1>7. ArmedInv'
  BY <1>1, <1>2, <1>3, Zenon DEF WatchdogInv, ArmedInv
<1> QED BY <1>4, <1>5, <1>6, <1>7, Zenon DEF WatchdogInv

LEMMA WatchdogInvariant == Watchdog!Spec => []WatchdogInv
PROOF
<1>1. Watchdog!Init => Clean
  BY Zenon DEF Watchdog!Init, Clean, Watchdog!Lag
<1>2. WatchdogInv /\ [Watchdog!Next]_Watchdog!vars => Clean' \/ WatchdogInv'
  <2>1. SUFFICES ASSUME WatchdogInv, [Watchdog!Next]_Watchdog!vars
                 PROVE  Clean' \/ WatchdogInv'
    OBVIOUS
  <2>2. CASE Watchdog!Tick /\ wd_rst_n /\ wd_rst_n'
    BY <2>1, <2>2, RunningTypes, FrontStep, RegularStep, ArmedStep, Zenon DEF WatchdogInv
  <2>3. CASE Watchdog!Tick /\ (~wd_rst_n \/ ~wd_rst_n')
    BY <2>3, WatchdogResets, Zenon
  <2>4. CASE UNCHANGED Watchdog!vars
    BY <2>1, <2>4, WatchdogStutters, Zenon
  <2> QED BY <2>1, <2>2, <2>3, <2>4, Zenon DEF Watchdog!Next
<1> QED BY <1>1, <1>2, CleanLemma, PTL DEF Watchdog!Spec

\* For every timeout, failure count and grace period: a line that keeps
\* beating is never taken for dead, whatever the resets, and one that stays
\* still after the grace period always is (watchdog_monitor).
THEOREM WatchdogIsExact == Watchdog!Spec => []WatchdogExact
PROOF
<1>1. WatchdogInv => WatchdogExact
  BY Zenon DEF WatchdogInv, RegularInv, ArmedInv, WatchdogExact,
     Watchdog!BeatingLineLives, Watchdog!StillLineKills
<1> QED BY <1>1, WatchdogInvariant, PTL
-----------------------------------------------------------------------------
(* The Call-White MCU                                                        *)
(* For every size of the counters, the lockouts and the timeouts, what the   *)
(* Call-White MCU promises over its restarts: no guess goes uncounted, every *)
(* kill has its reason, an absent operator is noticed, and the watchdog      *)
(* spares the loops that turn.                                               *)

Places == {"entry", "counting", "wrong", "duress", "bind", "mismatch", "comms",
           "run", "wiping", "halted"}
Stopped == at \in {"wiping", "halted"}

BackupTypes ==
  bkp \in [attempts : 0 .. PIN_MAX_ATTEMPTS, pin : BOOLEAN, bind : 0 .. BindWords]
PinTypes == pin \in [fail_count : 0 .. PIN_MAX_ATTEMPTS, lockout_until : Nat]
QueueTypes == queue \in Seq(Mcu!Entries) /\ Len(queue) <= KP_EVENT_QUEUE
TimeTypes ==
  /\ tick \in 0 .. MaxTick
  /\ dm \in [state : {"DM_IDLE", "DM_ACTIVE", "DM_WARNING", "DM_KILLED"},
             last_touch : Nat]
  /\ dm.last_touch <= tick
  /\ wake \in [pending : BOOLEAN, answered : BOOLEAN, missed : 0 .. 1]
  /\ guesses \in [n : Nat, lost : Nat, last : 0 .. Mcu!Never]
  /\ DOMAIN why = {"kill", "reset"}

McuTypes ==
  /\ BackupTypes /\ PinTypes /\ QueueTypes /\ TimeTypes
  /\ at \in Places /\ delay \in 0 .. DuressDelay + 1 /\ bound \in 0 .. BindWords

\* RAM repeats the register of the wrong PINs, and the register the history.
AttemptsInv ==
  /\ ~Stopped => pin.fail_count = bkp.attempts /\ bkp.attempts < PIN_MAX_ATTEMPTS
  /\ bkp.attempts = PIN_MAX_ATTEMPTS => killed
  /\ at \in {"entry", "counting", "wrong", "duress", "bind", "mismatch"} => bkp.pin
  /\ bkp.pin => guesses.n = bkp.attempts + guesses.lost
                              + (IF at = "counting" THEN 1 ELSE 0)

Lockout == IF pin.fail_count >= PIN_LOCKOUT_TIER2 THEN LOCKOUT_T2 ELSE LOCKOUT_T1

\* The lockout is over before a PIN is compared, and set until then.
LockoutInv ==
  /\ at \in {"entry", "wrong", "counting"}
  /\ guesses.last # Mcu!Never /\ pin.fail_count >= PIN_LOCKOUT_TIER1
  => \/ tick >= guesses.last + Lockout
     \/ at # "counting" /\ pin.lockout_until >= guesses.last + Lockout

\* The binding in RAM is the one in the registers, but while it is written.
BindInv ==
  /\ ~Stopped => \/ bound = bkp.bind
                 \/ at = "bind" /\ bound = 0 /\ bkp.bind < BindWords
  /\ at = "mismatch" => 0 < bound /\ bound < BindWords

KillInv ==
  /\ Stopped \/ ~bkp.pin => killed
  /\ killed <=> why.kill # "none"
  /\ why.kill # "duress"

\* The delay of the duress PIN runs out only behind the watchdog's reset.
DelayInv ==
  /\ delay > 0 => at \in {"wrong", "duress", "mismatch"}
  /\ at = "duress" => /\ delay > 0
                      /\ delay <= 2 => ~wake.answered
                      /\ delay <= 1 => wake.missed = 1

\* A turn of a loop answers the WAKE that is pending, and one that is neither
\* pending nor answered was forgotten, with the TPL5010's count at zero.
WakeInv ==
  /\ turned => ~wake.pending
  /\ wake.pending \/ wake.answered \/ wake.missed = 0
  /\ Mcu!LoopsSurvive

\* The modem takes no more than the two WAKEs that may be missed.
AwayInv ==
  /\ at = "comms" => /\ Mcu!Elapsed <= 2 /\ dm.state = "DM_ACTIVE"
                     /\ Mcu!Elapsed > 0 => ~wake.answered /\ ~turned
                     /\ Mcu!Elapsed > 1 => wake.missed = 1
  /\ at = "run" /\ turned => Mcu!Elapsed < DEAD_MAN_KILL_SEC
  /\ Mcu!DeadManExact

McuInv == /\ McuTypes /\ AttemptsInv /\ LockoutInv /\ BindInv /\ KillInv
          /\ DelayInv /\ WakeInv /\ AwayInv
-----------------------------------------------------------------------------
LEMMA McuConstantsLemma ==
  /\ PIN_MAX_ATTEMPTS \in Nat /\ PIN_LOCKOUT_TIER1 \in Nat /\ PIN_LOCKOUT_TIER2 \in Nat
  /\ LOCKOUT_T1 \in Nat /\ LOCKOUT_T2 \in Nat
  /\ DEAD_MAN_WARN_SEC \in Nat /\ DEAD_MAN_KILL_SEC \in Nat
  /\ DuressDelay \in Nat /\ BindWords \in Nat /\ KP_EVENT_QUEUE \in Nat
  /\ MaxTick \in Nat /\ MaxRestarts \in Nat
  /\ Mcu!Never = MaxTick + 1
  /\ 0 < PIN_LOCKOUT_TIER1 /\ PIN_LOCKOUT_TIER1 < PIN_LOCKOUT_TIER2
  /\ PIN_LOCKOUT_TIER2 < PIN_MAX_ATTEMPTS
  /\ 0 < LOCKOUT_T1 /\ LOCKOUT_T1 < LOCKOUT_T2
  /\ 0 < DEAD_MAN_WARN_SEC /\ DEAD_MAN_WARN_SEC < DEAD_MAN_KILL_SEC
  /\ 1 < BindWords /\ 2 < DuressDelay
PROOF BY TimerSizes DEF Mcu!CallWhiteConstants, Mcu!Never

LEMMA McuStarts == Mcu!Init => McuInv
PROOF
<1> SUFFICES ASSUME Mcu!Init PROVE McuInv
  OBVIOUS
<1> USE McuConstantsLemma
<1>1. BackupTypes /\ PinTypes /\ at = "entry" /\ delay = 0 /\ bound = 0
  BY DEF Mcu!Init, BackupTypes, PinTypes
<1>2. QueueTypes
  BY DEF Mcu!Init, QueueTypes
<1>3. TimeTypes
  BY DEF Mcu!Init, TimeTypes, Mcu!Disarmed
<1>4. McuTypes
  BY <1>1, <1>2, <1>3 DEF McuTypes, Places
<1>5. AttemptsInv
  BY DEF Mcu!Init, AttemptsInv, Stopped
<1>6. LockoutInv
  BY DEF Mcu!Init, LockoutInv
<1>7. BindInv
  BY DEF Mcu!Init, BindInv, Stopped
<1>8. KillInv
  BY DEF Mcu!Init, KillInv, Stopped
<1>9. DelayInv
  BY DEF Mcu!Init, DelayInv
<1>10. WakeInv
  BY DEF Mcu!Init, WakeInv, Mcu!LoopsSurvive
<1>11. AwayInv
  BY DEF Mcu!Init, AwayInv, Mcu!DeadManExact
<1> QED BY <1>4, <1>5, <1>6, <1>7, <1>8, <1>9, <1>10, <1>11 DEF McuInv

LEMMA KillGiven ==
  ASSUME McuInv,
         NEW reason \in {"attempts", "mismatch", "dead man", "power"}, Mcu!Kill(reason)
  PROVE  /\ killed' /\ why'.kill # "none" /\ why'.kill # "duress"
         /\ why'.reset = why.reset /\ DOMAIN why' = {"kill", "reset"}
PROOF
<1>1. killed'
  BY Zenon DEF Mcu!Kill
<1>2. CASE killed
  BY <1>1, <1>2, Zenon DEF Mcu!Kill, McuInv, KillInv, McuTypes, TimeTypes
<1>3. CASE ~killed
  <2>1. why' = [why EXCEPT !.kill = reason]
    BY <1>3, Zenon DEF Mcu!Kill
  <2>2. why'.kill = reason /\ why'.reset = why.reset /\ DOMAIN why' = {"kill", "reset"}
    BY <2>1 DEF McuInv, McuTypes, TimeTypes
  <2>3. reason # "none" /\ reason # "duress"
    OBVIOUS
  <2> QED BY <1>1, <2>2, <2>3, Zenon
<1> QED BY <1>2, <1>3

LEMMA KeepsSecondPasses ==
  ASSUME McuInv, Mcu!SecondPasses
  PROVE  McuInv'
PROOF
<1> USE McuConstantsLemma DEF McuInv
<1>1. BackupTypes' /\ PinTypes'
  BY DEF McuTypes, BackupTypes, PinTypes, AttemptsInv, Stopped, BindInv, Mcu!SecondPasses, Mcu!Waiting, Mcu!Looping, Mcu!Missed
<1>2. QueueTypes'
  BY DEF McuTypes, QueueTypes, Mcu!SecondPasses, Mcu!Waiting, Mcu!Looping, Mcu!Missed
<1>3. TimeTypes'
  BY DEF McuTypes, TimeTypes, Mcu!Elapsed, Mcu!SecondPasses, Mcu!Waiting, Mcu!Looping, Mcu!Missed
<1>4. at' \in Places /\ delay' \in 0 .. DuressDelay + 1 /\ bound' \in 0 .. BindWords
  BY DEF McuTypes, Places, BackupTypes, Mcu!SecondPasses, Mcu!Waiting, Mcu!Looping, Mcu!Missed
<1>5. AttemptsInv'
  BY DEF McuTypes, BackupTypes, PinTypes, TimeTypes, AttemptsInv, Stopped, Mcu!SecondPasses, Mcu!Waiting, Mcu!Looping, Mcu!Missed
<1>6. LockoutInv'
  BY DEF McuTypes, BackupTypes, PinTypes, TimeTypes, LockoutInv, Lockout, Mcu!SecondPasses, Mcu!Waiting, Mcu!Looping, Mcu!Missed
<1>7. BindInv'
  BY DEF McuTypes, BackupTypes, PinTypes, TimeTypes, BindInv, Stopped, Mcu!SecondPasses, Mcu!Waiting, Mcu!Looping, Mcu!Missed
<1>8. KillInv'
  BY DEF McuTypes, BackupTypes, PinTypes, TimeTypes, KillInv, Stopped, Mcu!SecondPasses, Mcu!Waiting, Mcu!Looping, Mcu!Missed
<1>9. DelayInv'
  BY DEF McuTypes, BackupTypes, PinTypes, TimeTypes, DelayInv, Mcu!SecondPasses, Mcu!Waiting, Mcu!Looping, Mcu!Missed
<1>10. WakeInv'
  BY DEF McuTypes, BackupTypes, PinTypes, TimeTypes, WakeInv, Mcu!LoopsSurvive, Mcu!SecondPasses, Mcu!Waiting, Mcu!Looping, Mcu!Missed
<1>11. AwayInv'
  <2>1. ~turned' /\ at' = at /\ dm' = dm /\ tick' = tick + 1 /\ ~wake'.answered
    BY Zenon DEF Mcu!SecondPasses
  <2>2. Mcu!Elapsed \in Nat /\ Mcu!Elapsed' = Mcu!Elapsed + 1
    BY <2>1 DEF McuTypes, TimeTypes, Mcu!Elapsed
  <2>3. wake'.missed = Mcu!Missed /\ Mcu!Missed < 2 /\ Mcu!Missed \in Nat
    BY DEF Mcu!SecondPasses, Mcu!Missed, McuTypes, TimeTypes
  <2>4. at = "run" => Mcu!Elapsed < DEAD_MAN_KILL_SEC
    <3>1. at = "run" => ~Mcu!Waiting
      BY DEF Mcu!Waiting, DelayInv
    <3> QED BY <3>1, Zenon DEF Mcu!SecondPasses, AwayInv
  <2>5. at = "comms" => Mcu!Elapsed < 2 /\ (Mcu!Elapsed > 0 => wake'.missed = 1)
    <3>1. at = "comms" /\ Mcu!Elapsed > 0 => Mcu!Missed = wake.missed + 1
      BY Zenon DEF AwayInv, Mcu!Missed
    <3>2. at = "comms" /\ Mcu!Elapsed > 1 => wake.missed = 1
      BY Zenon DEF AwayInv
    <3>3. wake.missed \in 0 .. 1
      BY DEF McuTypes, TimeTypes
    <3> QED BY <2>2, <2>3, <3>1, <3>2, <3>3 DEF AwayInv
  <2> QED BY <2>1, <2>2, <2>4, <2>5 DEF AwayInv, Mcu!DeadManExact
<1> QED BY <1>1, <1>2, <1>3, <1>4, <1>5, <1>6, <1>7, <1>8, <1>9, <1>10, <1>11, Zenon DEF McuTypes

LEMMA KeepsWakeForgotten ==
  ASSUME McuInv, Mcu!WakeForgotten
  PROVE  McuInv'
PROOF
<1> USE McuConstantsLemma DEF McuInv
<1>1. BackupTypes' /\ PinTypes'
  BY DEF McuTypes, BackupTypes, PinTypes, AttemptsInv, Stopped, BindInv, Mcu!WakeForgotten, Mcu!Looping
<1>2. QueueTypes'
  BY DEF McuTypes, QueueTypes, Mcu!WakeForgotten, Mcu!Looping
<1>3. TimeTypes'
  BY DEF McuTypes, TimeTypes, Mcu!Elapsed, Mcu!WakeForgotten, Mcu!Looping
<1>4. at' \in Places /\ delay' \in 0 .. DuressDelay + 1 /\ bound' \in 0 .. BindWords
  BY DEF McuTypes, Places, BackupTypes, Mcu!WakeForgotten, Mcu!Looping
<1>5. AttemptsInv'
  BY DEF McuTypes, BackupTypes, PinTypes, TimeTypes, AttemptsInv, Stopped, Mcu!WakeForgotten, Mcu!Looping
<1>6. LockoutInv'
  BY DEF McuTypes, BackupTypes, PinTypes, TimeTypes, LockoutInv, Lockout, Mcu!WakeForgotten, Mcu!Looping
<1>7. BindInv'
  BY DEF McuTypes, BackupTypes, PinTypes, TimeTypes, BindInv, Stopped, Mcu!WakeForgotten, Mcu!Looping
<1>8. KillInv'
  BY DEF McuTypes, BackupTypes, PinTypes, TimeTypes, KillInv, Stopped, Mcu!WakeForgotten, Mcu!Looping
<1>9. DelayInv'
  BY DEF McuTypes, BackupTypes, PinTypes, TimeTypes, DelayInv, Mcu!WakeForgotten, Mcu!Looping
<1>10. WakeInv'
  BY DEF McuTypes, BackupTypes, PinTypes, TimeTypes, WakeInv, Mcu!LoopsSurvive, Mcu!WakeForgotten, Mcu!Looping
<1>11. AwayInv'
  <2>1. ~turned' /\ at' = at /\ dm' = dm /\ tick' = tick + 1
    BY Zenon DEF Mcu!WakeForgotten
  <2>2. Mcu!Elapsed \in Nat /\ Mcu!Elapsed' = Mcu!Elapsed + 1
    BY <2>1 DEF McuTypes, TimeTypes, Mcu!Elapsed
  <2>3. at \in {"entry", "run"} /\ (at = "run" => Mcu!Elapsed < DEAD_MAN_KILL_SEC)
    BY DEF Mcu!WakeForgotten, Mcu!Looping
  <2> QED BY <2>1, <2>2, <2>3 DEF AwayInv, Mcu!DeadManExact
<1> QED BY <1>1, <1>2, <1>3, <1>4, <1>5, <1>6, <1>7, <1>8, <1>9, <1>10, <1>11, Zenon DEF McuTypes

LEMMA KeepsEntryTurn ==
  ASSUME McuInv, Mcu!EntryTurn
  PROVE  McuInv'
PROOF
<1> USE McuConstantsLemma DEF McuInv
<1>a. /\ at = "entry" /\ turned' = TRUE /\ wake' = Mcu!Polled
      /\ UNCHANGED <<bound, dm, tick, killed, restarts, why>>
  BY Zenon DEF Mcu!EntryTurn
<1>b. \/ /\ UNCHANGED <<at, delay, bkp, guesses, queue>>
         /\ pin' = IF Mcu!Locked THEN pin ELSE Mcu!Unlocked
      \/ /\ ~Mcu!Locked /\ queue # <<>> /\ queue' = Tail(queue)
         /\ Mcu!Submitted(Head(queue))
  BY Zenon DEF Mcu!EntryTurn
<1>c. \/ UNCHANGED <<at, delay, bkp, pin, guesses>>
      \/ ~Mcu!Locked /\ pin' = Mcu!Unlocked /\ UNCHANGED <<at, delay, bkp, guesses>>
      \/ /\ ~Mcu!Locked /\ pin' = Mcu!Unlocked /\ UNCHANGED <<bkp, guesses>>
         /\ at' = "wrong" /\ delay' \in {1, 2}
      \/ /\ ~Mcu!Locked /\ pin' = Mcu!Unlocked /\ UNCHANGED <<bkp, guesses>>
         /\ at' = "duress" /\ delay' \in {DuressDelay, DuressDelay + 1}
      \/ /\ ~Mcu!Locked /\ pin' = [Mcu!Unlocked EXCEPT !.fail_count = 0]
         /\ bkp' = [bkp EXCEPT !.attempts = 0]
         /\ guesses' = [n |-> 0, lost |-> 0, last |-> Mcu!Never]
         /\ at' = "bind" /\ UNCHANGED delay
      \/ /\ ~Mcu!Locked /\ pin' = Mcu!Unlocked
         /\ guesses' = [guesses EXCEPT !.n = @ + 1]
         /\ at' = "counting" /\ UNCHANGED <<bkp, delay>>
  BY <1>b DEF Mcu!Submitted, Mcu!Delayed
<1>d. Mcu!Unlocked = [fail_count |-> pin.fail_count, lockout_until |-> 0]
  BY DEF Mcu!Unlocked, McuTypes, PinTypes
<1>1. BackupTypes' /\ PinTypes'
  BY <1>c, <1>d DEF McuTypes, BackupTypes, PinTypes
<1>2. QueueTypes'
  <2>1. CASE queue' = queue
    BY <2>1 DEF McuTypes, QueueTypes
  <2>2. CASE queue # <<>> /\ queue' = Tail(queue)
    BY <2>2, HeadTailProperties DEF McuTypes, QueueTypes
  <2> QED BY <1>b, <2>1, <2>2
<1>3. TimeTypes'
  <2>1. wake' \in [pending : BOOLEAN, answered : BOOLEAN, missed : 0 .. 1]
    BY <1>a DEF Mcu!Polled, McuTypes, TimeTypes
  <2>2. guesses' \in [n : Nat, lost : Nat, last : 0 .. Mcu!Never]
    BY <1>c DEF McuTypes, TimeTypes
  <2> QED BY <1>a, <2>1, <2>2 DEF McuTypes, TimeTypes
<1>4. at' \in Places /\ delay' \in 0 .. DuressDelay + 1 /\ bound' \in 0 .. BindWords
  BY <1>a, <1>c DEF McuTypes, Places
<1>5. AttemptsInv'
  BY <1>a, <1>c, <1>d DEF McuTypes, BackupTypes, PinTypes, TimeTypes, AttemptsInv, Stopped
<1>6. LockoutInv'
  BY <1>a, <1>c, <1>d DEF McuTypes, PinTypes, TimeTypes, LockoutInv, Lockout, Mcu!Locked
<1>7. BindInv'
  BY <1>a, <1>c DEF McuTypes, BackupTypes, BindInv, Stopped
<1>8. KillInv'
  BY <1>a, <1>c DEF McuTypes, BackupTypes, KillInv, Stopped
<1>9. DelayInv'
  BY <1>a, <1>c DEF McuTypes, DelayInv
<1>10. WakeInv'
  <2>1. ~wake'.pending /\ (wake'.answered \/ wake'.missed = 0)
    BY <1>a DEF Mcu!Polled, McuTypes, TimeTypes, WakeInv
  <2> QED BY <1>a, <2>1 DEF WakeInv, Mcu!LoopsSurvive
<1>11. AwayInv'
  <2>1. at' \notin {"comms", "run"}
    BY <1>a, <1>c
  <2> QED BY <2>1, Zenon DEF AwayInv, Mcu!DeadManExact
<1> QED BY <1>1, <1>2, <1>3, <1>4, <1>5, <1>6, <1>7, <1>8, <1>9, <1>10, <1>11, Zenon DEF McuTypes

LEMMA KeepsCountAttempt ==
  ASSUME McuInv, Mcu!CountAttempt
  PROVE  McuInv'
PROOF
<1> USE McuConstantsLemma DEF McuInv
<1> DEFINE n == pin.fail_count + 1
<1>a. /\ at = "counting" /\ bkp' = [bkp EXCEPT !.attempts = n]
      /\ UNCHANGED <<bound, queue, dm, tick, turned, wake, restarts>>
  BY Zenon DEF Mcu!CountAttempt, Mcu!Written
<1>b. \/ /\ n >= PIN_MAX_ATTEMPTS /\ pin' = [pin EXCEPT !.fail_count = n]
         /\ at' = "halted" /\ Mcu!Kill("attempts") /\ UNCHANGED <<delay, guesses>>
      \/ /\ ~(n >= PIN_MAX_ATTEMPTS)
         /\ pin' = [fail_count |-> n, lockout_until |-> Mcu!LockoutUntil(n)]
         /\ at' = "wrong" /\ \E phase \in {0, 1} : delay' = 1 + phase
         /\ guesses' = [guesses EXCEPT !.last = tick]
         /\ UNCHANGED <<killed, why>>
  BY Zenon DEF Mcu!CountAttempt, Mcu!Delayed
<1>c. n \in 1 .. PIN_MAX_ATTEMPTS /\ n = bkp.attempts + 1 /\ pin.lockout_until \in Nat
  BY <1>a DEF McuTypes, BackupTypes, PinTypes, AttemptsInv, Stopped
<1>d. Mcu!LockoutUntil(n) \in Nat
  BY <1>c DEF Mcu!LockoutUntil, McuTypes, TimeTypes
<1>e. (killed' <=> why'.kill # "none") /\ (killed => killed') /\ why'.kill # "duress"
      /\ (at' = "halted" => killed') /\ why'.reset = why.reset
      /\ DOMAIN why' = {"kill", "reset"}
  <2>1. CASE Mcu!Kill("attempts")
    BY <2>1, KillGiven, "attempts" \in {"attempts", "mismatch", "dead man", "power"}, Zenon
  <2>2. CASE UNCHANGED <<killed, why>> /\ at' = "wrong"
    BY <2>2, "wrong" # "halted", Zenon DEF KillInv, McuTypes, TimeTypes
  <2> QED BY <1>b, <2>1, <2>2
<1> HIDE DEF n
<1>1. BackupTypes' /\ PinTypes'
  BY <1>a, <1>b, <1>c, <1>d DEF McuTypes, BackupTypes, PinTypes
<1>2. QueueTypes'
  BY <1>a DEF McuTypes, QueueTypes
<1>3. TimeTypes'
  BY <1>a, <1>b, <1>e DEF McuTypes, TimeTypes
<1>4. at' \in Places /\ delay' \in 0 .. DuressDelay + 1 /\ bound' \in 0 .. BindWords
  BY <1>a, <1>b DEF McuTypes, Places
<1>5. AttemptsInv'
  <2>1. bkp'.pin = bkp.pin /\ bkp'.attempts = n /\ pin'.fail_count = n
    BY <1>a, <1>b DEF McuTypes, BackupTypes, PinTypes
  <2>2. bkp'.attempts = PIN_MAX_ATTEMPTS => killed'
    <3>1. n = PIN_MAX_ATTEMPTS => at' = "halted"
      BY <1>b, <1>c
    <3> QED BY <1>e, <2>1, <3>1, Zenon
  <2>3. at' \in {"halted", "wrong"} /\ (at' = "wrong" => n < PIN_MAX_ATTEMPTS)
    BY <1>b, <1>c
  <2>4. bkp.pin /\ bkp'.pin
    BY <1>a, <2>1, Zenon DEF AttemptsInv
  <2>5. guesses'.n = guesses.n /\ guesses'.lost = guesses.lost
    BY <1>b DEF McuTypes, TimeTypes
  <2>6. guesses.n = bkp.attempts + guesses.lost + 1
    BY <1>a, <2>4 DEF AttemptsInv
  <2>7. guesses'.n = bkp'.attempts + guesses'.lost
    BY <1>c, <2>1, <2>5, <2>6 DEF McuTypes, TimeTypes, BackupTypes
  <2>8. /\ ~Stopped' => bkp'.attempts < PIN_MAX_ATTEMPTS
        /\ guesses'.n = bkp'.attempts + guesses'.lost + (IF at' = "counting" THEN 1 ELSE 0)
    BY <1>c, <2>1, <2>3, <2>5, <2>7 DEF Stopped, McuTypes, TimeTypes, BackupTypes
  <2> QED BY <2>1, <2>2, <2>4, <2>8, Zenon DEF AttemptsInv
<1>6. LockoutInv'
  BY <1>a, <1>b, <1>c, <1>d DEF McuTypes, PinTypes, TimeTypes, LockoutInv, Lockout,
                                Mcu!LockoutUntil
<1>7. BindInv'
  BY <1>a, <1>b DEF McuTypes, BackupTypes, BindInv, Stopped
<1>8. KillInv'
  <2>1. at' # "wiping" /\ (bkp'.pin <=> bkp.pin)
    BY <1>a, <1>b DEF McuTypes, BackupTypes
  <2> QED BY <1>e, <2>1, Zenon DEF KillInv, Stopped
<1>9. DelayInv'
  BY <1>a, <1>b DEF McuTypes, DelayInv
<1>10. WakeInv'
  BY <1>a, <1>e, Zenon DEF WakeInv, Mcu!LoopsSurvive
<1>11. AwayInv'
  <2>1. at' \notin {"comms", "run"}
    BY <1>b
  <2> QED BY <2>1, Zenon DEF AwayInv, Mcu!DeadManExact
<1> QED BY <1>1, <1>2, <1>3, <1>4, <1>5, <1>6, <1>7, <1>8, <1>9, <1>10, <1>11, Zenon DEF McuTypes

LEMMA KeepsDelayOver ==
  ASSUME McuInv, Mcu!DelayOver
  PROVE  McuInv'
PROOF
<1> USE McuConstantsLemma DEF McuInv
<1>1. BackupTypes' /\ PinTypes'
  BY DEF McuTypes, BackupTypes, PinTypes, AttemptsInv, Stopped, BindInv, Mcu!DelayOver, Mcu!Kill
<1>2. QueueTypes'
  BY DEF McuTypes, QueueTypes, Mcu!DelayOver, Mcu!Kill
<1>3. TimeTypes'
  BY DEF McuTypes, TimeTypes, Mcu!Elapsed, Mcu!DelayOver, Mcu!Kill
<1>4. at' \in Places /\ delay' \in 0 .. DuressDelay + 1 /\ bound' \in 0 .. BindWords
  BY DEF McuTypes, Places, BackupTypes, Mcu!DelayOver, Mcu!Kill
<1>5. AttemptsInv'
  BY DEF McuTypes, BackupTypes, PinTypes, TimeTypes, AttemptsInv, Stopped, Mcu!DelayOver, Mcu!Kill
<1>6. LockoutInv'
  BY DEF McuTypes, BackupTypes, PinTypes, TimeTypes, LockoutInv, Lockout, Mcu!DelayOver, Mcu!Kill
<1>7. BindInv'
  BY DEF McuTypes, BackupTypes, PinTypes, TimeTypes, BindInv, Stopped, Mcu!DelayOver, Mcu!Kill
<1>8. KillInv'
  <2>1. at # "duress"
    BY DEF Mcu!DelayOver, DelayInv, McuTypes
  <2>2. CASE at = "wrong" /\ at' = "entry" /\ UNCHANGED <<killed, why, bkp>>
    BY <2>2, Zenon DEF KillInv, Stopped
  <2>3. CASE at = "mismatch" /\ Mcu!Kill("mismatch")
    BY <2>3, KillGiven, "mismatch" \in {"attempts", "mismatch", "dead man", "power"}, Zenon
       DEF KillInv
  <2> QED BY <2>1, <2>2, <2>3, Zenon DEF Mcu!DelayOver
<1>9. DelayInv'
  BY DEF McuTypes, BackupTypes, PinTypes, TimeTypes, DelayInv, Mcu!DelayOver, Mcu!Kill
<1>10. WakeInv'
  BY DEF McuTypes, BackupTypes, PinTypes, TimeTypes, WakeInv, Mcu!LoopsSurvive, Mcu!DelayOver, Mcu!Kill
<1>11. AwayInv'
  BY DEF McuTypes, BackupTypes, PinTypes, TimeTypes, AwayInv, Mcu!DeadManExact, Mcu!Elapsed, Mcu!DelayOver, Mcu!Kill
<1> QED BY <1>1, <1>2, <1>3, <1>4, <1>5, <1>6, <1>7, <1>8, <1>9, <1>10, <1>11, Zenon DEF McuTypes

LEMMA KeepsBindChecked ==
  ASSUME McuInv, Mcu!BindChecked
  PROVE  McuInv'
PROOF
<1> USE McuConstantsLemma DEF McuInv
<1>1. BackupTypes' /\ PinTypes'
  BY DEF McuTypes, BackupTypes, PinTypes, AttemptsInv, Stopped, BindInv, Mcu!BindChecked, Mcu!Armed, Mcu!Delayed
<1>2. QueueTypes'
  BY DEF McuTypes, QueueTypes, Mcu!BindChecked, Mcu!Armed, Mcu!Delayed
<1>3. TimeTypes'
  BY DEF McuTypes, TimeTypes, Mcu!Elapsed, Mcu!BindChecked, Mcu!Armed, Mcu!Delayed
<1>4. at' \in Places /\ delay' \in 0 .. DuressDelay + 1 /\ bound' \in 0 .. BindWords
  BY DEF McuTypes, Places, BackupTypes, Mcu!BindChecked, Mcu!Armed, Mcu!Delayed
<1>5. AttemptsInv'
  BY DEF McuTypes, BackupTypes, PinTypes, TimeTypes, AttemptsInv, Stopped, Mcu!BindChecked, Mcu!Armed, Mcu!Delayed
<1>6. LockoutInv'
  BY DEF McuTypes, BackupTypes, PinTypes, TimeTypes, LockoutInv, Lockout, Mcu!BindChecked, Mcu!Armed, Mcu!Delayed
<1>7. BindInv'
  BY DEF McuTypes, BackupTypes, PinTypes, TimeTypes, BindInv, Stopped, Mcu!BindChecked, Mcu!Armed, Mcu!Delayed
<1>8. KillInv'
  BY DEF McuTypes, BackupTypes, PinTypes, TimeTypes, KillInv, Stopped, Mcu!BindChecked, Mcu!Armed, Mcu!Delayed
<1>9. DelayInv'
  BY DEF McuTypes, BackupTypes, PinTypes, TimeTypes, DelayInv, Mcu!BindChecked, Mcu!Armed, Mcu!Delayed
<1>10. WakeInv'
  BY DEF McuTypes, BackupTypes, PinTypes, TimeTypes, WakeInv, Mcu!LoopsSurvive, Mcu!BindChecked, Mcu!Armed, Mcu!Delayed
<1>11. AwayInv'
  BY DEF McuTypes, BackupTypes, PinTypes, TimeTypes, AwayInv, Mcu!DeadManExact, Mcu!Elapsed, Mcu!BindChecked, Mcu!Armed, Mcu!Delayed
<1> QED BY <1>1, <1>2, <1>3, <1>4, <1>5, <1>6, <1>7, <1>8, <1>9, <1>10, <1>11, Zenon DEF McuTypes

LEMMA KeepsBindWord ==
  ASSUME McuInv, Mcu!BindWord
  PROVE  McuInv'
PROOF
<1> USE McuConstantsLemma DEF McuInv
<1>1. BackupTypes' /\ PinTypes'
  BY DEF McuTypes, BackupTypes, PinTypes, AttemptsInv, Stopped, BindInv, Mcu!BindWord, Mcu!Armed
<1>2. QueueTypes'
  BY DEF McuTypes, QueueTypes, Mcu!BindWord, Mcu!Armed
<1>3. TimeTypes'
  BY DEF McuTypes, TimeTypes, Mcu!Elapsed, Mcu!BindWord, Mcu!Armed
<1>4. at' \in Places /\ delay' \in 0 .. DuressDelay + 1 /\ bound' \in 0 .. BindWords
  BY DEF McuTypes, Places, BackupTypes, Mcu!BindWord, Mcu!Armed
<1>5. AttemptsInv'
  BY DEF McuTypes, BackupTypes, PinTypes, TimeTypes, AttemptsInv, Stopped, Mcu!BindWord, Mcu!Armed
<1>6. LockoutInv'
  BY DEF McuTypes, BackupTypes, PinTypes, TimeTypes, LockoutInv, Lockout, Mcu!BindWord, Mcu!Armed
<1>7. BindInv'
  BY DEF McuTypes, BackupTypes, PinTypes, TimeTypes, BindInv, Stopped, Mcu!BindWord, Mcu!Armed
<1>8. KillInv'
  BY DEF McuTypes, BackupTypes, PinTypes, TimeTypes, KillInv, Stopped, Mcu!BindWord, Mcu!Armed
<1>9. DelayInv'
  BY DEF McuTypes, BackupTypes, PinTypes, TimeTypes, DelayInv, Mcu!BindWord, Mcu!Armed
<1>10. WakeInv'
  BY DEF McuTypes, BackupTypes, PinTypes, TimeTypes, WakeInv, Mcu!LoopsSurvive, Mcu!BindWord, Mcu!Armed
<1>11. AwayInv'
  <2>1. CASE at' = "comms" /\ dm' = Mcu!Armed(tick) /\ tick' = tick
    <3>1. dm' = [state |-> "DM_ACTIVE", last_touch |-> tick] /\ tick' = tick /\ at' = "comms"
      BY <2>1 DEF Mcu!Armed
    <3>2. Mcu!Elapsed' = 0 /\ dm'.state = "DM_ACTIVE"
      BY <3>1 DEF Mcu!Elapsed, McuTypes, TimeTypes
    <3> QED BY <3>1, <3>2 DEF AwayInv, Mcu!DeadManExact
  <2>2. CASE at' = "bind"
    BY <2>2 DEF AwayInv, Mcu!DeadManExact
  <2> QED BY <2>1, <2>2 DEF Mcu!BindWord
<1> QED BY <1>1, <1>2, <1>3, <1>4, <1>5, <1>6, <1>7, <1>8, <1>9, <1>10, <1>11, Zenon DEF McuTypes

LEMMA KeepsCommsUp ==
  ASSUME McuInv, Mcu!CommsUp
  PROVE  McuInv'
PROOF
<1> USE McuConstantsLemma DEF McuInv
<1>1. BackupTypes' /\ PinTypes'
  BY DEF McuTypes, BackupTypes, PinTypes, AttemptsInv, Stopped, BindInv, Mcu!CommsUp
<1>2. QueueTypes'
  BY DEF McuTypes, QueueTypes, Mcu!CommsUp
<1>3. TimeTypes'
  BY DEF McuTypes, TimeTypes, Mcu!Elapsed, Mcu!CommsUp
<1>4. at' \in Places /\ delay' \in 0 .. DuressDelay + 1 /\ bound' \in 0 .. BindWords
  BY DEF McuTypes, Places, BackupTypes, Mcu!CommsUp
<1>5. AttemptsInv'
  BY DEF McuTypes, BackupTypes, PinTypes, TimeTypes, AttemptsInv, Stopped, Mcu!CommsUp
<1>6. LockoutInv'
  BY DEF McuTypes, BackupTypes, PinTypes, TimeTypes, LockoutInv, Lockout, Mcu!CommsUp
<1>7. BindInv'
  BY DEF McuTypes, BackupTypes, PinTypes, TimeTypes, BindInv, Stopped, Mcu!CommsUp
<1>8. KillInv'
  BY DEF McuTypes, BackupTypes, PinTypes, TimeTypes, KillInv, Stopped, Mcu!CommsUp
<1>9. DelayInv'
  BY DEF McuTypes, BackupTypes, PinTypes, TimeTypes, DelayInv, Mcu!CommsUp
<1>10. WakeInv'
  BY DEF McuTypes, BackupTypes, PinTypes, TimeTypes, WakeInv, Mcu!LoopsSurvive, Mcu!CommsUp
<1>11. AwayInv'
  BY DEF McuTypes, BackupTypes, PinTypes, TimeTypes, AwayInv, Mcu!DeadManExact, Mcu!Elapsed, Mcu!CommsUp
<1> QED BY <1>1, <1>2, <1>3, <1>4, <1>5, <1>6, <1>7, <1>8, <1>9, <1>10, <1>11, Zenon DEF McuTypes

LEMMA KeepsRunTurn ==
  ASSUME McuInv, Mcu!RunTurn
  PROVE  McuInv'
PROOF
<1> USE McuConstantsLemma DEF McuInv
<1>a. /\ at = "run" /\ turned' = TRUE /\ wake' = Mcu!Polled
      /\ UNCHANGED <<bkp, delay, pin, bound, tick, restarts, guesses>>
  BY Zenon DEF Mcu!RunTurn
<1>b. \/ /\ Mcu!Elapsed >= DEAD_MAN_KILL_SEC
         /\ dm' = [dm EXCEPT !.state = "DM_KILLED"]
         /\ at' = "halted" /\ Mcu!Kill("dead man") /\ UNCHANGED queue
      \/ /\ ~(Mcu!Elapsed >= DEAD_MAN_KILL_SEC)
         /\ \/ queue = <<>> /\ dm' = Mcu!Warned /\ UNCHANGED queue
            \/ /\ queue # <<>>
               /\ dm' = Mcu!Touched(Mcu!Warned)
               /\ queue' = Append(Tail(queue), Head(queue))
         /\ UNCHANGED <<at, killed, why>>
  BY Zenon DEF Mcu!RunTurn
<1>c. at' \in {"run", "halted"}
  BY <1>a, <1>b
<1>d. /\ (at' = "halted" => killed') /\ (killed' <=> why'.kill # "none")
      /\ why'.kill # "duress" /\ why'.reset = why.reset
      /\ (killed => killed') /\ DOMAIN why' = {"kill", "reset"}
  <2>1. CASE Mcu!Kill("dead man")
    BY <2>1, KillGiven, "dead man" \in {"attempts", "mismatch", "dead man", "power"}, Zenon
  <2>2. CASE UNCHANGED <<at, killed, why>>
    BY <1>a, <2>2, "run" # "halted", Zenon DEF KillInv, McuTypes, TimeTypes
  <2> QED BY <1>b, <2>1, <2>2
<1>e. Mcu!Elapsed \in Nat /\ DEAD_MAN_KILL_SEC \in Nat
  BY DEF McuTypes, TimeTypes, Mcu!Elapsed
<1>1. BackupTypes' /\ PinTypes'
  BY <1>a DEF McuTypes, BackupTypes, PinTypes
<1>2. QueueTypes'
  <2>1. CASE queue' = queue
    BY <2>1 DEF McuTypes, QueueTypes
  <2>2. CASE queue # <<>> /\ queue' = Append(Tail(queue), Head(queue))
    <3>1. /\ Head(queue) \in Mcu!Entries /\ Tail(queue) \in Seq(Mcu!Entries)
          /\ Len(Tail(queue)) = Len(queue) - 1 /\ Len(queue) \in Nat
      BY <2>2, HeadTailProperties, LenProperties DEF McuTypes, QueueTypes
    <3>2. queue' \in Seq(Mcu!Entries) /\ Len(queue') = Len(Tail(queue)) + 1
      BY <2>2, <3>1, AppendProperties
    <3> QED BY <3>1, <3>2 DEF McuTypes, QueueTypes
  <2> QED BY <1>b, <2>1, <2>2
<1>3. TimeTypes'
  <2>1. wake' \in [pending : BOOLEAN, answered : BOOLEAN, missed : 0 .. 1]
    BY <1>a DEF Mcu!Polled, McuTypes, TimeTypes
  <2>2. dm' \in [state : {"DM_IDLE", "DM_ACTIVE", "DM_WARNING", "DM_KILLED"},
                 last_touch : Nat] /\ dm'.last_touch <= tick
    <3>1. tick \in Nat
      BY DEF McuTypes, TimeTypes
    <3>2. CASE dm' = [dm EXCEPT !.state = "DM_KILLED"]
      BY <3>2 DEF McuTypes, TimeTypes
    <3>3. CASE dm' = Mcu!Warned
      BY <3>3 DEF Mcu!Warned, McuTypes, TimeTypes
    <3>4. CASE dm' = Mcu!Touched(Mcu!Warned)
      BY <3>1, <3>4 DEF Mcu!Touched
    <3> QED BY <1>b, <3>2, <3>3, <3>4
  <2> QED BY <1>a, <1>d, <2>1, <2>2 DEF McuTypes, TimeTypes
<1>4. at' \in Places /\ delay' \in 0 .. DuressDelay + 1 /\ bound' \in 0 .. BindWords
  BY <1>a, <1>c DEF McuTypes, Places
<1>5. AttemptsInv'
  BY <1>a, <1>c, <1>d, Zenon DEF AttemptsInv, Stopped
<1>6. LockoutInv'
  BY <1>c DEF LockoutInv
<1>7. BindInv'
  BY <1>a, <1>c DEF BindInv, Stopped
<1>8. KillInv'
  BY <1>a, <1>c, <1>d, "run" # "wiping", "halted" # "wiping", Zenon DEF KillInv, Stopped
<1>9. DelayInv'
  BY <1>a, <1>c DEF McuTypes, DelayInv
<1>10. WakeInv'
  <2>1. ~wake'.pending /\ (wake'.answered \/ wake'.missed = 0)
    BY <1>a DEF Mcu!Polled, McuTypes, TimeTypes, WakeInv
  <2> QED BY <1>d, <2>1, Zenon DEF WakeInv, Mcu!LoopsSurvive
<1>11. AwayInv'
  <2>1. CASE at' = "halted"
    BY <2>1 DEF AwayInv, Mcu!DeadManExact
  <2>2. CASE at' = "run" /\ ~(Mcu!Elapsed >= DEAD_MAN_KILL_SEC) /\ queue = <<>>
             /\ dm' = Mcu!Warned /\ queue' = queue
    <3>1. dm'.last_touch = dm.last_touch
          /\ (Mcu!Elapsed >= DEAD_MAN_WARN_SEC => dm'.state = "DM_WARNING")
      BY <2>2 DEF Mcu!Warned, McuTypes, TimeTypes
    <3>2. Mcu!Elapsed' = Mcu!Elapsed
      BY <1>a, <3>1 DEF Mcu!Elapsed
    <3> QED BY <1>e, <2>2, <3>1, <3>2 DEF AwayInv, Mcu!DeadManExact
  <2>3. CASE at' = "run" /\ dm' = Mcu!Touched(Mcu!Warned)
    <3>1. dm'.last_touch = tick /\ dm'.state = "DM_ACTIVE"
      BY <2>3 DEF Mcu!Touched
    <3>2. Mcu!Elapsed' = 0
      BY <1>a, <3>1 DEF Mcu!Elapsed, McuTypes, TimeTypes
    <3> QED BY <2>3, <3>1, <3>2 DEF AwayInv, Mcu!DeadManExact
  <2> QED BY <1>a, <1>b, <2>1, <2>2, <2>3
<1> QED BY <1>1, <1>2, <1>3, <1>4, <1>5, <1>6, <1>7, <1>8, <1>9, <1>10, <1>11, Zenon DEF McuTypes

LEMMA KeepsPowerFails ==
  ASSUME McuInv, Mcu!PowerFails
  PROVE  McuInv'
PROOF
<1> USE McuConstantsLemma DEF McuInv
<1>1. BackupTypes' /\ PinTypes'
  BY DEF McuTypes, BackupTypes, PinTypes, AttemptsInv, Stopped, BindInv, Mcu!PowerFails, Mcu!Kill
<1>2. QueueTypes'
  BY DEF McuTypes, QueueTypes, Mcu!PowerFails, Mcu!Kill
<1>3. TimeTypes'
  BY DEF McuTypes, TimeTypes, Mcu!Elapsed, Mcu!PowerFails, Mcu!Kill
<1>4. at' \in Places /\ delay' \in 0 .. DuressDelay + 1 /\ bound' \in 0 .. BindWords
  BY DEF McuTypes, Places, BackupTypes, Mcu!PowerFails, Mcu!Kill
<1>5. AttemptsInv'
  BY DEF McuTypes, BackupTypes, PinTypes, TimeTypes, AttemptsInv, Stopped, Mcu!PowerFails, Mcu!Kill
<1>6. LockoutInv'
  BY DEF McuTypes, BackupTypes, PinTypes, TimeTypes, LockoutInv, Lockout, Mcu!PowerFails, Mcu!Kill
<1>7. BindInv'
  BY DEF McuTypes, BackupTypes, PinTypes, TimeTypes, BindInv, Stopped, Mcu!PowerFails, Mcu!Kill
<1>8. KillInv'
  BY KillGiven, "power" \in {"attempts", "mismatch", "dead man", "power"}, Zenon
     DEF Mcu!PowerFails, KillInv
<1>9. DelayInv'
  BY DEF McuTypes, BackupTypes, PinTypes, TimeTypes, DelayInv, Mcu!PowerFails, Mcu!Kill
<1>10. WakeInv'
  BY DEF McuTypes, BackupTypes, PinTypes, TimeTypes, WakeInv, Mcu!LoopsSurvive, Mcu!PowerFails, Mcu!Kill
<1>11. AwayInv'
  BY DEF McuTypes, BackupTypes, PinTypes, TimeTypes, AwayInv, Mcu!DeadManExact, Mcu!Elapsed, Mcu!PowerFails, Mcu!Kill
<1> QED BY <1>1, <1>2, <1>3, <1>4, <1>5, <1>6, <1>7, <1>8, <1>9, <1>10, <1>11, Zenon DEF McuTypes

LEMMA KeepsWipeRegister ==
  ASSUME McuInv, Mcu!WipeRegister
  PROVE  McuInv'
PROOF
<1> USE McuConstantsLemma DEF McuInv
<1>1. BackupTypes' /\ PinTypes'
  <2>1. CASE bkp.pin
    <3>1. bkp' = [attempts |-> 0, pin |-> FALSE, bind |-> bkp.bind]
      BY <2>1, Zenon DEF Mcu!WipeRegister
    <3> QED BY <3>1 DEF McuTypes, BackupTypes, PinTypes, Mcu!WipeRegister
  <2>2. CASE ~bkp.pin
    <3>1. bkp' = [bkp EXCEPT !.bind = 0]
      BY <2>2, Zenon DEF Mcu!WipeRegister
    <3> QED BY <3>1 DEF McuTypes, BackupTypes, PinTypes, Mcu!WipeRegister
  <2> QED BY <2>1, <2>2
<1>2. QueueTypes'
  BY DEF McuTypes, QueueTypes, Mcu!WipeRegister
<1>3. TimeTypes'
  BY DEF McuTypes, TimeTypes, Mcu!Elapsed, Mcu!WipeRegister
<1>4. at' \in Places /\ delay' \in 0 .. DuressDelay + 1 /\ bound' \in 0 .. BindWords
  BY DEF McuTypes, Places, BackupTypes, Mcu!WipeRegister
<1>5. AttemptsInv'
  BY DEF McuTypes, BackupTypes, PinTypes, TimeTypes, AttemptsInv, Stopped, Mcu!WipeRegister
<1>6. LockoutInv'
  BY DEF McuTypes, BackupTypes, PinTypes, TimeTypes, LockoutInv, Lockout, Mcu!WipeRegister
<1>7. BindInv'
  BY DEF McuTypes, BackupTypes, PinTypes, TimeTypes, BindInv, Stopped, Mcu!WipeRegister
<1>8. KillInv'
  BY DEF McuTypes, BackupTypes, PinTypes, TimeTypes, KillInv, Stopped, Mcu!WipeRegister
<1>9. DelayInv'
  BY DEF McuTypes, BackupTypes, PinTypes, TimeTypes, DelayInv, Mcu!WipeRegister
<1>10. WakeInv'
  BY DEF McuTypes, BackupTypes, PinTypes, TimeTypes, WakeInv, Mcu!LoopsSurvive, Mcu!WipeRegister
<1>11. AwayInv'
  BY DEF McuTypes, BackupTypes, PinTypes, TimeTypes, AwayInv, Mcu!DeadManExact, Mcu!Elapsed, Mcu!WipeRegister
<1> QED BY <1>1, <1>2, <1>3, <1>4, <1>5, <1>6, <1>7, <1>8, <1>9, <1>10, <1>11, Zenon DEF McuTypes

LEMMA KeepsPress ==
  ASSUME McuInv, NEW e \in Mcu!Entries, Mcu!Press(e)
  PROVE  McuInv'
PROOF
<1> USE McuConstantsLemma DEF McuInv
<1>a. /\ at \in {"entry", "run"} /\ Len(queue) < KP_EVENT_QUEUE /\ queue' = Append(queue, e)
      /\ UNCHANGED <<bkp, at, delay, pin, bound, dm, tick, wake, killed, restarts,
                     guesses, why>>
  BY DEF Mcu!Press, Mcu!Looping
<1>b. ~turned'
  BY Zenon DEF Mcu!Press
<1>1. BackupTypes' /\ PinTypes'
  BY <1>a DEF McuTypes, BackupTypes, PinTypes
<1>2. QueueTypes'
  <2>1. Len(queue) \in Nat
    BY LenProperties DEF McuTypes, QueueTypes
  <2>2. queue' \in Seq(Mcu!Entries) /\ Len(queue') = Len(queue) + 1
    BY <1>a, AppendProperties DEF McuTypes, QueueTypes
  <2> QED BY <1>a, <2>1, <2>2 DEF QueueTypes
<1>3. TimeTypes'
  BY <1>a DEF McuTypes, TimeTypes
<1>4. at' \in Places /\ delay' \in 0 .. DuressDelay + 1 /\ bound' \in 0 .. BindWords
  BY <1>a DEF McuTypes
<1>5. AttemptsInv'
  BY <1>a DEF AttemptsInv, Stopped
<1>6. LockoutInv'
  BY <1>a DEF LockoutInv, Lockout
<1>7. BindInv'
  BY <1>a DEF BindInv, Stopped
<1>8. KillInv'
  BY <1>a, Zenon DEF KillInv, Stopped
<1>9. DelayInv'
  BY <1>a DEF DelayInv
<1>10. WakeInv'
  BY <1>a, <1>b, Zenon DEF WakeInv, Mcu!LoopsSurvive
<1>11. AwayInv'
  <2>1. at' # "comms" /\ Mcu!Elapsed' = Mcu!Elapsed
    BY <1>a DEF Mcu!Elapsed
  <2> QED BY <1>a, <1>b, <2>1, Zenon DEF AwayInv, Mcu!DeadManExact
<1> QED BY <1>1, <1>2, <1>3, <1>4, <1>5, <1>6, <1>7, <1>8, <1>9, <1>10, <1>11, Zenon DEF McuTypes

LEMMA KeepsRestart ==
  ASSUME McuInv, NEW from, from \notin {"entry", "run"}, Mcu!Restart(from)
  PROVE  McuInv'
PROOF
<1> USE McuConstantsLemma DEF McuInv
<1>a. /\ pin' = [fail_count |-> bkp.attempts, lockout_until |-> 0] /\ bound' = bkp.bind
      /\ delay' = 0 /\ queue' = <<>> /\ tick' = 0 /\ bkp' = bkp
      /\ wake' = [pending |-> FALSE, answered |-> TRUE, missed |-> 0]
      /\ dm' = IF bkp.pin THEN Mcu!Disarmed ELSE Mcu!Armed(0)
      /\ at' = IF bkp.attempts >= PIN_MAX_ATTEMPTS THEN "halted"
               ELSE IF bkp.pin THEN "entry" ELSE "comms"
      /\ why' = [why EXCEPT !.reset = from]
      /\ guesses' = [n |-> guesses.n, last |-> Mcu!Never,
                     lost |-> guesses.lost + (IF at = "counting" THEN 1 ELSE 0)]
  BY Zenon DEF Mcu!Restart, Mcu!Boot
<1>b. ~turned' /\ (killed' <=> killed \/ bkp.attempts >= PIN_MAX_ATTEMPTS)
  BY Zenon DEF Mcu!Restart, Mcu!Boot
<1>c. bkp.attempts \in 0 .. PIN_MAX_ATTEMPTS /\ bkp.bind \in 0 .. BindWords
  BY DEF McuTypes, BackupTypes
<1>d. killed' <=> killed
  <2>1. bkp.attempts >= PIN_MAX_ATTEMPTS => bkp.attempts = PIN_MAX_ATTEMPTS
    BY <1>c
  <2> QED BY <1>b, <2>1, Zenon DEF AttemptsInv
<1>e. /\ at' \in {"halted", "entry", "comms"}
      /\ at' = "halted" <=> bkp.attempts = PIN_MAX_ATTEMPTS
  BY <1>a, <1>c
<1>f. (at' = "entry" => bkp.pin) /\ (at' = "comms" => ~bkp.pin)
  BY <1>a
<1>g. why'.kill = why.kill /\ why'.reset = from /\ DOMAIN why' = {"kill", "reset"}
  BY <1>a DEF McuTypes, TimeTypes
<1> DEFINE cut == IF at = "counting" THEN 1 ELSE 0
<1>h. /\ guesses'.n = guesses.n /\ guesses'.last = Mcu!Never
      /\ guesses'.lost = guesses.lost + cut /\ cut \in Nat
      /\ guesses' \in [n : Nat, lost : Nat, last : 0 .. Mcu!Never]
  <2>1. cut \in Nat /\ guesses' = [n |-> guesses.n, last |-> Mcu!Never,
                                   lost |-> guesses.lost + cut]
    BY <1>a
  <2> HIDE DEF cut
  <2> QED BY <2>1 DEF McuTypes, TimeTypes
<1>i. /\ dm' \in [state : {"DM_IDLE", "DM_ACTIVE", "DM_WARNING", "DM_KILLED"},
                   last_touch : Nat]
      /\ dm'.last_touch = 0 /\ (at' = "comms" => dm'.state = "DM_ACTIVE")
  BY <1>a, <1>f DEF Mcu!Disarmed, Mcu!Armed
<1>1. BackupTypes' /\ PinTypes'
  BY <1>a, <1>c DEF McuTypes, BackupTypes, PinTypes
<1>2. QueueTypes'
  BY <1>a DEF QueueTypes
<1>3. TimeTypes'
  BY <1>a, <1>g, <1>h, <1>i DEF TimeTypes
<1>4. at' \in Places /\ delay' \in 0 .. DuressDelay + 1 /\ bound' \in 0 .. BindWords
  BY <1>a, <1>c, <1>e DEF Places
<1>5. AttemptsInv'
  <2>1. pin'.fail_count = bkp'.attempts /\ (~Stopped' => bkp'.attempts < PIN_MAX_ATTEMPTS)
    BY <1>a, <1>c, <1>e DEF Stopped
  <2>2. bkp'.attempts = PIN_MAX_ATTEMPTS => killed'
    BY <1>a, <1>d, Zenon DEF AttemptsInv
  <2>3. bkp'.pin => guesses'.n = bkp'.attempts + guesses'.lost
                                 + (IF at' = "counting" THEN 1 ELSE 0)
    <3> HIDE DEF cut
    <3>1. guesses.n = bkp.attempts + guesses.lost + cut
          => guesses'.n = bkp'.attempts + guesses'.lost + 0
      <4>1. bkp'.attempts = bkp.attempts /\ guesses.n \in Nat /\ guesses.lost \in Nat
        BY <1>a DEF McuTypes, TimeTypes
      <4> QED BY <1>c, <1>h, <4>1
    <3>2. (IF at' = "counting" THEN 1 ELSE 0) = 0
      BY <1>e
    <3> QED BY <1>a, <3>1, <3>2, Zenon DEF AttemptsInv, cut
  <2>4. at' \in {"entry", "counting", "wrong", "duress", "bind", "mismatch"} => bkp'.pin
    BY <1>a, <1>e, <1>f
  <2> QED BY <2>1, <2>2, <2>3, <2>4, Zenon DEF AttemptsInv
<1>6. LockoutInv'
  BY <1>h DEF LockoutInv
<1>7. BindInv'
  BY <1>a, <1>e DEF BindInv, Stopped
<1>8. KillInv'
  <2>1. at' # "wiping" /\ (at' = "halted" => killed)
    BY <1>e DEF AttemptsInv
  <2> QED BY <1>a, <1>d, <1>g, <2>1, Zenon DEF KillInv, Stopped
<1>9. DelayInv'
  BY <1>a, <1>e DEF DelayInv
<1>10. WakeInv'
  <2>1. wake'.missed = 0
    BY <1>a
  <2> QED BY <1>b, <1>g, <2>1, Zenon DEF WakeInv, Mcu!LoopsSurvive
<1>11. AwayInv'
  <2>1. Mcu!Elapsed' = 0
    BY <1>a, <1>i DEF Mcu!Elapsed
  <2> QED BY <1>e, <1>i, <2>1 DEF AwayInv, Mcu!DeadManExact
<1> QED BY <1>1, <1>2, <1>3, <1>4, <1>5, <1>6, <1>7, <1>8, <1>9, <1>10, <1>11, Zenon DEF McuTypes

LEMMA McuNext == McuInv /\ [Mcu!Next]_(Mcu!callWhiteVars) => McuInv'
PROOF
<1> SUFFICES ASSUME McuInv, [Mcu!Next]_(Mcu!callWhiteVars) PROVE McuInv'
  OBVIOUS
<1>1. CASE Mcu!PowerCycle
  <2>1. why.reset \notin {"entry", "run"}
    BY DEF McuInv, WakeInv, Mcu!LoopsSurvive
  <2> QED BY <1>1, <2>1, KeepsRestart DEF Mcu!PowerCycle
<1>2. CASE Mcu!TplResets
  <2>1. wake.missed = 1 /\ ~wake.answered
    <3>1. wake.missed \in 0 .. 1
      BY DEF McuInv, McuTypes, TimeTypes
    <3>2. ~wake.answered /\ wake.missed + 1 = 2
      BY <1>2, 0 # 2, Zenon DEF Mcu!TplResets, Mcu!Missed
    <3> QED BY <3>1, <3>2
  <2>2. ~turned
    <3>1. wake.missed # 0
      BY <2>1
    <3> QED BY <2>1, <3>1, Zenon DEF McuInv, WakeInv
  <2>3. Mcu!Waiting
    BY <1>2, <2>2, Zenon DEF Mcu!TplResets
  <2>4. at \notin {"entry", "run"}
    BY <2>3 DEF Mcu!Waiting, McuInv, DelayInv
  <2> QED BY <1>2, <2>4, KeepsRestart DEF Mcu!TplResets
<1>3. CASE UNCHANGED Mcu!callWhiteVars
  <2> USE <1>3 DEF Mcu!callWhiteVars, McuInv
  <2>1. McuTypes'
    BY DEF McuTypes, BackupTypes, PinTypes, QueueTypes, TimeTypes
  <2>2. AttemptsInv' /\ LockoutInv' /\ BindInv'
    BY DEF AttemptsInv, LockoutInv, Lockout, BindInv, Stopped
  <2>3. KillInv' /\ WakeInv'
    BY Zenon DEF KillInv, Stopped, WakeInv, Mcu!LoopsSurvive
  <2>4. DelayInv' /\ AwayInv'
    BY DEF DelayInv, AwayInv, Mcu!DeadManExact, Mcu!Elapsed
  <2> QED BY <2>1, <2>2, <2>3, <2>4
<1> QED
  BY <1>1, <1>2, <1>3, KeepsSecondPasses, KeepsWakeForgotten, KeepsPress, KeepsEntryTurn,
     KeepsCountAttempt, KeepsDelayOver, KeepsBindChecked, KeepsBindWord, KeepsCommsUp,
     KeepsRunTurn, KeepsPowerFails, KeepsWipeRegister DEF Mcu!Next

LEMMA McuInvariant == Mcu!Spec => []McuInv
PROOF
BY McuStarts, McuNext, PTL DEF Mcu!Spec

LEMMA McuTyped == McuInv => Mcu!TypeOK
PROOF BY McuConstantsLemma DEF McuInv, McuTypes, BackupTypes, PinTypes, QueueTypes,
         TimeTypes, Mcu!TypeOK

(* Guesses are counted over restarts and lock out, a kill has its reason,    *)
(* the dead man's switch neither sleeps nor fires early, and the TPL5010     *)
(* spares the loops that turn (boot_pin.h, operator_bind.h, dead_man.h,      *)
(* mcu_watchdog.h and the main loop of main.c).                              *)
THEOREM CallWhiteIsExact == Mcu!Spec => []CallWhiteExact
PROOF
<1>1. McuInv => CallWhiteExact
  <2> SUFFICES ASSUME McuInv PROVE CallWhiteExact
    OBVIOUS
  <2> USE McuConstantsLemma DEF McuInv
  <2>1. at = "counting" => bkp.pin
    BY DEF AttemptsInv
  <2>2. Mcu!GuessesCounted
    <3>1. bkp.pin /\ at # "counting" => bkp.attempts = guesses.n - guesses.lost
      BY DEF AttemptsInv, McuTypes, BackupTypes, TimeTypes
    <3>2. guesses.n - guesses.lost > PIN_MAX_ATTEMPTS - 1 /\ at # "counting" => killed
      <4>1. CASE ~bkp.pin
        BY <4>1, Zenon DEF KillInv
      <4>2. CASE bkp.pin
        <5>1. guesses.n - guesses.lost > PIN_MAX_ATTEMPTS - 1 /\ at # "counting"
              => bkp.attempts = PIN_MAX_ATTEMPTS
          BY <3>1, <4>2 DEF McuTypes, BackupTypes, TimeTypes
        <5> QED BY <5>1, Zenon DEF AttemptsInv
      <4> QED BY <4>1, <4>2
    <3>3. at = "counting" /\ guesses.last # Mcu!Never /\ pin.fail_count >= PIN_LOCKOUT_TIER1
          => tick >= guesses.last + Lockout
      BY DEF LockoutInv
    <3> QED BY <3>1, <3>2, <3>3, Zenon DEF Mcu!GuessesCounted, Lockout
  <2>3. Mcu!KillsAreDue
    <3>1. at = "halted" \/ ~bkp.pin => killed
      BY Zenon DEF KillInv, Stopped
    <3>2. at = "mismatch" => bkp.bind \in 1 .. BindWords - 1
      BY DEF BindInv, Stopped, McuTypes, BackupTypes
    <3> QED BY <3>1, <3>2, Zenon DEF Mcu!KillsAreDue, KillInv
  <2> QED BY <2>2, <2>3, Zenon DEF CallWhiteExact, AwayInv, WakeInv
<1> QED BY <1>1, McuInvariant, PTL
-----------------------------------------------------------------------------
(* The board: one machine runs, the others stand still, so that each does    *)
(* what it does alone.                                                       *)
boardVars == <<subject, hdlVars, mcuVars>>

LEMMA KillOnTheBoard == BoardSpec => Spec
PROOF
<1>1. BoardInit => Init
  BY Zenon DEF BoardInit
<1>2. [BoardNext]_boardVars => [Next]_vars
  <2>1. SUFFICES ASSUME [BoardNext]_boardVars PROVE [Next]_vars
    OBVIOUS
  <2>2. Next \/ UNCHANGED killVars
    BY <2>1, Zenon DEF BoardNext, HdlStep, McuStep, boardVars, hdlVars
  <2>3. UNCHANGED killVars => UNCHANGED vars
    BY DEF killVars, vars, inputs, registers, factory, scrub, port
  <2> QED BY <2>2, <2>3, Zenon
<1> QED BY <1>1, <1>2, PTL DEF BoardSpec, Spec, boardVars

LEMMA WatchdogOnTheBoard == BoardSpec => Watchdog!Spec
PROOF
<1>1. BoardInit => Watchdog!Init
  BY Zenon DEF BoardInit
<1>2. [BoardNext]_boardVars => [Watchdog!Next]_(Watchdog!vars)
  <2>1. SUFFICES ASSUME [BoardNext]_boardVars PROVE [Watchdog!Next]_(Watchdog!vars)
    OBVIOUS
  <2>2. Watchdog!Next \/ UNCHANGED watchdogVars
    BY <2>1, Zenon DEF BoardNext, HdlStep, McuStep, boardVars, hdlVars
  <2>3. UNCHANGED watchdogVars => UNCHANGED Watchdog!vars
    BY DEF watchdogVars, Watchdog!vars, Watchdog!timer, Watchdog!filter, Watchdog!history
  <2> QED BY <2>2, <2>3, Zenon
<1> QED BY <1>1, <1>2, PTL DEF BoardSpec, Watchdog!Spec, boardVars

LEMMA BootOnTheBoard == BoardSpec => Boot!Spec
PROOF
<1>1. BoardInit => Boot!Init
  BY Zenon DEF BoardInit
<1>2. [BoardNext]_boardVars => [Boot!Next]_(Boot!vars)
  <2>1. SUFFICES ASSUME [BoardNext]_boardVars PROVE [Boot!Next]_(Boot!vars)
    OBVIOUS
  <2>2. Boot!Next \/ UNCHANGED <<pll_locked, postVars>>
    BY <2>1 DEF BoardNext, HdlStep, McuStep, boardVars, hdlVars
  <2>3. UNCHANGED <<pll_locked, postVars>> => UNCHANGED Boot!vars
    BY DEF postVars, Boot!vars, Boot!bootVars, Boot!supervisor, Boot!post, Boot!history
  <2> QED BY <2>2, <2>3, Zenon
<1> QED BY <1>1, <1>2, PTL DEF BoardSpec, Boot!Spec, boardVars

LEMMA HeartbeatOnTheBoard == BoardSpec => Heartbeat!Spec
PROOF
<1>1. BoardInit => Heartbeat!Init
  BY Zenon DEF BoardInit
<1>2. [BoardNext]_boardVars => [Heartbeat!Next]_(Heartbeat!heartbeatVars)
  <2>1. SUFFICES ASSUME [BoardNext]_boardVars
                 PROVE  [Heartbeat!Next]_(Heartbeat!heartbeatVars)
    OBVIOUS
  <2>2. Heartbeat!Next \/ UNCHANGED heartbeatVars
    BY <2>1, Zenon DEF BoardNext, HdlStep, McuStep, boardVars, hdlVars
  <2>3. UNCHANGED heartbeatVars => UNCHANGED Heartbeat!heartbeatVars
    BY DEF heartbeatVars, Heartbeat!heartbeatVars
  <2> QED BY <2>2, <2>3, Zenon
<1> QED BY <1>1, <1>2, PTL DEF BoardSpec, Heartbeat!Spec, boardVars

LEMMA HashOnTheBoard == BoardSpec => Hash!Spec
PROOF
<1>1. BoardInit => Hash!Init
  BY Zenon DEF BoardInit
<1>2. [BoardNext]_boardVars => [Hash!Next]_(Hash!hmacVars)
  <2>1. SUFFICES ASSUME [BoardNext]_boardVars PROVE [Hash!Next]_(Hash!hmacVars)
    OBVIOUS
  <2>2. Hash!Next \/ UNCHANGED hashVars
    BY <2>1, Zenon DEF BoardNext, HdlStep, McuStep, boardVars, hdlVars
  <2>3. UNCHANGED hashVars => UNCHANGED Hash!hmacVars
    BY DEF hashVars, Hash!hmacVars
  <2> QED BY <2>2, <2>3, Zenon
<1> QED BY <1>1, <1>2, PTL DEF BoardSpec, Hash!Spec, boardVars

LEMMA McuOnTheBoard == BoardSpec => Mcu!Spec
PROOF
<1>1. BoardInit => Mcu!Init
  BY Zenon DEF BoardInit
<1>2. [BoardNext]_boardVars => [Mcu!Next]_(Mcu!callWhiteVars)
  <2>1. SUFFICES ASSUME [BoardNext]_boardVars PROVE [Mcu!Next]_(Mcu!callWhiteVars)
    OBVIOUS
  <2>2. Mcu!Next \/ UNCHANGED mcuVars
    BY <2>1, Zenon DEF BoardNext, HdlStep, McuStep, boardVars
  <2>3. UNCHANGED mcuVars => UNCHANGED Mcu!callWhiteVars
    BY DEF mcuVars, Mcu!callWhiteVars
  <2> QED BY <2>2, <2>3, Zenon
<1> QED BY <1>1, <1>2, PTL DEF BoardSpec, Mcu!Spec, boardVars

\* Every machine of the board keeps its registers within their widths.
THEOREM BoardTyped == BoardSpec => []TypesOK
PROOF
<1>1. /\ WatchdogInv => Watchdog!TypeOK
      /\ BootInv => Boot!TypeOK
  BY Zenon DEF WatchdogInv, BootInv
<1>2. /\ TypeOK /\ Watchdog!TypeOK /\ Boot!TypeOK
      /\ Heartbeat!TypeOK /\ Hash!TypeOK /\ Mcu!TypeOK
      => TypesOK
  BY Zenon DEF TypesOK
<1> QED BY <1>1, <1>2, KillOnTheBoard, Typing, WatchdogOnTheBoard, WatchdogInvariant,
           BootOnTheBoard, BootOrdered, HeartbeatOnTheBoard, HeartbeatIsHonest,
           HashOnTheBoard, HashAnswersExactly, McuOnTheBoard, McuInvariant, McuTyped, PTL

\* The two halves of the heartbeat, the protocol of the FPGAs and the hash core
\* behind it (hmac_heartbeat_ctrl, pf_hmac_responder, hmac_sha256).
THEOREM HeartbeatIsExact == BoardSpec => []HeartbeatExact
PROOF
<1>1. Heartbeat!OkIsEarned /\ Heartbeat!OkIsRecent /\ Heartbeat!TagOfChallenge
      /\ Hash!HmacExact => HeartbeatExact
  BY Zenon DEF HeartbeatExact
<1> QED BY <1>1, HeartbeatOnTheBoard, HeartbeatIsHonest, HashOnTheBoard,
           HashAnswersExactly, PTL

\* All that the board's machines promise of safety holds of the board.
THEOREM BoardIsSafe ==
  BoardSpec => /\ [](NeverNormalAgain /\ EraseExact /\ WindowClosesForGood)
               /\ [](WatchdogExact /\ CallWhiteExact)
               /\ BootGates
PROOF BY KillOnTheBoard, Latched, Erased, WindowCloses, WatchdogOnTheBoard,
         WatchdogIsExact, McuOnTheBoard, CallWhiteIsExact, BootOnTheBoard, BootIsGated, PTL
=============================================================================
