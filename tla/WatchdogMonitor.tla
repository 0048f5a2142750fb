--------------------------- MODULE WatchdogMonitor ---------------------------
(* watchdog_monitor.vhd in full: the timers of WatchdogTimer behind the      *)
(* two-stage synchronizer and the three-out-of-five vote on the PolarFire's  *)
(* heartbeat line.  The line is free: beating, stuck or noisy.               *)
EXTENDS WatchdogTimer, FiniteSets

VARIABLES target_heartbeat,   \* input port: the level the next edge samples
          heartbeat_sync,     \* [0..1 -> BOOLEAN], 0 is the newest sample
          vote_shift,         \* [0..4 -> BOOLEAN], 0 is the newest sample
          vote_result, last_heartbeat,
          held,      \* history: edges the line has kept its level for, capped
          regular,   \* history: since reset every level was held long enough
                     \*          to be seen and not too long to be missed
          armed      \* history: edges the line is still and grace is over

history == <<held, regular, armed>>
filter == <<heartbeat_sync, vote_shift, vote_result, last_heartbeat>>
vars == <<rst_n, target_heartbeat, timer, filter, history>>

\* Ticks from the last voted beat to the kill, and how long a voted beat lags
\* behind the line.
KillAfter == MAX_FAIL_COUNT * (TIMEOUT_CYCLES + 1)
Lag == 7
Cap == KillAfter + Lag
MinHold == 3

\* The three timeouts outlast the filter: TIMEOUT_CYCLES is a whole number of
\* milliseconds, thousands of edges, in every configuration of the source.
MonitorConstants == WatchdogConstants /\ KillAfter > Lag

TypeOK ==
  /\ TimerTypeOK
  /\ target_heartbeat \in BOOLEAN
  /\ heartbeat_sync \in [0 .. 1 -> BOOLEAN]
  /\ vote_shift \in [0 .. 4 -> BOOLEAN]
  /\ vote_result \in BOOLEAN /\ last_heartbeat \in BOOLEAN
  /\ held \in 0 .. Cap /\ regular \in BOOLEAN /\ armed \in 0 .. Cap

FilterZero ==
  /\ heartbeat_sync = [i \in 0 .. 1 |-> FALSE]
  /\ vote_shift = [i \in 0 .. 4 |-> FALSE]
  /\ vote_result = FALSE /\ last_heartbeat = FALSE

FilterReset ==
  /\ heartbeat_sync' = [i \in 0 .. 1 |-> FALSE]
  /\ vote_shift' = [i \in 0 .. 4 |-> FALSE]
  /\ vote_result' = FALSE /\ last_heartbeat' = FALSE

Init ==
  /\ rst_n = FALSE /\ target_heartbeat = FALSE
  /\ TimerInit /\ FilterZero
  /\ held = Lag /\ regular = TRUE /\ armed = 0
-----------------------------------------------------------------------------
Majority == Cardinality({i \in 0 .. 4 : vote_shift[i]}) >= 3
VotedEdge == vote_result # last_heartbeat

FilterStep ==
  /\ heartbeat_sync' = [i \in 0 .. 1 |-> IF i = 0 THEN target_heartbeat
                                         ELSE heartbeat_sync[0]]
  /\ vote_shift' = [i \in 0 .. 4 |-> IF i = 0 THEN heartbeat_sync[1]
                                     ELSE vote_shift[i - 1]]
  /\ vote_result' = Majority
  /\ last_heartbeat' = vote_result

Capped(n) == IF n < Cap THEN n + 1 ELSE Cap

\* What the line did: it may keep its level or change before the next edge.
\* A reset clears the filter: a low line owes its first beat a Lag earlier.
HistoryStep ==
  IF ~rst_n \/ ~rst_n'
  THEN /\ held' = IF target_heartbeat' THEN 0 ELSE Lag
       /\ armed' = 0 /\ regular' = TRUE
  ELSE IF target_heartbeat' = target_heartbeat
       THEN /\ held' = Capped(held)
            /\ armed' = IF grace_done THEN Capped(armed) ELSE 0
            /\ regular' = (regular /\ held + 1 < KillAfter)
       ELSE /\ held' = 0 /\ armed' = 0
            /\ regular' = (regular /\ held + 1 >= MinHold)

Tick ==
  /\ rst_n' \in BOOLEAN
  /\ target_heartbeat' \in BOOLEAN
  /\ TimerStep(VotedEdge)
  /\ IF ~rst_n \/ ~rst_n' THEN FilterReset ELSE FilterStep
  /\ HistoryStep

Next == Tick
Spec == Init /\ [][Next]_vars
-----------------------------------------------------------------------------
\* A line that keeps beating, each level held for at least three edges and for
\* less than the three timeouts together, is never taken for dead: the vote
\* delays every beat by the same number of edges.
BeatingLineLives == regular => ~kill_latched

\* A line that stays still once the grace period is over is taken for dead
\* after three timeouts, whatever noise came before.
StillLineKills == armed >= Cap => kill_latched

=============================================================================
