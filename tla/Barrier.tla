------------------------------ MODULE Barrier ------------------------------
(***************************************************************************)
(* bb::Barrier of base/sync/barrier.h with more users than its count, so   *)
(* that a thread that wakes late may find the next cycle begun.            *)
(***************************************************************************)
EXTENDS Naturals, FiniteSets

CONSTANTS
  Parties,      \* threads that call Wait()
  InitialCount, \* initial_count_
  MaxCycles     \* bound on cycle_count_

ASSUME BarrierAssumption == InitialCount \in Nat \ {0} /\ MaxCycles \in Nat

VARIABLES
  count_, cycle_count_,
  bpc,      \* "idle", "waiting" in cond_.Wait(), or "awake" before the re-check
  initial,  \* initial_cycle of each waiting thread
  arrived   \* calls of Wait() in each cycle so far

barrierVars == <<count_, cycle_count_, bpc, initial, arrived>>

BarrierTypeOK ==
  /\ count_ \in 1 .. InitialCount /\ cycle_count_ \in 0 .. MaxCycles
  /\ bpc \in [Parties -> {"idle", "waiting", "awake"}]
  /\ initial \in [Parties -> 0 .. MaxCycles]
  /\ arrived \in [0 .. MaxCycles -> 0 .. InitialCount]

BarrierInit ==
  /\ count_ = InitialCount /\ cycle_count_ = 0
  /\ bpc = [t \in Parties |-> "idle"] /\ initial = [t \in Parties |-> 0]
  /\ arrived = [c \in 0 .. MaxCycles |-> 0]

(* Wait() up to its first sleep, or all of it for the thread that arrives  *)
(* last: it resets the count, begins the next cycle and wakes everybody.   *)
Arrive(t) ==
  /\ bpc[t] = "idle" /\ cycle_count_ < MaxCycles
  /\ arrived' = [arrived EXCEPT ![cycle_count_] = @ + 1]
  /\ IF count_ = 1
     THEN /\ count_' = InitialCount /\ cycle_count_' = cycle_count_ + 1
          /\ bpc' = [u \in Parties |-> IF bpc[u] = "waiting" THEN "awake" ELSE bpc[u]]
          /\ UNCHANGED initial
     ELSE /\ count_' = count_ - 1 /\ UNCHANGED cycle_count_
          /\ bpc' = [bpc EXCEPT ![t] = "waiting"]
          /\ initial' = [initial EXCEPT ![t] = cycle_count_]

(* Fault: `if` for `while`. *)
SameCycle_If(t) == FALSE
SameCycle(t) == cycle_count_ = initial[t]

(* The loop after a wake-up. *)
Recheck(t) ==
  /\ bpc[t] = "awake"
  /\ bpc' = [bpc EXCEPT ![t] = IF SameCycle(t) THEN "waiting" ELSE "idle"]
  /\ initial' = [initial EXCEPT ![t] = IF SameCycle(t) THEN @ ELSE 0]
  /\ UNCHANGED <<count_, cycle_count_, arrived>>

BarrierSpurious(t) ==
  /\ bpc[t] = "waiting" /\ bpc' = [bpc EXCEPT ![t] = "awake"]
  /\ UNCHANGED <<count_, cycle_count_, initial, arrived>>

BarrierNext == \E t \in Parties : Arrive(t) \/ Recheck(t) \/ BarrierSpurious(t)

-----------------------------------------------------------------------------
(* Nobody leaves Wait() before its own cycle is full, though threads of    *)
(* later cycles may already have arrived; and nobody waits any longer.     *)
BarrierHolds ==
  [][\A t \in Parties : bpc[t] = "awake" /\ bpc'[t] = "idle" =>
       arrived[initial[t]] = InitialCount]_barrierVars

NobodyMissesTheCycle ==
  \A t \in Parties : bpc[t] = "waiting" => arrived[initial[t]] < InitialCount

=============================================================================
