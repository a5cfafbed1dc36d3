------------------------------ MODULE SpinLock ------------------------------
(***************************************************************************)
(* base::SpinLock of gbase/spinlock.{h,cc}, the lock inside                *)
(* bb::simple_spinlock, with the futex wait of spinlock_linux-inl.h.       *)
(*                                                                         *)
(* One step is one access to lockword_ or one system call.  A thread that  *)
(* had to wait stores the time it waited in the word, ored with            *)
(* kSpinLockSleeper: only whether that value equals the mark itself is     *)
(* kept.  The futex sleeps only while the word is what the thread saw.     *)
(***************************************************************************)
EXTENDS Naturals, FiniteSets

CONSTANT Spinners \* threads that use the lock

Free == 0    \* kSpinLockFree
Held == 1    \* kSpinLockHeld
Sleeper == 2 \* kSpinLockSleeper
Waited == 3  \* any longer time the holder waited

VARIABLES
  lockword, \* lockword_
  spc,      \* where each thread is
  seen      \* lock_value: the word each waiter saw last

spinVars == <<lockword, spc, seen>>

SpinTypeOK ==
  /\ lockword \in {Free, Held, Sleeper, Waited}
  /\ spc \in [Spinners -> {"idle", "spin", "mark", "delay", "futex", "held", "wake"}]
  /\ seen \in [Spinners -> {Free, Held, Sleeper, Waited}]

SpinInit ==
  /\ lockword = Free
  /\ spc = [t \in Spinners |-> "idle"]
  /\ seen = [t \in Spinners |-> Free]

SpinGoto(t, pc) == spc' = [spc EXCEPT ![t] = pc]

(* The thread that CASes the word from Free to w owns the lock. *)
TakeWord(t, w) == lockword = Free /\ lockword' = w /\ SpinGoto(t, "held") /\ UNCHANGED seen

(* The loop of SlowLock() after a failed CAS has returned `lockword`. *)
SpinRetry(t) ==
  /\ lockword # Free
  /\ seen' = [seen EXCEPT ![t] = lockword]
  /\ SpinGoto(t, IF lockword = Held THEN "mark" ELSE "delay")
  /\ UNCHANGED lockword

-----------------------------------------------------------------------------
(* Lock(): the CAS of the fast path.  TryLock() is its success alone. *)
SpinAcquire(t) ==
  /\ spc[t] = "idle"
  /\ \/ TakeWord(t, Held)
     \/ lockword # Free /\ SpinGoto(t, "spin") /\ UNCHANGED <<lockword, seen>>

(* Fault: the mark of a sleeper may be lost. *)
WaitCycles_Unmarked == {Held, Sleeper, Waited}

(* CalculateWaitCycles(): never Free and never Held. *)
WaitCycles == {Sleeper, Waited}

(* SpinLoop(), and the CAS of SlowLock() on a lock found free again. *)
SpinLoop(t) ==
  /\ spc[t] = "spin"
  /\ \/ \E w \in WaitCycles : TakeWord(t, w)
     \/ SpinRetry(t)

(* The CAS from Held to Sleeper before going to sleep. *)
MarkSleeper(t) ==
  /\ spc[t] = "mark"
  /\ lockword' = IF lockword = Held THEN Sleeper ELSE lockword
  /\ seen' = [seen EXCEPT ![t] = lockword']
  /\ SpinGoto(t, IF lockword = Free THEN "spin" ELSE "delay")

(* SpinLockDelay(): FUTEX_WAIT returns at once when the word has changed. *)
SpinDelay(t) ==
  /\ spc[t] = "delay"
  /\ SpinGoto(t, IF lockword = seen[t] THEN "futex" ELSE "spin")
  /\ UNCHANGED <<lockword, seen>>

SpinDelayEnds(t) == spc[t] = "futex" /\ SpinGoto(t, "spin") /\ UNCHANGED <<lockword, seen>>

(* Unlock(): the exchange, and SlowUnlock() unless nobody had waited. *)
SpinUnlock(t) ==
  /\ spc[t] = "held"
  /\ lockword' = Free
  /\ SpinGoto(t, IF lockword = Held THEN "idle" ELSE "wake")
  /\ UNCHANGED seen

(* SpinLockWake(&lockword_, false): one of the sleepers, if there is any. *)
SpinWake(t) ==
  /\ spc[t] = "wake"
  /\ LET asleep == {u \in Spinners : spc[u] = "futex"} IN
     IF asleep = {} THEN SpinGoto(t, "idle")
     ELSE \E u \in asleep : spc' = [spc EXCEPT ![t] = "idle", ![u] = "spin"]
  /\ UNCHANGED <<lockword, seen>>

SpinStep(t) ==
  \/ SpinAcquire(t) \/ SpinLoop(t) \/ MarkSleeper(t) \/ SpinDelay(t) \/ SpinDelayEnds(t)
  \/ SpinUnlock(t) \/ SpinWake(t)

SpinNext == \E t \in Spinners : SpinStep(t)

SpinSpec == SpinInit /\ [][SpinNext]_spinVars

-----------------------------------------------------------------------------
(* The word is Free exactly while nobody holds the lock, and two threads   *)
(* never hold it: the CAS of Lock(), of SpinLoop() and the mark of a       *)
(* sleeper race on one word with the exchange of Unlock().                 *)
SpinExclusion ==
  LET holders == {t \in Spinners : spc[t] = "held"} IN
  /\ Cardinality(holders) <= 1
  /\ (lockword = Free) <=> (holders = {})

(* While a thread sleeps in the futex, the word tells the holder to wake   *)
(* somebody, or somebody is already awake who took or will take the word   *)
(* over with such a mark.  The timed futex would otherwise be all that     *)
(* ends a wait: this is what the wait cycles kept in the word are for.     *)
NoSleeperForgotten ==
  (\E t \in Spinners : spc[t] = "futex") =>
    \/ lockword >= Sleeper
    \/ \E u \in Spinners : spc[u] \in {"wake", "spin", "mark", "delay"}

=============================================================================
