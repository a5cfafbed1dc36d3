------------------------------- MODULE MCSync -------------------------------
(***************************************************************************)
(* The classes of base/sync for TLC.  They share no state, so a behaviour  *)
(* is about one of them, the subject, and the others stand still.          *)
(***************************************************************************)
EXTENDS MCBlockingQueue, SpinLock, GoogleOnce, RWSemaphore, RWCLock, Barrier

VARIABLE subject

SyncInit ==
  /\ subject \in {"queue", "spin", "once", "rw", "rwc", "barrier"}
  /\ Init /\ SpinInit /\ OnceInit /\ RWInit /\ RWCInit /\ BarrierInit

SyncNext ==
  /\ UNCHANGED subject
  /\ \/ /\ subject = "queue" /\ Next
        /\ UNCHANGED <<spinVars, onceVars, rwVars, rwcVars, barrierVars>>
     \/ /\ subject = "spin" /\ SpinNext
        /\ UNCHANGED <<vars, onceVars, rwVars, rwcVars, barrierVars>>
     \/ /\ subject = "once" /\ OnceNext
        /\ UNCHANGED <<vars, spinVars, rwVars, rwcVars, barrierVars>>
     \/ /\ subject = "rw" /\ RWNext
        /\ UNCHANGED <<vars, spinVars, onceVars, rwcVars, barrierVars>>
     \/ /\ subject = "rwc" /\ RWCNext
        /\ UNCHANGED <<vars, spinVars, onceVars, rwVars, barrierVars>>
     \/ /\ subject = "barrier" /\ BarrierNext
        /\ UNCHANGED <<vars, spinVars, onceVars, rwVars, rwcVars>>

SyncSpec ==
  /\ SyncInit /\ [][SyncNext]_<<subject, vars, spinVars, onceVars, rwVars, rwcVars, barrierVars>>
  /\ QueueFairness /\ OnceFairness /\ RWFairness /\ RWCFairness

-----------------------------------------------------------------------------
(* Under every interleaving of their atomic accesses the locks keep their  *)
(* users apart, their words agree with who is in, and a function passed to *)
(* the once runs once: SpinLock, rw_semaphore, percpu_rwlock, RWCLock and  *)
(* GoogleOnceInternalInit().                                               *)
LocksExclude ==
  /\ SpinTypeOK /\ SpinExclusion
  /\ RWTypeOK /\ WordsCount
  /\ RWCTypeOK /\ RWCExclusion
  /\ OnceTypeOK /\ OnceRunsOnce

(* Whoever sleeps in SpinLock, RWCLock or Barrier has somebody who is      *)
(* bound to wake it: no Signal() and no futex wake-up is lost.             *)
WaitersHaveWakers ==
  NoSleeperForgotten /\ NobodyWaitsForNothing /\ BarrierTypeOK /\ NobodyMissesTheCycle

(* percpu_rwlock implements the abstract reader-writer lock, and Barrier   *)
(* lets nobody pass before the last has come.                              *)
LockContracts == Abstract!Spec /\ BarrierHolds

(* Calls that must end do: a writer drains its readers, an upgrade to the  *)
(* commit lock returns once readers stay away, and Init() of a once        *)
(* returns to every caller.                                                *)
LockCallsReturn == WriterDrains /\ UpgradeReturns /\ OnceCallsReturn

=============================================================================
