------------------------------ MODULE RWCLock ------------------------------
(***************************************************************************)
(* bb::RWCLock of base/sync/rwc_lock.{h,cc}: readers, one writer that may  *)
(* run beside them, and the commit, which is alone.  A step is a critical  *)
(* section on lock_; a commit keeps lock_ until CommitUnlock().            *)
(***************************************************************************)
EXTENDS Naturals, FiniteSets

CONSTANT RWCThreads \* threads that use the lock

ASSUME RWCAssumption == IsFiniteSet(RWCThreads)

VARIABLES
  committer,     \* the thread that keeps lock_, as a set
  reader_count_,
  write_locked_,
  wpc            \* where each thread is; "no_mutators_" and "no_readers_"
                 \* are those that wait on the condition variable

rwcVars == <<committer, reader_count_, write_locked_, wpc>>

RWCTypeOK ==
  /\ committer \subseteq RWCThreads /\ reader_count_ \in Nat /\ write_locked_ \in BOOLEAN
  /\ wpc \in [RWCThreads -> {"idle", "reading", "write_lock", "no_mutators_",
                             "mutating", "upgrade", "no_readers_", "committing"}]

RWCInit ==
  /\ committer = {} /\ reader_count_ = 0 /\ write_locked_ = FALSE
  /\ wpc = [t \in RWCThreads |-> "idle"]

InState(pc) == {t \in RWCThreads : wpc[t] = pc}

(* Thread t, free to take lock_, runs a section that takes it to pc. *)
Section(t, from, pc) ==
  committer = {} /\ wpc[t] \in from /\ wpc' = [wpc EXCEPT ![t] = pc]

(* The same, and Signal() to one waiter of cv, which then retries. *)
SectionSignal(t, from, pc, cv, retry) ==
  /\ committer = {} /\ wpc[t] = from
  /\ IF InState(cv) = {} THEN wpc' = [wpc EXCEPT ![t] = pc]
     ELSE \E u \in InState(cv) : wpc' = [wpc EXCEPT ![t] = pc, ![u] = retry]

-----------------------------------------------------------------------------
ReadLock(t) ==
  /\ Section(t, {"idle"}, "reading")
  /\ reader_count_' = reader_count_ + 1
  /\ UNCHANGED <<committer, write_locked_>>

(* Fault: the count is compared before it is decremented. *)
LastReader_OffByOne == reader_count_ = 0
LastReader == reader_count_ = 1

ReadUnlock(t) ==
  /\ reader_count_' = reader_count_ - 1
  /\ IF LastReader
     THEN SectionSignal(t, "reading", "idle", "no_readers_", "upgrade")
     ELSE Section(t, {"reading"}, "idle")
  /\ UNCHANGED <<committer, write_locked_>>

(* WriteLock(), from its start or from a wake-up in its wait. *)
WriteLock(t) ==
  /\ Section(t, {"idle", "write_lock"}, IF write_locked_ THEN "no_mutators_" ELSE "mutating")
  /\ write_locked_' = TRUE
  /\ UNCHANGED <<committer, reader_count_>>

WriteUnlock(t) ==
  /\ SectionSignal(t, "mutating", "idle", "no_mutators_", "write_lock")
  /\ write_locked_' = FALSE
  /\ UNCHANGED <<committer, reader_count_>>

(* UpgradeToCommitLock() leaves lock_ held. *)
UpgradeToCommitLock(t) ==
  /\ Section(t, {"mutating", "upgrade"},
             IF reader_count_ > 0 THEN "no_readers_" ELSE "committing")
  /\ committer' = IF reader_count_ > 0 THEN {} ELSE {t}
  /\ UNCHANGED <<reader_count_, write_locked_>>

CommitUnlock(t) ==
  /\ committer = {t} /\ committer' = {}
  /\ write_locked_' = FALSE
  /\ wpc' = [u \in RWCThreads |-> IF u = t THEN "idle"
                                  ELSE IF wpc[u] = "no_mutators_" THEN "write_lock"
                                  ELSE wpc[u]]
  /\ UNCHANGED reader_count_

(* A condition variable may wake a thread that nobody signalled. *)
RWCSpurious(t) ==
  /\ \/ wpc[t] = "no_mutators_" /\ wpc' = [wpc EXCEPT ![t] = "write_lock"]
     \/ wpc[t] = "no_readers_" /\ wpc' = [wpc EXCEPT ![t] = "upgrade"]
  /\ UNCHANGED <<committer, reader_count_, write_locked_>>

(* A thread that is not waiting carries on and ends its sections. *)
RWCRetry(t) ==
  \/ wpc[t] = "write_lock" /\ WriteLock(t)
  \/ wpc[t] = "upgrade" /\ UpgradeToCommitLock(t)
RWCEnds(t) == ReadUnlock(t) \/ WriteUnlock(t) \/ UpgradeToCommitLock(t) \/ CommitUnlock(t)

RWCFairness == \A t \in RWCThreads : WF_rwcVars(RWCRetry(t)) /\ WF_rwcVars(RWCEnds(t))

RWCNext == \E t \in RWCThreads :
             ReadLock(t) \/ WriteLock(t) \/ RWCEnds(t) \/ RWCSpurious(t)

-----------------------------------------------------------------------------
(* A commit is alone, a mutator is the only one of its kind, and the count *)
(* and the flag the conditions wait for agree with who is in.  A waiter is *)
(* never left with nobody in whose unlock signals its condition variable.  *)
RWCExclusion ==
  LET mutators == InState("mutating") \cup InState("upgrade") \cup InState("no_readers_")
                  \cup InState("committing") IN
  /\ InState("committing") # {} => InState("reading") = {}
  /\ committer = InState("committing")
  /\ Cardinality(mutators) = IF write_locked_ THEN 1 ELSE 0
  /\ reader_count_ = Cardinality(InState("reading"))

NobodyWaitsForNothing ==
  /\ InState("no_readers_") # {} => reader_count_ > 0
  /\ InState("no_mutators_") # {} => write_locked_ \/ InState("write_lock") # {}

(* UpgradeToCommitLock() returns once the readers have drained for good;   *)
(* the header promises no more.                                            *)
UpgradeReturns ==
  <>[](reader_count_ = 0) =>
    \A t \in RWCThreads :
      wpc[t] \in {"upgrade", "no_readers_"} ~> wpc[t] = "committing"

=============================================================================
