---------------------------- MODULE RWSemaphore ----------------------------
(***************************************************************************)
(* bb::percpu_rwlock of base/sync/locks.h: one rw_spinlock, that is one    *)
(* rw_semaphore of base/sync/rw_semaphore.h, for every processor.  A       *)
(* reader takes the word of the processor it runs on, a writer takes all   *)
(* of them in order.  With NumCpus = 1 it is a plain rw_spinlock.          *)
(*                                                                         *)
(* One step is one access to a word: the count of readers and the write    *)
(* flag, changed together by compare-and-swap.                             *)
(***************************************************************************)
EXTENDS Naturals, FiniteSets

CONSTANTS
  RWThreads, \* threads that use the lock
  RWWriters, \* those among them that may lock it exclusively
  NumCpus    \* n_cpus_

ASSUME RWAssumption == IsFiniteSet(RWThreads) /\ NumCpus \in Nat \ {0}

Cpus == 1 .. NumCpus

VARIABLES
  state_, \* the word of each processor
  rpc,    \* where each thread is
  cpu,    \* the word it works on
  cur,    \* its cur_state: the word as it last saw it
  trying  \* it is in try_lock()

rwVars == <<state_, rpc, cpu, cur, trying>>

Word == [count : 0 .. Cardinality(RWThreads), flag : BOOLEAN]
Zero == [count |-> 0, flag |-> FALSE]

RWTypeOK ==
  /\ state_ \in [Cpus -> Word] /\ cur \in [RWThreads -> Word]
  /\ rpc \in [RWThreads -> {"idle", "rcas", "reading", "ucas", "wload",
                            "wcas", "drain", "writing", "unlock", "undo"}]
  /\ cpu \in [RWThreads -> Cpus] /\ trying \in [RWThreads -> BOOLEAN]

RWInit ==
  /\ state_ = [c \in Cpus |-> Zero]
  /\ rpc = [t \in RWThreads |-> "idle"] /\ cpu = [t \in RWThreads |-> 1]
  /\ cur = [t \in RWThreads |-> Zero] /\ trying = [t \in RWThreads |-> FALSE]

-----------------------------------------------------------------------------
RWGoto(t, pc) == rpc' = [rpc EXCEPT ![t] = pc]
MyWord(t) == state_[cpu[t]]

(* Compare-and-swap on t's word; a failed one leaves what it saw in cur. *)
Cas(t, expected, new, next) ==
  IF MyWord(t) = expected
  THEN /\ state_' = [state_ EXCEPT ![cpu[t]] = new] /\ RWGoto(t, next)
       /\ cur' = [cur EXCEPT ![t] = Zero]
  ELSE cur' = [cur EXCEPT ![t] = MyWord(t)] /\ UNCHANGED <<state_, rpc>>

(* Fault: the write flag of the word seen last is not masked out. *)
NoWriter_Unmasked(t) == cur[t]

(* expected: the word seen last, without its write flag *)
NoWriter(t) == [cur[t] EXCEPT !.flag = FALSE]

(* lock_shared(), on the processor the thread runs on (get_lock()), up to  *)
(* its first load.                                                         *)
LockShared(t) ==
  /\ rpc[t] = "idle" /\ RWGoto(t, "rcas")
  /\ \E c \in Cpus : /\ cpu' = [cpu EXCEPT ![t] = c]
                     /\ cur' = [cur EXCEPT ![t] = state_[c]]
  /\ UNCHANGED <<state_, trying>>

UnlockShared(t) ==
  /\ rpc[t] = "reading" /\ RWGoto(t, "ucas")
  /\ cur' = [cur EXCEPT ![t] = MyWord(t)]
  /\ UNCHANGED <<state_, cpu, trying>>

(* lock() and try_lock() *)
LockExclusive(t) ==
  /\ t \in RWWriters /\ rpc[t] = "idle" /\ RWGoto(t, "wload")
  /\ \E b \in BOOLEAN : trying' = [trying EXCEPT ![t] = b]
  /\ UNCHANGED <<state_, cpu, cur>>

LoadWord(t) ==
  /\ rpc[t] = "wload" /\ RWGoto(t, "wcas")
  /\ cur' = [cur EXCEPT ![t] = MyWord(t)]
  /\ UNCHANGED <<state_, cpu, trying>>

(* The loop of lock_shared(): one more reader, and no writer. *)
AddReader(t) ==
  /\ rpc[t] = "rcas"
  /\ Cas(t, NoWriter(t), [NoWriter(t) EXCEPT !.count = @ + 1], "reading")
  /\ UNCHANGED <<cpu, trying>>

(* The loop of unlock_shared(), which a waiting writer may not disturb. *)
DropReader(t) ==
  /\ rpc[t] = "ucas"
  /\ Cas(t, cur[t], [cur[t] EXCEPT !.count = @ - 1], "idle")
  /\ cpu' = [cpu EXCEPT ![t] = IF rpc'[t] = "idle" THEN 1 ELSE @]
  /\ UNCHANGED trying

(* The loops of lock() and try_lock(): raise the flag over the readers. *)
RaiseFlag(t) ==
  /\ rpc[t] = "wcas" /\ ~(trying[t] /\ cur[t].flag)
  /\ Cas(t, NoWriter(t), [cur[t] EXCEPT !.flag = TRUE], "drain")
  /\ UNCHANGED <<cpu, trying>>

(* try_lock() finds another writer: percpu_rwlock::try_lock() unlocks the  *)
(* words it has, from the last one down.                                   *)
TryFails(t) ==
  /\ rpc[t] = "wcas" /\ trying[t] /\ cur[t].flag
  /\ RWGoto(t, IF cpu[t] = 1 THEN "idle" ELSE "undo")
  /\ cpu' = [cpu EXCEPT ![t] = IF @ = 1 THEN 1 ELSE @ - 1]
  /\ cur' = [cur EXCEPT ![t] = Zero] /\ trying' = [trying EXCEPT ![t] = FALSE]
  /\ UNCHANGED state_

(* WaitPendingReaders(), and on to the next word. *)
ReadersGone(t) ==
  /\ rpc[t] = "drain" /\ MyWord(t).count = 0
  /\ RWGoto(t, IF cpu[t] = NumCpus THEN "writing" ELSE "wload")
  /\ cpu' = [cpu EXCEPT ![t] = IF @ = NumCpus THEN 1 ELSE @ + 1]
  /\ trying' = [trying EXCEPT ![t] = @ /\ cpu[t] < NumCpus]
  /\ UNCHANGED <<state_, cur>>

UnlockExclusive(t) ==
  rpc[t] = "writing" /\ RWGoto(t, "unlock") /\ UNCHANGED <<state_, cpu, cur, trying>>

(* unlock() of one word, upwards in unlock(), downwards in try_lock(). *)
StoreZero(t) ==
  /\ rpc[t] \in {"unlock", "undo"}
  /\ state_' = [state_ EXCEPT ![cpu[t]] = Zero]
  /\ LET last == IF rpc[t] = "unlock" THEN NumCpus ELSE 1 IN
     /\ RWGoto(t, IF cpu[t] = last THEN "idle" ELSE rpc[t])
     /\ cpu' = [cpu EXCEPT ![t] = IF @ = last THEN 1
                                  ELSE IF rpc[t] = "unlock" THEN @ + 1 ELSE @ - 1]
  /\ UNCHANGED <<cur, trying>>

(* Steps inside a call, and the end of a section a thread is in. *)
RWInside(t) ==
  \/ LoadWord(t) \/ AddReader(t) \/ DropReader(t) \/ RaiseFlag(t) \/ TryFails(t)
  \/ ReadersGone(t) \/ StoreZero(t) \/ UnlockShared(t) \/ UnlockExclusive(t)

RWNext == \E t \in RWThreads : LockShared(t) \/ LockExclusive(t) \/ RWInside(t)

(* Threads run on inside the lock's calls, and end their sections. *)
RWFairness == \A t \in RWThreads : WF_rwVars(RWInside(t))

-----------------------------------------------------------------------------
(* The words never lose a reader or a writer: the count of a word is the   *)
(* number of its readers and its flag is up exactly while one writer owns  *)
(* it.  unlock() stores 0 over the word, and DCHECKs only that.            *)
Owns(t, c) ==
  \/ rpc[t] = "writing"
  \/ rpc[t] \in {"wload", "wcas"} /\ c < cpu[t]
  \/ rpc[t] \in {"drain", "undo"} /\ c <= cpu[t]
  \/ rpc[t] = "unlock" /\ c >= cpu[t]
Reads(t, c) == rpc[t] \in {"reading", "ucas"} /\ cpu[t] = c

WordsCount ==
  \A c \in Cpus :
    /\ state_[c].count = Cardinality({t \in RWThreads : Reads(t, c)})
    /\ Cardinality({t \in RWThreads : Owns(t, c)}) = IF state_[c].flag THEN 1 ELSE 0

(* The words implement a reader-writer lock. *)
Abstract == INSTANCE RWLock WITH
  Users <- RWThreads,
  readers <- {t \in RWThreads : rpc[t] \in {"reading", "ucas"}},
  writers <- {t \in RWThreads : rpc[t] = "writing"}

(* A writer that has raised the flag of a word waits only for the readers  *)
(* that are already in: no reader may keep it out by coming back.          *)
WriterDrains == \A t \in RWThreads : rpc[t] = "drain" ~> rpc[t] # "drain"

=============================================================================
