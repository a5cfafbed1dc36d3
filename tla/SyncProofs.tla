----------------------------- MODULE SyncProofs -----------------------------
(***************************************************************************)
(* Proofs about the locks of base/sync for any number of threads and       *)
(* processors: they exclude, every sleeper has somebody bound to wake it,  *)
(* percpu_rwlock implements the abstract reader-writer lock, and the       *)
(* barrier holds.                                                          *)
(***************************************************************************)
EXTENDS MCSync, FiniteSetTheorems, TLAPS

(* A set with no two different members counts at most one. *)
LEMMA AtMostOne ==
  ASSUME NEW S, \A x, y \in S : x = y
  PROVE  Cardinality(S) <= 1 /\ (S # {} => Cardinality(S) = 1)
<1>1. CASE S = {}
  BY <1>1, FS_EmptySet
<1>2. CASE S # {}
  <2>1. PICK x \in S : S = {x}
    BY <1>2
  <2>. QED  BY <2>1, FS_Singleton
<1>. QED  BY <1>1, <1>2

-----------------------------------------------------------------------------
(* SpinLock.  A thread that goes to sleep has seen the word marked.        *)
SeenMarked == \A t \in Spinners : spc[t] = "delay" => seen[t] \in {Sleeper, Waited}

OneHolder ==
  /\ \A t, u \in Spinners : spc[t] = "held" /\ spc[u] = "held" => t = u
  /\ (lockword = Free) <=> \A t \in Spinners : spc[t] # "held"

SpinInv == SpinTypeOK /\ OneHolder /\ SeenMarked /\ NoSleeperForgotten

LEMMA SpinInitial == SpinInit => SpinInv
  BY DEF SpinInit, SpinInv, SpinTypeOK, OneHolder, SeenMarked, NoSleeperForgotten,
         Free, Held, Sleeper, Waited

LEMMA SpinInvariant == SpinInv /\ [SpinNext]_spinVars => SpinInv'
<1>. SUFFICES ASSUME SpinInv, [SpinNext]_spinVars PROVE SpinInv'
  OBVIOUS
<1>. USE DEF SpinInv, SpinTypeOK, OneHolder, SeenMarked, NoSleeperForgotten, SpinGoto,
             Free, Held, Sleeper, Waited
<1>1. ASSUME NEW t \in Spinners, SpinAcquire(t) PROVE SpinInv'
  BY <1>1 DEF SpinAcquire, TakeWord
<1>2. ASSUME NEW t \in Spinners, SpinLoop(t) PROVE SpinInv'
  <2>1. CASE \E w \in WaitCycles : TakeWord(t, w)
    BY <1>2, <2>1 DEF SpinLoop, TakeWord, WaitCycles
  <2>2. CASE SpinRetry(t)
    BY <1>2, <2>2 DEF SpinLoop, SpinRetry
  <2>. QED  BY <1>2, <2>1, <2>2 DEF SpinLoop
<1>3. ASSUME NEW t \in Spinners, MarkSleeper(t) PROVE SpinInv'
  BY <1>3 DEF MarkSleeper
<1>4. ASSUME NEW t \in Spinners, SpinDelay(t) PROVE SpinInv'
  BY <1>4 DEF SpinDelay
<1>5. ASSUME NEW t \in Spinners, SpinDelayEnds(t) PROVE SpinInv'
  BY <1>5 DEF SpinDelayEnds
<1>6. ASSUME NEW t \in Spinners, SpinUnlock(t) PROVE SpinInv'
  BY <1>6 DEF SpinUnlock
<1>7. ASSUME NEW t \in Spinners, SpinWake(t) PROVE SpinInv'
  BY <1>7 DEF SpinWake
<1>8. CASE UNCHANGED spinVars
  BY <1>8 DEF spinVars
<1>. QED
  BY <1>1, <1>2, <1>3, <1>4, <1>5, <1>6, <1>7, <1>8 DEF SpinNext, SpinStep

LEMMA SpinExcludes == SpinInv => SpinExclusion
<1>. SUFFICES ASSUME SpinInv PROVE SpinExclusion
  OBVIOUS
<1>. DEFINE holders == {t \in Spinners : spc[t] = "held"}
<1>1. Cardinality(holders) <= 1
  <2>1. \A x, y \in holders : x = y
    BY DEF SpinInv, OneHolder
  <2>. QED  BY <2>1, AtMostOne
<1>2. (lockword = Free) <=> (holders = {})
  BY DEF SpinInv, OneHolder
<1>. QED  BY <1>1, <1>2 DEF SpinExclusion

-----------------------------------------------------------------------------
(* GoogleOnce.  From the CAS of Claim() to the store of DONE exactly one   *)
(* caller is at work on the function, and before and after it nobody.      *)
Working(t) == opc[t] \in {"run", "load", "store"}

OneWorker ==
  /\ control \in {"RUNNING", "WAITER"} <=> \E t \in OnceCallers : Working(t)
  /\ \A t, u \in OnceCallers : Working(t) /\ Working(u) => t = u

RunCounted ==
  /\ runs = IF control = "INIT" \/ \E t \in OnceCallers : opc[t] = "run" THEN 0 ELSE 1
  /\ initted => runs = 1
  /\ \A t \in OnceCallers : opc[t] \in {"wake", "returned"} => control = "DONE"

OnceInv == OnceTypeOK /\ OneWorker /\ RunCounted

LEMMA OnceInitial == OnceInit => OnceInv
<1>. SUFFICES ASSUME OnceInit PROVE OnceInv
  OBVIOUS
<1>1. OnceTypeOK
  BY DEF OnceInit, OnceTypeOK
<1>2. OneWorker
  BY DEF OnceInit, OneWorker, Working
<1>3. RunCounted
  BY DEF OnceInit, RunCounted
<1>. QED  BY <1>1, <1>2, <1>3 DEF OnceInv

LEMMA OnceInvariant == OnceInv /\ [OnceNext]_onceVars => OnceInv'
<1>. SUFFICES ASSUME OnceInv, [OnceNext]_onceVars PROVE OnceInv'
  OBVIOUS
<1>. USE DEF OnceInv, OnceTypeOK, OneWorker, RunCounted, Working, OnceGoto
<1>1. ASSUME NEW t \in OnceCallers, OnceCall(t) PROVE OnceInv'
  BY <1>1 DEF OnceCall
<1>2. ASSUME NEW t \in OnceCallers, Claim(t) PROVE OnceInv'
  BY <1>2 DEF Claim
<1>3. ASSUME NEW t \in OnceCallers, WaitTransition(t) PROVE OnceInv'
  BY <1>3 DEF WaitTransition
<1>4. ASSUME NEW t \in OnceCallers, OnceDelayEnds(t) PROVE OnceInv'
  BY <1>4 DEF OnceDelayEnds
<1>5. ASSUME NEW t \in OnceCallers, RunFunction(t) PROVE OnceInv'
  BY <1>5 DEF RunFunction
<1>6. ASSUME NEW t \in OnceCallers, LoadControl(t) PROVE OnceInv'
  BY <1>6 DEF LoadControl
<1>7. ASSUME NEW t \in OnceCallers, StoreDone(t) PROVE OnceInv'
  BY <1>7 DEF StoreDone
<1>8. ASSUME NEW t \in OnceCallers, WakeAll(t) PROVE OnceInv'
  BY <1>8 DEF WakeAll
<1>9. CASE UNCHANGED onceVars
  BY <1>9 DEF onceVars
<1>. QED
  BY <1>1, <1>2, <1>3, <1>4, <1>5, <1>6, <1>7, <1>8, <1>9 DEF OnceNext, OnceStep

LEMMA OnceRuns == OnceInv => OnceRunsOnce
  BY DEF OnceInv, OnceTypeOK, OneWorker, RunCounted, Working, OnceRunsOnce

-----------------------------------------------------------------------------
(* Barrier.  Cycles before the current one are full, it is as full as      *)
(* count_ says, and whoever sleeps belongs to it.                          *)
CyclesFull ==
  /\ \A c \in 0 .. MaxCycles : c < cycle_count_ => arrived[c] = InitialCount
  /\ arrived[cycle_count_] = InitialCount - count_
  /\ \A c \in 0 .. MaxCycles : c > cycle_count_ => arrived[c] = 0
SleepersCurrent ==
  \A t \in Parties : /\ bpc[t] = "waiting" => initial[t] = cycle_count_
                     /\ initial[t] <= cycle_count_

BarrierInv == BarrierTypeOK /\ CyclesFull /\ SleepersCurrent

LEMMA BarrierInitial == BarrierInit => BarrierInv
  BY BarrierAssumption
  DEF BarrierInit, BarrierInv, BarrierTypeOK, CyclesFull, SleepersCurrent

LEMMA BarrierInvariant == BarrierInv /\ [BarrierNext]_barrierVars => BarrierInv'
<1>. SUFFICES ASSUME BarrierInv, [BarrierNext]_barrierVars PROVE BarrierInv'
  OBVIOUS
<1>. USE BarrierAssumption DEF BarrierInv, BarrierTypeOK, CyclesFull, SleepersCurrent
<1>1. ASSUME NEW t \in Parties, Arrive(t), count_ = 1 PROVE BarrierInv'
  BY SMTT(30), <1>1 DEF Arrive
<1>2. ASSUME NEW t \in Parties, Arrive(t), count_ # 1 PROVE BarrierInv'
  <2>1. /\ count_' = count_ - 1 /\ cycle_count_' = cycle_count_
        /\ arrived' = [arrived EXCEPT ![cycle_count_] = @ + 1]
        /\ bpc' = [bpc EXCEPT ![t] = "waiting"]
        /\ initial' = [initial EXCEPT ![t] = cycle_count_]
    BY <1>2 DEF Arrive
  <2>2. arrived[cycle_count_] + 1 = InitialCount - count_' /\ count_' \in 1 .. InitialCount
    BY <1>2, <2>1
  <2>3. BarrierTypeOK' /\ CyclesFull'
    BY <2>1, <2>2
  <2>4. SleepersCurrent'
    BY <2>1
  <2>. QED  BY <2>3, <2>4
<1>3. ASSUME NEW t \in Parties, Recheck(t) PROVE BarrierInv'
  BY <1>3 DEF Recheck, SameCycle
<1>4. ASSUME NEW t \in Parties, BarrierSpurious(t) PROVE BarrierInv'
  BY <1>4 DEF BarrierSpurious
<1>5. CASE UNCHANGED barrierVars
  BY <1>5 DEF barrierVars
<1>. QED  BY <1>1, <1>2, <1>3, <1>4, <1>5 DEF BarrierNext

(* Who waits has something to wait for, and who leaves does so late enough. *)
LEMMA BarrierWaits == BarrierInv => NobodyMissesTheCycle
  BY BarrierAssumption
  DEF BarrierInv, BarrierTypeOK, CyclesFull, SleepersCurrent, NobodyMissesTheCycle

LEMMA BarrierStepHolds ==
  BarrierInv /\ [BarrierNext]_barrierVars =>
    [\A t \in Parties : bpc[t] = "awake" /\ bpc'[t] = "idle" =>
       arrived[initial[t]] = InitialCount]_barrierVars
<1>. SUFFICES ASSUME BarrierInv, BarrierNext, NEW u \in Parties,
                     bpc[u] = "awake", bpc'[u] = "idle"
              PROVE  arrived[initial[u]] = InitialCount
  OBVIOUS
<1>. USE BarrierAssumption DEF BarrierInv, BarrierTypeOK, CyclesFull, SleepersCurrent
<1>1. ASSUME NEW t \in Parties, Arrive(t) PROVE FALSE
  BY <1>1 DEF Arrive
<1>2. ASSUME NEW t \in Parties, Recheck(t) PROVE arrived[initial[u]] = InitialCount
  BY <1>2 DEF Recheck, SameCycle
<1>3. ASSUME NEW t \in Parties, BarrierSpurious(t) PROVE FALSE
  BY <1>3 DEF BarrierSpurious
<1>. QED  BY <1>1, <1>2, <1>3 DEF BarrierNext

-----------------------------------------------------------------------------
(* RWCLock.  The mutators are those between WriteLock() and the unlock.    *)
Mutator(t) == wpc[t] \in {"mutating", "upgrade", "no_readers_", "committing"}

OneMutator ==
  /\ \A t, u \in RWCThreads : Mutator(t) /\ Mutator(u) => t = u
  /\ write_locked_ <=> \E t \in RWCThreads : Mutator(t)

CommitAlone ==
  /\ committer = InState("committing")
  /\ committer # {} => InState("reading") = {}

ReadersCounted == reader_count_ = Cardinality(InState("reading"))

RWCInv == RWCTypeOK /\ OneMutator /\ CommitAlone /\ ReadersCounted /\ NobodyWaitsForNothing

LEMMA RWCReaders ==
  /\ IsFiniteSet(InState("reading")) /\ Cardinality(InState("reading")) \in Nat
  /\ Cardinality(InState("reading")) = 0 <=> InState("reading") = {}
<1>1. InState("reading") \subseteq RWCThreads
  BY DEF InState
<1>. QED  BY <1>1, RWCAssumption, FS_Subset, FS_CardinalityType, FS_EmptySet

LEMMA RWCInitial == RWCInit => RWCInv
<1>. SUFFICES ASSUME RWCInit PROVE RWCInv
  OBVIOUS
<1>1. \A pc_ : pc_ # "idle" => InState(pc_) = {}
  BY DEF RWCInit, InState
<1>2. ReadersCounted
  BY <1>1, FS_EmptySet DEF RWCInit, ReadersCounted
<1>3. RWCTypeOK /\ OneMutator
  BY DEF RWCInit, RWCTypeOK, OneMutator, Mutator
<1>. QED
  BY <1>1, <1>2, <1>3 DEF RWCInit, RWCInv, CommitAlone, NobodyWaitsForNothing

(* Steps that move no reader leave the count right. *)
LEMMA ReadersKept ==
  ASSUME RWCInv, UNCHANGED reader_count_, InState("reading")' = InState("reading")
  PROVE  ReadersCounted'
  BY DEF RWCInv, ReadersCounted

LEMMA RWCInvariant == RWCInv /\ [RWCNext]_rwcVars => RWCInv'
<1>. SUFFICES ASSUME RWCInv, [RWCNext]_rwcVars PROVE RWCInv'
  OBVIOUS
<1>. USE DEF RWCInv
<1>1. ASSUME NEW t \in RWCThreads, ReadLock(t) PROVE RWCInv'
  <2>. USE <1>1 DEF ReadLock, Section, RWCTypeOK
  <2>1. InState("reading")' = InState("reading") \cup {t} /\ t \notin InState("reading")
    BY DEF InState
  <2>2. ReadersCounted'
    BY <2>1, RWCReaders, FS_AddElement DEF ReadersCounted
  <2>3. RWCTypeOK'
    OBVIOUS
  <2>4. OneMutator' /\ CommitAlone'
    BY DEF OneMutator, Mutator, CommitAlone, InState
  <2>5. NobodyWaitsForNothing'
    BY DEF NobodyWaitsForNothing, InState
  <2>. QED  BY <2>2, <2>3, <2>4, <2>5
<1>2. ASSUME NEW t \in RWCThreads, ReadUnlock(t) PROVE RWCInv'
  <2>. USE DEF RWCTypeOK
  <2>1. /\ wpc[t] = "reading" /\ committer = {} /\ UNCHANGED <<committer, write_locked_>>
        /\ reader_count_' = reader_count_ - 1
    BY <1>2 DEF ReadUnlock, Section, SectionSignal
  <2>2. t \in InState("reading") /\ reader_count_ \in Nat \ {0}
    BY <2>1, RWCReaders DEF InState, ReadersCounted
  <2>3. \/ /\ wpc' = [wpc EXCEPT ![t] = "idle"]
           /\ reader_count_ = 1 => InState("no_readers_") = {}
        \/ \E u \in InState("no_readers_") :
             wpc' = [wpc EXCEPT ![t] = "idle", ![u] = "upgrade"] /\ reader_count_ = 1
    BY <1>2 DEF ReadUnlock, Section, SectionSignal, LastReader
  <2>4. InState("reading")' = InState("reading") \ {t}
    BY <2>1, <2>3 DEF InState
  <2>5. ReadersCounted'
    BY <2>1, <2>2, <2>4, RWCReaders, FS_RemoveElement DEF ReadersCounted
  <2>6. RWCTypeOK'
    BY <2>1, <2>2, <2>3 DEF InState
  <2>7. OneMutator' /\ CommitAlone'
    BY <2>1, <2>3 DEF OneMutator, Mutator, CommitAlone, InState
  <2>8. NobodyWaitsForNothing'
    BY <2>1, <2>2, <2>3 DEF NobodyWaitsForNothing, InState, OneMutator, Mutator
  <2>. QED  BY <2>5, <2>6, <2>7, <2>8
<1>3. ASSUME NEW t \in RWCThreads, WriteLock(t) PROVE RWCInv'
  <2>. USE <1>3 DEF WriteLock, Section, RWCTypeOK
  <2>1. ReadersCounted'
    <3>1. InState("reading")' = InState("reading")
      BY DEF InState
    <3>. QED  BY <3>1, ReadersKept
  <2>2. RWCTypeOK'
    OBVIOUS
  <2>3. OneMutator' /\ CommitAlone'
    BY DEF OneMutator, Mutator, CommitAlone, InState
  <2>4. NobodyWaitsForNothing'
    BY DEF NobodyWaitsForNothing, InState
  <2>. QED  BY <2>1, <2>2, <2>3, <2>4
<1>4. ASSUME NEW t \in RWCThreads, WriteUnlock(t) PROVE RWCInv'
  <2>. USE DEF RWCTypeOK
  <2>1. /\ wpc[t] = "mutating" /\ committer = {} /\ UNCHANGED <<committer, reader_count_>>
        /\ write_locked_' = FALSE
    BY <1>4 DEF WriteUnlock, SectionSignal
  <2>2. \/ wpc' = [wpc EXCEPT ![t] = "idle"] /\ InState("no_mutators_") = {}
        \/ \E u \in InState("no_mutators_") :
             wpc' = [wpc EXCEPT ![t] = "idle", ![u] = "write_lock"]
    BY <1>4 DEF WriteUnlock, SectionSignal
  <2>3. ReadersCounted'
    <3>1. InState("reading")' = InState("reading")
      BY <2>1, <2>2 DEF InState
    <3>. QED  BY <2>1, <3>1, ReadersKept
  <2>4. RWCTypeOK'
    BY <2>1, <2>2 DEF InState
  <2>5. OneMutator' /\ CommitAlone'
    BY <2>1, <2>2 DEF OneMutator, Mutator, CommitAlone, InState
  <2>6. NobodyWaitsForNothing'
    BY <2>1, <2>2 DEF NobodyWaitsForNothing, InState
  <2>. QED  BY <2>3, <2>4, <2>5, <2>6
<1>5. ASSUME NEW t \in RWCThreads, UpgradeToCommitLock(t) PROVE RWCInv'
  <2>. USE <1>5 DEF UpgradeToCommitLock, Section, RWCTypeOK
  <2>1. InState("reading")' = InState("reading")
    BY DEF InState
  <2>2. ReadersCounted'
    BY <2>1, ReadersKept
  <2>3. RWCTypeOK'
    OBVIOUS
  <2>4. OneMutator'
    BY DEF OneMutator, Mutator
  <2>5. CommitAlone'
    <3>1. reader_count_ = 0 => InState("reading") = {}
      BY RWCReaders DEF ReadersCounted
    <3>. QED  BY <2>1, <3>1 DEF CommitAlone, InState
  <2>6. NobodyWaitsForNothing'
    BY DEF NobodyWaitsForNothing, InState
  <2>. QED  BY <2>2, <2>3, <2>4, <2>5, <2>6
<1>6. ASSUME NEW t \in RWCThreads, CommitUnlock(t) PROVE RWCInv'
  <2>. USE <1>6 DEF CommitUnlock, RWCTypeOK
  <2>1. wpc[t] = "committing"
    BY DEF CommitAlone, InState
  <2>2. ReadersCounted'
    <3>1. InState("reading")' = InState("reading")
      BY <2>1 DEF InState
    <3>. QED  BY <3>1, ReadersKept
  <2>3. RWCTypeOK'
    OBVIOUS
  <2>4. OneMutator' /\ CommitAlone'
    BY <2>1 DEF OneMutator, Mutator, CommitAlone, InState
  <2>5. NobodyWaitsForNothing'
    BY <2>1 DEF NobodyWaitsForNothing, InState
  <2>. QED  BY <2>2, <2>3, <2>4, <2>5
<1>7. ASSUME NEW t \in RWCThreads, RWCSpurious(t) PROVE RWCInv'
  <2>. USE <1>7 DEF RWCSpurious, RWCTypeOK
  <2>1. ReadersCounted'
    <3>1. InState("reading")' = InState("reading")
      BY DEF InState
    <3>. QED  BY <3>1, ReadersKept
  <2>2. RWCTypeOK'
    OBVIOUS
  <2>3. OneMutator' /\ CommitAlone'
    BY DEF OneMutator, Mutator, CommitAlone, InState
  <2>4. NobodyWaitsForNothing'
    BY DEF NobodyWaitsForNothing, InState
  <2>. QED  BY <2>1, <2>2, <2>3, <2>4
<1>8. CASE UNCHANGED rwcVars
  BY <1>8 DEF rwcVars, RWCTypeOK, OneMutator, Mutator, CommitAlone, ReadersCounted,
              NobodyWaitsForNothing, InState
<1>. QED
  BY <1>1, <1>2, <1>3, <1>4, <1>5, <1>6, <1>7, <1>8 DEF RWCNext, RWCEnds

LEMMA RWCExcludes == RWCInv => RWCExclusion
<1>. SUFFICES ASSUME RWCInv PROVE RWCExclusion
  OBVIOUS
<1>. DEFINE mutators == InState("mutating") \cup InState("upgrade")
                        \cup InState("no_readers_") \cup InState("committing")
<1>1. mutators = {t \in RWCThreads : Mutator(t)}
  BY DEF InState, Mutator
<1>2. \A x, y \in mutators : x = y
  BY <1>1 DEF RWCInv, OneMutator
<1>3. Cardinality(mutators) = IF write_locked_ THEN 1 ELSE 0
  BY <1>1, <1>2, AtMostOne, FS_EmptySet DEF RWCInv, OneMutator
<1>. QED
  BY <1>3 DEF RWCExclusion, RWCInv, CommitAlone, ReadersCounted

-----------------------------------------------------------------------------
(* percpu_rwlock.  A word has one owner exactly while its flag is up; its  *)
(* count is that of its readers, and is 0 once the owner has drained it.   *)
AtHome == \A t \in RWThreads : rpc[t] \in {"idle", "writing"} => cpu[t] = 1

OneOwner ==
  \A c \in Cpus :
    /\ \A t, u \in RWThreads : Owns(t, c) /\ Owns(u, c) => t = u
    /\ state_[c].flag <=> \E t \in RWThreads : Owns(t, c)

Draining(t, c) == rpc[t] = "drain" /\ cpu[t] = c

WordsDrained ==
  \A c \in Cpus : \A t \in RWThreads : Owns(t, c) /\ ~Draining(t, c) => state_[c].count = 0

ReadersOf(c) == {t \in RWThreads : Reads(t, c)}

CountsReaders == \A c \in Cpus : state_[c].count = Cardinality(ReadersOf(c))

RWInv == RWTypeOK /\ AtHome /\ OneOwner /\ WordsDrained /\ CountsReaders

(* The readers of a word are a set of threads. *)
LEMMA ReadersFinite ==
  ASSUME NEW c
  PROVE  /\ IsFiniteSet(ReadersOf(c))
         /\ Cardinality(ReadersOf(c)) \in 0 .. Cardinality(RWThreads)
         /\ Cardinality(ReadersOf(c)) = 0 <=> ReadersOf(c) = {}
<1>1. ReadersOf(c) \in SUBSET RWThreads
  BY DEF ReadersOf
<1>. QED  BY <1>1, RWAssumption, FS_Subset, FS_CardinalityType, FS_EmptySet

LEMMA RWInitial == RWInit => RWInv
<1>. SUFFICES ASSUME RWInit PROVE RWInv
  OBVIOUS
<1>1. 1 \in Cpus
  BY RWAssumption DEF Cpus
<1>2. Zero \in Word
  BY RWAssumption, FS_CardinalityType DEF Zero, Word
<1>3. RWTypeOK
  BY <1>1, <1>2 DEF RWInit, RWTypeOK
<1>4. \A c : ReadersOf(c) = {} /\ \A t \in RWThreads : ~Owns(t, c)
  BY DEF RWInit, ReadersOf, Reads, Owns
<1>5. \A c \in Cpus : state_[c].count = 0 /\ ~state_[c].flag
  BY DEF RWInit, Zero
<1>6. AtHome
  BY DEF RWInit, AtHome
<1>7. OneOwner /\ WordsDrained /\ CountsReaders
  BY <1>4, <1>5, FS_EmptySet DEF OneOwner, WordsDrained, CountsReaders
<1>. QED  BY <1>3, <1>6, <1>7 DEF RWInv

(* A step that moves no thread in or out of a word, nor its words. *)
LEMMA NobodyMoves ==
  ASSUME RWInv, RWTypeOK', AtHome', UNCHANGED state_,
         \A t \in RWThreads : \A c \in Cpus :
           /\ Owns(t, c)' <=> Owns(t, c)
           /\ Reads(t, c)' <=> Reads(t, c)
           /\ Draining(t, c) => Draining(t, c)' \/ state_[c].count = 0
  PROVE  RWInv'
<1>1. \A c \in Cpus : ReadersOf(c)' = ReadersOf(c)
  BY DEF ReadersOf
<1>2. OneOwner'
  BY DEF RWInv, OneOwner
<1>3. WordsDrained'
  BY DEF RWInv, WordsDrained
<1>4. CountsReaders'
  BY <1>1 DEF RWInv, CountsReaders
<1>. QED  BY <1>2, <1>3, <1>4 DEF RWInv

(* A compare-and-swap fails, or the word was what it expected. *)
LEMMA CasOutcome ==
  ASSUME RWInv, NEW t \in RWThreads, NEW expected, NEW new, NEW next,
         Cas(t, expected, new, next)
  PROVE  \/ /\ MyWord(t) = expected /\ cur' = [cur EXCEPT ![t] = Zero]
            /\ state_' = [state_ EXCEPT ![cpu[t]] = new]
            /\ rpc' = [rpc EXCEPT ![t] = next]
         \/ cur' = [cur EXCEPT ![t] = MyWord(t)] /\ UNCHANGED <<state_, rpc>>
  BY DEF Cas, RWGoto

LEMMA CasFails ==
  ASSUME RWInv, NEW t \in RWThreads, UNCHANGED <<state_, rpc, trying>>,
         cur' = [cur EXCEPT ![t] = MyWord(t)], UNCHANGED cpu
  PROVE  RWInv'
<1>1. RWTypeOK' /\ AtHome'
  BY DEF RWInv, RWTypeOK, AtHome, MyWord
<1>. QED  BY <1>1, NobodyMoves DEF Owns, Reads, Draining

LEMMA ZeroWord == Zero \in Word /\ Zero.count = 0 /\ Zero.flag = FALSE
  BY RWAssumption, FS_CardinalityType DEF Zero, Word

(* lock_shared() and unlock_shared() swap the count of one word. *)
LEMMA ReaderSteps ==
  ASSUME RWInv, NEW t \in RWThreads, AddReader(t) \/ DropReader(t)
  PROVE  RWInv'
<1>. USE DEF RWInv
<1>0. cpu[t] \in Cpus /\ MyWord(t) \in Word /\ cur[t] \in Word
  BY DEF RWTypeOK, MyWord
<1>. PICK k \in Cpus : k = cpu[t]
  BY <1>0
<1>1. CASE AddReader(t)
  <2>1. CASE UNCHANGED <<state_, rpc>> /\ cur' = [cur EXCEPT ![t] = MyWord(t)]
    BY <1>1, <2>1, CasFails DEF AddReader
  <2>2. CASE /\ MyWord(t) = NoWriter(t) /\ cur' = [cur EXCEPT ![t] = Zero]
             /\ state_' = [state_ EXCEPT ![cpu[t]] = [NoWriter(t) EXCEPT !.count = @ + 1]]
             /\ rpc' = [rpc EXCEPT ![t] = "reading"]
    <3>1. rpc[t] = "rcas" /\ UNCHANGED <<cpu, trying>>
      BY <1>1 DEF AddReader
    <3>2. ~MyWord(t).flag
      BY <2>2, <1>0 DEF NoWriter, Word
    <3>3. /\ state_'[k].count = state_[k].count + 1
          /\ state_'[k].flag = state_[k].flag
          /\ \A c \in Cpus : c # k => state_'[c] = state_[c]
      BY <2>2, <1>0 DEF NoWriter, Word, MyWord, RWTypeOK
    <3>4. /\ ReadersOf(k)' = ReadersOf(k) \cup {t} /\ t \notin ReadersOf(k)
          /\ \A c \in Cpus : c # k => ReadersOf(c)' = ReadersOf(c)
      BY <2>2, <3>1 DEF ReadersOf, Reads, RWTypeOK
    <3>5. \A u \in RWThreads : \A c \in Cpus :
            (Owns(u, c)' <=> Owns(u, c)) /\ (Draining(u, c)' <=> Draining(u, c))
      BY <2>2, <3>1 DEF Owns, Draining, RWTypeOK
    <3>6. CountsReaders'
      <4>1. Cardinality(ReadersOf(k)') = Cardinality(ReadersOf(k)) + 1
        <5>1. IsFiniteSet(ReadersOf(k))
          BY ReadersFinite
        <5>2. PICK A : A = ReadersOf(k)
          OBVIOUS
        <5>3. Cardinality(A \cup {t}) = Cardinality(A) + 1
          BY <3>4, <5>1, <5>2, FS_AddElement
        <5>. QED  BY <3>4, <5>2, <5>3
      <4>. QED  BY <3>3, <3>4, <4>1 DEF CountsReaders
    <3>7. RWTypeOK'
      <4>1. state_'[k] = [count |-> state_[k].count + 1, flag |-> FALSE]
        BY <2>2, <1>0 DEF NoWriter, Word, MyWord, RWTypeOK
      <4>2. state_[k].count + 1 \in 0 .. Cardinality(RWThreads)
        <5>1. ReadersOf(k)' \in SUBSET RWThreads
          BY DEF ReadersOf
        <5>2. Cardinality(ReadersOf(k)') <= Cardinality(RWThreads)
          BY <5>1, RWAssumption, FS_Subset
        <5>. QED  BY <3>3, <3>6, <5>2, RWAssumption, FS_CardinalityType, ReadersFinite
                  DEF CountsReaders
      <4>3. state_'[k] \in Word
        BY <4>1, <4>2 DEF Word
      <4>. QED  BY <2>2, <3>1, <4>3, ZeroWord DEF RWTypeOK
    <3>8. OneOwner'
      BY <3>3, <3>5 DEF OneOwner
    <3>9. WordsDrained'
      BY <1>0, <3>2, <3>3, <3>5 DEF WordsDrained, OneOwner, MyWord
    <3>10. AtHome'
      BY <2>2, <3>1 DEF AtHome, RWTypeOK
    <3>. QED  BY <3>6, <3>7, <3>8, <3>9, <3>10
  <2>. QED  BY <1>1, <2>1, <2>2, CasOutcome DEF AddReader
<1>2. CASE DropReader(t)
  <2>1. CASE UNCHANGED <<state_, rpc>> /\ cur' = [cur EXCEPT ![t] = MyWord(t)]
    <3>1. UNCHANGED <<cpu, trying>>
      BY <1>2, <2>1 DEF DropReader, RWTypeOK
    <3>. QED  BY <2>1, <3>1, CasFails
  <2>2. CASE /\ MyWord(t) = cur[t] /\ cur' = [cur EXCEPT ![t] = Zero]
             /\ state_' = [state_ EXCEPT ![cpu[t]] = [cur[t] EXCEPT !.count = @ - 1]]
             /\ rpc' = [rpc EXCEPT ![t] = "idle"]
    <3>1. /\ rpc[t] = "ucas" /\ UNCHANGED trying
          /\ cpu' = [cpu EXCEPT ![t] = 1] /\ rpc'[t] = "idle"
      BY <1>2, <2>2 DEF DropReader, RWTypeOK
    <3>3. /\ state_'[k] = [count |-> state_[k].count - 1, flag |-> state_[k].flag]
          /\ \A c \in Cpus : c # k => state_'[c] = state_[c]
      BY <2>2, <1>0 DEF Word, MyWord, RWTypeOK
    <3>4. /\ ReadersOf(k)' = ReadersOf(k) \ {t} /\ t \in ReadersOf(k)
          /\ \A c \in Cpus : c # k => ReadersOf(c)' = ReadersOf(c)
      BY <2>2, <3>1 DEF ReadersOf, Reads, RWTypeOK
    <3>5. \A u \in RWThreads : \A c \in Cpus :
            (Owns(u, c)' <=> Owns(u, c)) /\ (Draining(u, c)' <=> Draining(u, c))
      BY <2>2, <3>1 DEF Owns, Draining, RWTypeOK
    <3>6. CountsReaders'
      <4>1. Cardinality(ReadersOf(k)') = Cardinality(ReadersOf(k)) - 1
        BY <3>4, ReadersFinite, FS_RemoveElement
      <4>2. state_'[k].count = state_[k].count - 1
        BY <3>3
      <4>. QED  BY <3>3, <3>4, <4>1, <4>2 DEF CountsReaders
    <3>7. RWTypeOK'
      <4>1. state_[k].count - 1 \in 0 .. Cardinality(RWThreads)
        BY <3>4, RWAssumption, FS_CardinalityType, ReadersFinite DEF CountsReaders
      <4>2. state_'[k] \in Word
        BY <1>0, <3>3, <4>1 DEF Word, MyWord
      <4>3. 1 \in Cpus
        BY RWAssumption DEF Cpus
      <4>. QED  BY <2>2, <3>1, <4>2, <4>3, ZeroWord DEF RWTypeOK
    <3>8. OneOwner'
      BY <3>3, <3>5 DEF OneOwner
    <3>9. WordsDrained'
      <4>1. state_[k].count # 0
        BY <3>4, ReadersFinite DEF CountsReaders
      <4>. QED  BY <1>0, <3>3, <3>5, <4>1 DEF WordsDrained
    <3>10. AtHome'
      BY <2>2, <3>1 DEF AtHome, RWTypeOK
    <3>. QED  BY <3>6, <3>7, <3>8, <3>9, <3>10
  <2>. QED  BY <1>2, <2>1, <2>2, CasOutcome DEF DropReader
<1>. QED  BY <1>1, <1>2

(* The write flag goes up in RaiseFlag() and down in StoreZero(). *)
LEMMA WriterSteps ==
  ASSUME RWInv, NEW t \in RWThreads, RaiseFlag(t) \/ StoreZero(t)
  PROVE  RWInv'
<1>. USE DEF RWInv
<1>0. cpu[t] \in Cpus /\ MyWord(t) \in Word /\ cur[t] \in Word /\ 1 \in Cpus
  BY RWAssumption DEF RWTypeOK, MyWord, Cpus
<1>1. CASE RaiseFlag(t)
  <2>1. CASE UNCHANGED <<state_, rpc>> /\ cur' = [cur EXCEPT ![t] = MyWord(t)]
    BY <1>1, <2>1, CasFails DEF RaiseFlag
  <2>2. CASE /\ MyWord(t) = NoWriter(t) /\ cur' = [cur EXCEPT ![t] = Zero]
             /\ state_' = [state_ EXCEPT ![cpu[t]] = [cur[t] EXCEPT !.flag = TRUE]]
             /\ rpc' = [rpc EXCEPT ![t] = "drain"]
    <3>1. rpc[t] = "wcas" /\ UNCHANGED <<cpu, trying>>
      BY <1>1 DEF RaiseFlag
    <3>2. ~MyWord(t).flag
      BY <2>2, <1>0 DEF NoWriter, Word
    <3>3. /\ state_'[cpu[t]] = [count |-> state_[cpu[t]].count, flag |-> TRUE]
          /\ \A c \in Cpus : c # cpu[t] => state_'[c] = state_[c]
      BY <2>2, <1>0 DEF NoWriter, Word, MyWord, RWTypeOK
    <3>4. \A c \in Cpus : ReadersOf(c)' = ReadersOf(c)
      BY <2>2, <3>1 DEF ReadersOf, Reads, RWTypeOK
    <3>5. \A u \in RWThreads : \A c \in Cpus :
            Owns(u, c)' <=> Owns(u, c) \/ (u = t /\ c = cpu[t])
      BY <1>0, <2>2, <3>1 DEF Owns, RWTypeOK, Cpus
    <3>6. \A u \in RWThreads : \A c \in Cpus :
            Draining(u, c)' <=> Draining(u, c) \/ (u = t /\ c = cpu[t])
      BY <2>2, <3>1 DEF Draining, RWTypeOK
    <3>7. RWTypeOK'
      <4>1. state_'[cpu[t]] \in Word
        BY <1>0, <3>3 DEF Word, MyWord
      <4>. QED  BY <2>2, <3>1, <4>1, ZeroWord DEF RWTypeOK
    <3>8. OneOwner'
      BY <1>0, <3>2, <3>3, <3>5 DEF OneOwner, MyWord
    <3>9. WordsDrained'
      BY <1>0, <3>3, <3>5, <3>6 DEF WordsDrained
    <3>10. CountsReaders'
      BY <3>3, <3>4 DEF CountsReaders
    <3>11. AtHome'
      BY <2>2, <3>1 DEF AtHome, RWTypeOK
    <3>. QED  BY <3>7, <3>8, <3>9, <3>10, <3>11
  <2>. QED  BY <1>1, <2>1, <2>2, CasOutcome DEF RaiseFlag
<1>2. CASE StoreZero(t)
  <2>1. /\ rpc[t] \in {"unlock", "undo"} /\ UNCHANGED <<cur, trying>>
        /\ state_' = [state_ EXCEPT ![cpu[t]] = Zero]
    BY <1>2 DEF StoreZero
  <2>2. \/ rpc' = [rpc EXCEPT ![t] = "idle"] /\ cpu' = [cpu EXCEPT ![t] = 1]
           /\ cpu[t] = (IF rpc[t] = "unlock" THEN NumCpus ELSE 1)
        \/ /\ rpc[t] = "unlock" /\ cpu[t] # NumCpus /\ UNCHANGED rpc
           /\ cpu' = [cpu EXCEPT ![t] = @ + 1]
        \/ /\ rpc[t] = "undo" /\ cpu[t] # 1 /\ UNCHANGED rpc
           /\ cpu' = [cpu EXCEPT ![t] = @ - 1]
    BY <1>2, <2>1 DEF StoreZero, RWGoto, RWTypeOK
  <2>3. Owns(t, cpu[t]) /\ ~Draining(t, cpu[t])
    BY <1>0, <2>1 DEF Owns, Draining, Cpus
  <2>4. state_[cpu[t]].count = 0
    BY <1>0, <2>3 DEF WordsDrained
  <2>5. /\ state_'[cpu[t]].count = 0 /\ ~state_'[cpu[t]].flag
        /\ \A c \in Cpus : c # cpu[t] => state_'[c] = state_[c]
    BY <1>0, <2>1, ZeroWord DEF RWTypeOK
  <2>6. \A u \in RWThreads : \A c \in Cpus :
          Owns(u, c)' <=> Owns(u, c) /\ ~(u = t /\ c = cpu[t])
    BY <1>0, <2>1, <2>2, RWAssumption DEF Owns, RWTypeOK, Cpus
  <2>7. \A u \in RWThreads : \A c \in Cpus : Draining(u, c)' <=> Draining(u, c)
    BY <2>1, <2>2 DEF Draining, RWTypeOK
  <2>8. \A c \in Cpus : ReadersOf(c)' = ReadersOf(c)
    BY <2>1, <2>2 DEF ReadersOf, Reads, RWTypeOK
  <2>9. RWTypeOK'
    <3>1. cpu[t] # NumCpus => cpu[t] + 1 \in Cpus
      BY <1>0, RWAssumption DEF Cpus
    <3>2. cpu[t] # 1 => cpu[t] - 1 \in Cpus
      BY <1>0, RWAssumption DEF Cpus
    <3>3. cpu' \in [RWThreads -> Cpus]
      BY <1>0, <2>2, <3>1, <3>2 DEF RWTypeOK
    <3>. QED  BY <2>1, <2>2, <3>3, ZeroWord DEF RWTypeOK
  <2>10. OneOwner'
    BY <1>0, <2>3, <2>5, <2>6 DEF OneOwner
  <2>11. WordsDrained'
    BY <2>5, <2>6, <2>7 DEF WordsDrained
  <2>12. CountsReaders'
    BY <2>4, <2>5, <2>8 DEF CountsReaders
  <2>13. AtHome'
    BY <2>1, <2>2 DEF AtHome, RWTypeOK
  <2>. QED  BY <2>9, <2>10, <2>11, <2>12, <2>13
<1>. QED  BY <1>1, <1>2

LEMMA RWInvariant == RWInv /\ [RWNext]_rwVars => RWInv'
<1>. SUFFICES ASSUME RWInv, [RWNext]_rwVars PROVE RWInv'
  OBVIOUS
<1>0. 1 \in Cpus /\ NumCpus \in Cpus /\ \A c \in Cpus : c \in Nat /\ 1 <= c /\ c <= NumCpus
  BY RWAssumption DEF Cpus
<1>. USE DEF RWInv, RWGoto
<1>1. ASSUME NEW t \in RWThreads, LockShared(t) PROVE RWInv'
  <2>1. RWTypeOK' /\ AtHome'
    BY <1>1 DEF LockShared, RWTypeOK, AtHome
  <2>. QED  BY <1>1, <2>1, NobodyMoves DEF LockShared, Owns, Reads, Draining, RWTypeOK
<1>2. ASSUME NEW t \in RWThreads, UnlockShared(t) PROVE RWInv'
  <2>1. RWTypeOK' /\ AtHome'
    BY <1>2 DEF UnlockShared, RWTypeOK, AtHome, MyWord
  <2>. QED  BY <1>2, <2>1, NobodyMoves DEF UnlockShared, Owns, Reads, Draining, RWTypeOK
<1>3. ASSUME NEW t \in RWThreads, LockExclusive(t) PROVE RWInv'
  <2>1. RWTypeOK' /\ AtHome'
    BY <1>3 DEF LockExclusive, RWTypeOK, AtHome
  <2>2. cpu[t] = 1 /\ UNCHANGED cpu /\ rpc' = [rpc EXCEPT ![t] = "wload"] /\ rpc[t] = "idle"
    BY <1>3 DEF LockExclusive, AtHome
  <2>3. \A u \in RWThreads : \A c \in Cpus : Owns(u, c)' <=> Owns(u, c)
    BY <1>0, <2>2 DEF Owns, RWTypeOK
  <2>. QED
    BY <1>3, <2>1, <2>2, <2>3, NobodyMoves DEF LockExclusive, Reads, Draining, RWTypeOK
<1>4. ASSUME NEW t \in RWThreads, LoadWord(t) PROVE RWInv'
  <2>1. RWTypeOK' /\ AtHome'
    BY <1>4 DEF LoadWord, RWTypeOK, AtHome, MyWord
  <2>. QED  BY <1>4, <2>1, NobodyMoves DEF LoadWord, Owns, Reads, Draining, RWTypeOK
<1>5. ASSUME NEW t \in RWThreads, TryFails(t) PROVE RWInv'
  <2>1. /\ rpc[t] = "wcas" /\ UNCHANGED state_
        /\ \/ /\ cpu[t] = 1 /\ rpc' = [rpc EXCEPT ![t] = "idle"] /\ UNCHANGED cpu
           \/ /\ cpu[t] # 1 /\ rpc' = [rpc EXCEPT ![t] = "undo"]
              /\ cpu' = [cpu EXCEPT ![t] = @ - 1]
    BY <1>5 DEF TryFails, RWTypeOK
  <2>2. cpu[t] # 1 => cpu[t] - 1 \in Cpus
    BY <1>0 DEF Cpus, RWTypeOK
  <2>3. cpu' \in [RWThreads -> Cpus]
    BY <2>1, <2>2 DEF RWTypeOK
  <2>4. RWTypeOK' /\ AtHome'
    BY <1>5, <2>1, <2>3, ZeroWord DEF TryFails, RWTypeOK, AtHome
  <2>5. \A u \in RWThreads : \A c \in Cpus : Owns(u, c)' <=> Owns(u, c)
    BY <1>0, <2>1 DEF Owns, RWTypeOK
  <2>. QED  BY <2>1, <2>4, <2>5, NobodyMoves DEF Reads, Draining, RWTypeOK
<1>6. ASSUME NEW t \in RWThreads, ReadersGone(t) PROVE RWInv'
  <2>1. /\ rpc[t] = "drain" /\ MyWord(t).count = 0 /\ UNCHANGED <<state_, cur>>
        /\ \/ /\ cpu[t] = NumCpus /\ rpc' = [rpc EXCEPT ![t] = "writing"]
              /\ cpu' = [cpu EXCEPT ![t] = 1]
           \/ /\ cpu[t] # NumCpus /\ rpc' = [rpc EXCEPT ![t] = "wload"]
              /\ cpu' = [cpu EXCEPT ![t] = @ + 1]
    BY <1>6 DEF ReadersGone, RWTypeOK
  <2>2. cpu[t] # NumCpus => cpu[t] + 1 \in Cpus
    BY <1>0 DEF Cpus, RWTypeOK
  <2>3. cpu' \in [RWThreads -> Cpus]
    BY <1>0, <2>1, <2>2 DEF RWTypeOK
  <2>4. trying' \in [RWThreads -> BOOLEAN]
    BY <1>6 DEF ReadersGone, RWTypeOK
  <2>5. RWTypeOK' /\ AtHome'
    BY <2>1, <2>3, <2>4 DEF RWTypeOK, AtHome
  <2>6. \A u \in RWThreads : \A c \in Cpus : Owns(u, c)' <=> Owns(u, c)
    BY <1>0, <2>1 DEF Owns, RWTypeOK
  <2>. QED  BY <2>1, <2>5, <2>6, NobodyMoves DEF Reads, Draining, MyWord, RWTypeOK
<1>7. ASSUME NEW t \in RWThreads, UnlockExclusive(t) PROVE RWInv'
  <2>1. RWTypeOK' /\ AtHome'
    BY <1>7 DEF UnlockExclusive, RWTypeOK, AtHome
  <2>2. \A u \in RWThreads : \A c \in Cpus : Owns(u, c)' <=> Owns(u, c)
    BY <1>0, <1>7 DEF UnlockExclusive, Owns, RWTypeOK, AtHome
  <2>. QED  BY <1>7, <2>1, <2>2, NobodyMoves DEF UnlockExclusive, Reads, Draining, RWTypeOK
<1>8. CASE UNCHANGED rwVars
  <2>1. RWTypeOK' /\ AtHome'
    BY <1>8 DEF rwVars, RWTypeOK, AtHome
  <2>. QED  BY <1>8, <2>1, NobodyMoves DEF rwVars, Owns, Reads, Draining
<1>. QED
  BY <1>1, <1>2, <1>3, <1>4, <1>5, <1>6, <1>7, <1>8, ReaderSteps, WriterSteps
  DEF RWNext, RWInside

LEMMA RWCounts == RWInv => WordsCount
<1>. SUFFICES ASSUME RWInv, NEW c \in Cpus
              PROVE  /\ state_[c].count = Cardinality({t \in RWThreads : Reads(t, c)})
                     /\ Cardinality({t \in RWThreads : Owns(t, c)}) =
                          IF state_[c].flag THEN 1 ELSE 0
  BY DEF WordsCount
<1>. DEFINE owners == {t \in RWThreads : Owns(t, c)}
<1>1. \A x, y \in owners : x = y
  BY DEF RWInv, OneOwner
<1>2. state_[c].flag <=> owners # {}
  BY DEF RWInv, OneOwner
<1>3. Cardinality(owners) = IF state_[c].flag THEN 1 ELSE 0
  BY <1>1, <1>2, AtMostOne, FS_EmptySet
<1>4. state_[c].count = Cardinality({t \in RWThreads : Reads(t, c)})
  BY DEF RWInv, CountsReaders, ReadersOf
<1>. QED  BY <1>3, <1>4

(* A writer owns every word, drained. *)
LEMMA WriterAlone ==
  ASSUME RWInv, NEW t \in RWThreads, rpc[t] = "writing", NEW u \in RWThreads
  PROVE  rpc[u] \notin {"reading", "ucas"} /\ (rpc[u] = "writing" => u = t)
<1>. USE DEF RWInv
<1>1. cpu[u] \in Cpus
  BY DEF RWTypeOK
<1>2. Owns(t, cpu[u]) /\ ~Draining(t, cpu[u])
  BY DEF Owns, Draining
<1>3. ReadersOf(cpu[u]) = {}
  BY <1>1, <1>2, ReadersFinite DEF WordsDrained, CountsReaders
<1>4. rpc[u] \notin {"reading", "ucas"}
  BY <1>3 DEF ReadersOf, Reads
<1>5. rpc[u] = "writing" => u = t
  BY <1>1, <1>2 DEF OneOwner, Owns
<1>. QED  BY <1>4, <1>5

-----------------------------------------------------------------------------
(* percpu_rwlock implements the abstract lock: it is taken by the          *)
(* compare-and-swap that counts a reader, and by the load that finds the   *)
(* last word drained.                                                      *)
LockedShared == {t \in RWThreads : rpc[t] \in {"reading", "ucas"}}
LockedExclusive == {t \in RWThreads : rpc[t] = "writing"}

LEMMA RWAbstractInit == RWInit => Abstract!Init
BY DEF RWInit, Abstract!Init

WritersAlone ==
  \A t, u \in RWThreads :
    rpc[t] = "writing" => rpc[u] \notin {"reading", "ucas"} /\ (rpc[u] = "writing" => u = t)

LEMMA WritersStayAlone == RWInv => WritersAlone
BY WriterAlone DEF WritersAlone

(* What a step does to the program counters. *)
LEMMA RWMoves ==
  ASSUME RWInv, NEW t \in RWThreads, LockShared(t) \/ LockExclusive(t) \/ RWInside(t)
  PROVE  \/ UNCHANGED rpc
         \/ \E to \in {"idle", "rcas", "ucas", "wload", "wcas", "drain", "undo",
                       "unlock", "reading", "writing"} :
              /\ rpc' = [rpc EXCEPT ![t] = to]
              /\ to = "reading" => rpc[t] = "rcas"
              /\ to = "ucas" => rpc[t] = "reading"
              /\ to = "writing" => rpc[t] = "drain"
              /\ rpc[t] = "writing" => to = "unlock"
              /\ rpc[t] = "reading" => to = "ucas"
              /\ rpc[t] = "ucas" => to = "idle"
<1>. USE DEF RWInv, RWTypeOK, RWGoto
<1>1. CASE LockShared(t)  BY <1>1 DEF LockShared
<1>2. CASE LockExclusive(t)  BY <1>2 DEF LockExclusive
<1>3. CASE LoadWord(t)  BY <1>3 DEF LoadWord
<1>4. CASE AddReader(t)  BY <1>4 DEF AddReader, Cas
<1>5. CASE DropReader(t)  BY <1>5 DEF DropReader, Cas
<1>6. CASE RaiseFlag(t)  BY <1>6 DEF RaiseFlag, Cas
<1>7. CASE TryFails(t)  BY <1>7 DEF TryFails
<1>8. CASE ReadersGone(t)  BY <1>8 DEF ReadersGone
<1>9. CASE StoreZero(t)  BY <1>9 DEF StoreZero
<1>10. CASE UnlockShared(t)  BY <1>10 DEF UnlockShared
<1>11. CASE UnlockExclusive(t)  BY <1>11 DEF UnlockExclusive
<1>. QED
  BY <1>1, <1>2, <1>3, <1>4, <1>5, <1>6, <1>7, <1>8, <1>9, <1>10, <1>11 DEF RWInside

LEMMA RWAbstractStep ==
  RWInv /\ RWInv' /\ [RWNext]_rwVars => [Abstract!Next]_<<LockedShared, LockedExclusive>>
<1>. SUFFICES ASSUME RWInv, RWInv', [RWNext]_rwVars
              PROVE  Abstract!Next \/ UNCHANGED <<LockedShared, LockedExclusive>>
  OBVIOUS
<1>0. WritersAlone /\ WritersAlone'
  BY WritersStayAlone, PTL
<1>1. CASE UNCHANGED rwVars
  BY <1>1 DEF rwVars, LockedShared, LockedExclusive
<1>2. ASSUME NEW t \in RWThreads, LockShared(t) \/ LockExclusive(t) \/ RWInside(t)
      PROVE  Abstract!Next \/ UNCHANGED <<LockedShared, LockedExclusive>>
  <2>1. CASE UNCHANGED rpc
    BY <2>1 DEF LockedShared, LockedExclusive
  <2>2. ASSUME NEW to, rpc' = [rpc EXCEPT ![t] = to],
               to = "reading" => rpc[t] = "rcas", to = "ucas" => rpc[t] = "reading",
               to = "writing" => rpc[t] = "drain", rpc[t] = "writing" => to = "unlock",
               rpc[t] = "reading" => to = "ucas", rpc[t] = "ucas" => to = "idle"
        PROVE  Abstract!Next \/ UNCHANGED <<LockedShared, LockedExclusive>>
    <3>. USE DEF LockedShared, LockedExclusive, RWInv, RWTypeOK
    <3>0. rpc'[t] = to /\ \A u \in RWThreads : u # t => rpc'[u] = rpc[u]
      BY <2>2
    <3>1. CASE to = "reading"
      <4>1. LockedExclusive' = {}
        BY <1>0, <3>0, <3>1 DEF WritersAlone
      <4>2. LockedExclusive' = LockedExclusive /\ LockedShared' = LockedShared \cup {t}
        BY <2>2, <3>0, <3>1
      <4>. QED  BY <4>1, <4>2 DEF Abstract!Next, Abstract!LockShared
    <3>2. CASE rpc[t] = "ucas"
      <4>1. LockedExclusive' = LockedExclusive /\ LockedShared' = LockedShared \ {t}
            /\ t \in LockedShared
        BY <2>2, <3>0, <3>2
      <4>. QED  BY <4>1 DEF Abstract!Next, Abstract!UnlockShared
    <3>3. CASE to = "writing"
      <4>1. LockedShared' = {} /\ LockedExclusive' \subseteq {t}
        BY <1>0, <3>0, <3>3 DEF WritersAlone
      <4>2. LockedShared' = LockedShared /\ LockedExclusive' = LockedExclusive \cup {t}
            /\ t \notin LockedExclusive
        BY <2>2, <3>0, <3>3
      <4>3. LockedExclusive = {}
        BY <4>1, <4>2
      <4>. QED  BY <4>1, <4>2, <4>3 DEF Abstract!Next, Abstract!LockExclusive
    <3>4. CASE rpc[t] = "writing"
      <4>1. LockedExclusive \subseteq {t} /\ t \in LockedExclusive
        BY <3>4, WriterAlone
      <4>2. LockedShared' = LockedShared /\ LockedExclusive' = LockedExclusive \ {t}
        BY <2>2, <3>0, <3>4
      <4>3. LockedExclusive' = {}
        BY <4>1, <4>2
      <4>. QED  BY <4>1, <4>2, <4>3 DEF Abstract!Next, Abstract!UnlockExclusive
    <3>5. CASE to # "reading" /\ to # "writing" /\ rpc[t] # "ucas" /\ rpc[t] # "writing"
      BY <2>2, <3>0, <3>5
    <3>. QED  BY <3>1, <3>2, <3>3, <3>4, <3>5
  <2>. QED  BY <1>2, <2>1, <2>2, RWMoves
<1>. QED  BY <1>1, <1>2 DEF RWNext

-----------------------------------------------------------------------------
(* A step of the composition is a step of one class and leaves the others  *)
(* alone.                                                                  *)
syncVars == <<subject, vars, spinVars, onceVars, rwVars, rwcVars, barrierVars>>

LEMMA SyncSteps ==
  [SyncNext]_syncVars =>
    /\ [SpinNext]_spinVars /\ [OnceNext]_onceVars /\ [RWNext]_rwVars
    /\ [RWCNext]_rwcVars /\ [BarrierNext]_barrierVars
BY DEF SyncNext, syncVars

LEMMA LocksAreInvariant ==
  SyncSpec => [](SpinInv /\ OnceInv /\ RWInv /\ RWCInv /\ BarrierInv)
<1>. DEFINE I == SpinInv /\ OnceInv /\ RWInv /\ RWCInv /\ BarrierInv
<1>1. SyncInit => I
  BY SpinInitial, OnceInitial, RWInitial, RWCInitial, BarrierInitial DEF SyncInit
<1>2. I /\ [SyncNext]_syncVars => I'
  BY SyncSteps, SpinInvariant, OnceInvariant, RWInvariant, RWCInvariant, BarrierInvariant
<1>. QED  BY <1>1, <1>2, PTL DEF SyncSpec, syncVars

(* SpinLock, percpu_rwlock and RWCLock keep their users apart, the words   *)
(* of percpu_rwlock count who is in, and GoogleOnceInit() runs its         *)
(* function once, for every number of threads and processors.              *)
THEOREM LocksCorrect == SyncSpec => []LocksExclude
<1>1. SpinInv /\ OnceInv /\ RWInv /\ RWCInv => LocksExclude
  BY SpinExcludes, OnceRuns, RWCounts, RWCExcludes
  DEF LocksExclude, SpinInv, OnceInv, RWInv, RWCInv
<1>. QED  BY <1>1, LocksAreInvariant, PTL

(* No sleeper of SpinLock, RWCLock or Barrier is left without somebody     *)
(* bound to wake it.                                                       *)
THEOREM SleepersCorrect == SyncSpec => []WaitersHaveWakers
<1>1. SpinInv /\ RWCInv /\ BarrierInv => WaitersHaveWakers
  BY BarrierWaits DEF WaitersHaveWakers, SpinInv, RWCInv, BarrierInv
<1>. QED  BY <1>1, LocksAreInvariant, PTL

(* percpu_rwlock refines RWLock, and no call of Barrier::Wait() returns    *)
(* before the last one of its cycle has come.                              *)
THEOREM ContractsCorrect == SyncSpec => LockContracts
<1>1. SyncInit => Abstract!Init
  BY RWAbstractInit DEF SyncInit
<1>2. RWInv /\ RWInv' /\ [SyncNext]_syncVars => [Abstract!Next]_<<LockedShared, LockedExclusive>>
  BY SyncSteps, RWAbstractStep
<1>. QED  BY <1>1, <1>2, SyncSteps, BarrierStepHolds, LocksAreInvariant, PTL
          DEF SyncSpec, syncVars, LockContracts, BarrierHolds, Abstract!Spec, LockedShared, LockedExclusive

=============================================================================
