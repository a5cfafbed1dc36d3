------------------------------ MODULE OsProofs ------------------------------
(***************************************************************************)
(* Proofs about what the program keeps of the operating system: the        *)
(* acceptor threads of a pool, child processes, files and threads.  Each   *)
(* has an inductive invariant of its own; the last part composes them as   *)
(* MCThread does.                                                          *)
(***************************************************************************)
EXTENDS MCThread, TLAPS

-----------------------------------------------------------------------------
(* AcceptorPool.  A thread that runs is in the vector; once the pool is    *)
(* closing nobody starts threads, and as long as there are any somebody is *)
(* on the way to join them.                                                *)
RunningAreListed ==
  \A a \in Acceptors : apc[a] \notin {"none", "exited"} => a \in threads_

SomebodyJoins ==
  closing_ => /\ callpc[Owner] # "start"
              /\ threads_ = {} \/ \E c \in Callers : callpc[c] \in {"shut", "join"}

AcceptorInv ==
  /\ AcceptorTypeOK /\ RunningAreListed /\ SomebodyJoins
  /\ poolDead => closing_ /\ threads_ = {}

LEMMA AcceptorInitial == AcceptorInit => AcceptorInv
<1>. SUFFICES ASSUME AcceptorInit PROVE AcceptorInv
  OBVIOUS
<1>1. AcceptorTypeOK
  <2>1. backlog \in 0 .. MaxConnections /\ arrivals \in backlog .. MaxConnections
    BY AcceptorAssumption DEF AcceptorInit
  <2>2. closing_ \in BOOLEAN /\ poolDead \in BOOLEAN
    BY DEF AcceptorInit
  <2>. QED  BY <2>1, <2>2 DEF AcceptorInit, AcceptorTypeOK
<1>2. RunningAreListed
  BY DEF AcceptorInit, RunningAreListed
<1>. QED  BY <1>1, <1>2 DEF AcceptorInv, AcceptorInit, SomebodyJoins

LEMMA AcceptorInvariant == AcceptorInv /\ [AcceptorNext]_acceptorVars => AcceptorInv'
<1>. SUFFICES ASSUME AcceptorInv, [AcceptorNext]_acceptorVars PROVE AcceptorInv'
  OBVIOUS
<1>. USE AcceptorAssumption
     DEF AcceptorInv, AcceptorTypeOK, RunningAreListed, SomebodyJoins, CallerGoto,
         AcceptorGoto, ShutdownCas
<1>1. CASE StartListen
  BY <1>1 DEF StartListen
<1>2. CASE CreateFailure
  BY <1>2 DEF CreateFailure
<1>3. CASE StartDone
  BY <1>3 DEF StartDone
<1>4. CASE Destroy
  BY <1>4 DEF Destroy
<1>5. CASE Arrival
  BY <1>5 DEF Arrival
<1>6. ASSUME NEW a \in Acceptors, CreateAcceptor(a) PROVE AcceptorInv'
  BY <1>6 DEF CreateAcceptor
<1>7. ASSUME NEW a \in Acceptors, AcceptOk(a) PROVE AcceptorInv'
  BY <1>7 DEF AcceptOk
<1>8. ASSUME NEW a \in Acceptors, AcceptFails(a) PROVE AcceptorInv'
  BY <1>8 DEF AcceptFails
<1>9. ASSUME NEW a \in Acceptors, LoadClosing(a) PROVE AcceptorInv'
  BY <1>9 DEF LoadClosing
<1>10. ASSUME NEW a \in Acceptors, NoDelay(a) PROVE AcceptorInv'
  BY <1>10 DEF NoDelay
<1>11. ASSUME NEW c \in Callers, CallShutdown(c) PROVE AcceptorInv'
  BY <1>11 DEF CallShutdown
<1>12. ASSUME NEW c \in Callers, ShutdownSocket(c) PROVE AcceptorInv'
  BY <1>12 DEF ShutdownSocket
<1>13. ASSUME NEW c \in Callers, JoinAll(c) PROVE AcceptorInv'
  BY <1>13 DEF JoinAll, AllJoined
<1>14. CASE UNCHANGED acceptorVars
  BY <1>14 DEF acceptorVars
<1>. QED
  BY <1>1, <1>2, <1>3, <1>4, <1>5, <1>6, <1>7, <1>8, <1>9, <1>10, <1>11, <1>12, <1>13, <1>14
  DEF AcceptorNext

LEMMA AcceptorsGone == AcceptorInv => NoThreadOutlivesPool
BY DEF AcceptorInv, NoThreadOutlivesPool, RunningAreListed

-----------------------------------------------------------------------------
(* RWFile: the invariant the run checks is inductive as it stands. *)
LEMMA RWFileInitial == RWFileInit => NoOrphanedWrite
BY DEF RWFileInit, NoOrphanedWrite, RWFileTypeOK, Changes

LEMMA RWFileInvariant == NoOrphanedWrite /\ [RWFileNext]_rwFileVars => NoOrphanedWrite'
<1>. SUFFICES ASSUME NoOrphanedWrite, [RWFileNext]_rwFileVars PROVE NoOrphanedWrite'
  OBVIOUS
<1>. USE RWFileAssumption DEF NoOrphanedWrite, RWFileTypeOK, Changes, FileGoto, Changed
<1>1. CASE CloseRWFile
  <2>1. RWFileTypeOK'
    BY <1>1 DEF CloseRWFile
  <2>2. ~rwSyncFailed' => ~rwSyncFailed
        /\ (dirty' = {} \/ (dirty' = dirty /\ rwpending' = rwpending))
    BY <1>1 DEF CloseRWFile
  <2>3. complete' = complete /\ fpc' = fpc /\ covers' = covers
    BY <1>1 DEF CloseRWFile
  <2>. QED  BY <2>1, <2>2, <2>3
<1>2. ASSUME NEW t \in FileThreads, Pwrite(t) PROVE NoOrphanedWrite'
  BY <1>2 DEF Pwrite
<1>3. ASSUME NEW t \in FileThreads, StorePending(t) PROVE NoOrphanedWrite'
  BY <1>3 DEF StorePending
<1>4. ASSUME NEW t \in FileThreads, ChangeLayout(t) PROVE NoOrphanedWrite'
  BY <1>4 DEF ChangeLayout
<1>5. ASSUME NEW t \in FileThreads, CallSync(t) PROVE NoOrphanedWrite'
  BY <1>5 DEF CallSync
<1>6. ASSUME NEW t \in FileThreads, SyncCas(t) PROVE NoOrphanedWrite'
  BY <1>6 DEF SyncCas
<1>7. ASSUME NEW t \in FileThreads, BeginFdatasync(t) PROVE NoOrphanedWrite'
  BY <1>7 DEF BeginFdatasync
<1>8. ASSUME NEW t \in FileThreads, EndFdatasync(t) PROVE NoOrphanedWrite'
  <2>1. /\ fpc[t] = "flushing" /\ fpc' \in {[fpc EXCEPT ![t] = "synced"], [fpc EXCEPT ![t] = "idle"]}
        /\ rwpending' = rwpending /\ complete' = complete /\ rwsoc' = rwsoc /\ closed_' = closed_
        /\ covers' = [covers EXCEPT ![t] = {}]
        /\ owed' \in {owed, [owed EXCEPT ![t] = {}]}
    BY <1>8 DEF EndFdatasync, PendingAfterSync
  <2>2. \/ rwSyncFailed' = TRUE
        \/ rwSyncFailed' = rwSyncFailed /\ dirty' = dirty \ covers[t]
    BY <1>8 DEF EndFdatasync
  <2>3. rwSyncFailed' \in BOOLEAN /\ dirty' \subseteq dirty
    <3>1. rwSyncFailed' = TRUE \/ rwSyncFailed' = rwSyncFailed
      BY <1>8 DEF EndFdatasync
    <3>2. dirty' \subseteq dirty
      BY <1>8 DEF EndFdatasync
    <3>. QED  BY <3>1, <3>2
  <2>4. RWFileTypeOK'
    <3>1. {rwpending', rwsoc', closed_', rwSyncFailed'} \subseteq BOOLEAN
      BY <2>1, <2>3
    <3>2. fpc' \in [FileThreads -> {"idle", "written", "sync", "fdatasync", "flushing", "synced"}]
      BY <2>1
    <3>3. {covers', owed'} \subseteq [FileThreads -> SUBSET (FileThreads \cup {"size"})]
      BY <2>1
    <3>. QED  BY <2>1, <2>3, <3>1, <3>2, <3>3
  <2>5. \A u \in FileThreads : fpc[u] = "fdatasync" => fpc'[u] = "fdatasync"
    BY <2>1
  <2>6. \A u \in FileThreads : u # t => covers'[u] = covers[u]
    BY <2>1
  <2>7. ASSUME ~rwSyncFailed', NEW u \in FileThreads,
               dirty \cap complete \cap FileThreads \subseteq covers[u]
        PROVE  \/ dirty' \cap complete' \cap FileThreads = {}
               \/ dirty' \cap complete' \cap FileThreads \subseteq covers'[u]
    BY <2>1, <2>2, <2>3, <2>6, <2>7
  <2>. QED  BY <2>1, <2>2, <2>3, <2>4, <2>5, <2>7
<1>9. ASSUME NEW t \in FileThreads, SyncReturns(t) PROVE NoOrphanedWrite'
  BY <1>9 DEF SyncReturns
<1>10. CASE UNCHANGED rwFileVars
  BY <1>10 DEF rwFileVars
<1>. QED
  BY <1>1, <1>2, <1>3, <1>4, <1>5, <1>6, <1>7, <1>8, <1>9, <1>10 DEF RWFileNext

-----------------------------------------------------------------------------
(* WritableFile.  What has been vouched for is durable and lies below the  *)
(* end of the data, and with pending_sync_ down nothing that was appended  *)
(* is left to sync.  The file ends where the data or the reserved space    *)
(* end, and after the trim of Close() where the data end.                  *)
Vouched ==
  ~syncFailed =>
    /\ promised <= durable
    /\ fd_ # "none" => promised <= filesize_
    /\ (fd_ # "none" /\ ~pending_sync_ /\ filesize_ > base) => filesize_ <= durable

FileEnds ==
  /\ fd_ # "none" => filesize_ <= length
  /\ fd_ = "open" => length <= Higher(filesize_, pre_allocated_size_)
  /\ (fd_ \in {"truncated", "synced"} /\ status) => length = filesize_

WritableInv == WritableTypeOK /\ Vouched /\ FileEnds

(* The flags and the lengths of the type invariant, apart. *)
FlagsOK == {pending_sync_, sync_on_close_, status, syncFailed} \subseteq BOOLEAN
LengthsOK ==
  /\ fd_ \in {"none", "open", "truncated", "synced"}
  /\ {filesize_, length, durable, base, promised} \subseteq 0 .. MaxLength
  /\ pre_allocated_size_ \in Nat /\ durable <= length

LEMMA WritableInitial == WritableInit => WritableInv
<1>. SUFFICES ASSUME WritableInit PROVE WritableInv
  OBVIOUS
<1>1. FlagsOK
  BY DEF WritableInit, FlagsOK
<1>2. LengthsOK /\ Vouched /\ FileEnds
  BY WritableAssumption DEF WritableInit, LengthsOK, Vouched, FileEnds, Higher
<1>. QED  BY <1>1, <1>2 DEF WritableInv, WritableTypeOK, FlagsOK, LengthsOK, Lengths

LEMMA WritableInvariant == WritableInv /\ [WritableNext]_writableVars => WritableInv'
<1>. SUFFICES ASSUME WritableInv, [WritableNext]_writableVars
              PROVE  FlagsOK' /\ LengthsOK' /\ Vouched' /\ FileEnds'
  BY DEF WritableInv, WritableTypeOK, FlagsOK, LengthsOK, Lengths
<1>0. FlagsOK /\ LengthsOK /\ Vouched /\ FileEnds
  BY DEF WritableInv, WritableTypeOK, FlagsOK, LengthsOK, Lengths
<1>. USE <1>0, WritableAssumption DEF LengthsOK, Vouched, FileEnds, Higher, Lower, object
<1>1. CASE OpenExisting
  <2>1. FlagsOK'
    BY <1>1 DEF OpenExisting, Construct, FlagsOK
  <2>2. LengthsOK'
    BY <1>1 DEF OpenExisting, Construct
  <2>3. Vouched'
    BY <1>1 DEF OpenExisting, Construct
  <2>4. FileEnds'
    BY <1>1 DEF OpenExisting, Construct
  <2>. QED  BY <2>1, <2>2, <2>3, <2>4
<1>2. CASE OpenTruncate
  <2>1. FlagsOK'
    BY <1>2 DEF OpenTruncate, Construct, FlagsOK
  <2>2. LengthsOK'
    BY <1>2 DEF OpenTruncate, Construct
  <2>3. Vouched'
    BY <1>2 DEF OpenTruncate, Construct
  <2>4. FileEnds'
    BY <1>2 DEF OpenTruncate, Construct
  <2>. QED  BY <2>1, <2>2, <2>3, <2>4
<1>3. CASE AppendVector
  <2>1. FlagsOK'
    BY <1>3 DEF AppendVector, PendingAfterAppend, FlagsOK
  <2>2. LengthsOK'
    BY <1>3 DEF AppendVector, PendingAfterAppend
  <2>3. Vouched'
    BY <1>3 DEF AppendVector, PendingAfterAppend
  <2>4. FileEnds'
    BY <1>3 DEF AppendVector, PendingAfterAppend
  <2>. QED  BY <2>1, <2>2, <2>3, <2>4
<1>4. CASE PreAllocate
  <2>1. FlagsOK'
    BY <1>4 DEF PreAllocate, AllocationOffset, FlagsOK
  <2>2. LengthsOK'
    BY <1>4 DEF PreAllocate, AllocationOffset
  <2>3. Vouched'
    BY <1>4 DEF PreAllocate, AllocationOffset
  <2>4. FileEnds'
    BY <1>4 DEF PreAllocate, AllocationOffset
  <2>. QED  BY <2>1, <2>2, <2>3, <2>4
<1>5. CASE Sync
  <2>1. FlagsOK'
    BY <1>5 DEF Sync, DoSync, Vouch, FlagsOK
  <2>2. LengthsOK'
    BY <1>5 DEF Sync, DoSync, Vouch
  <2>3. Vouched'
    BY <1>5 DEF Sync, DoSync, Vouch
  <2>4. FileEnds'
    BY <1>5 DEF Sync, DoSync, Vouch
  <2>. QED  BY <2>1, <2>2, <2>3, <2>4
<1>6. CASE CloseTruncate
  <2>1. FlagsOK'
    BY <1>6 DEF CloseTruncate, FlagsOK
  <2>2. LengthsOK'
    BY <1>6 DEF CloseTruncate
  <2>3. Vouched'
    BY <1>6 DEF CloseTruncate
  <2>4. FileEnds'
    BY <1>6 DEF CloseTruncate
  <2>. QED  BY <2>1, <2>2, <2>3, <2>4
<1>7. CASE CloseSync
  <2>1. FlagsOK'
    BY <1>7 DEF CloseSync, DoSync, Vouch, FlagsOK
  <2>2. LengthsOK'
    BY <1>7 DEF CloseSync, DoSync, Vouch
  <2>3. Vouched'
    BY <1>7 DEF CloseSync, DoSync, Vouch
  <2>4. FileEnds'
    BY <1>7 DEF CloseSync, DoSync, Vouch
  <2>. QED  BY <2>1, <2>2, <2>3, <2>4
<1>8. CASE CloseFd
  <2>1. FlagsOK'
    BY <1>8 DEF CloseFd, FlagsOK
  <2>2. LengthsOK'
    BY <1>8 DEF CloseFd
  <2>3. Vouched'
    BY <1>8 DEF CloseFd
  <2>4. FileEnds'
    BY <1>8 DEF CloseFd
  <2>. QED  BY <2>1, <2>2, <2>3, <2>4
<1>9. CASE Writeback
  <2>1. FlagsOK'
    BY <1>9 DEF Writeback, FlagsOK
  <2>2. LengthsOK'
    BY <1>9 DEF Writeback
  <2>3. Vouched'
    BY <1>9 DEF Writeback
  <2>4. FileEnds'
    BY <1>9 DEF Writeback
  <2>. QED  BY <2>1, <2>2, <2>3, <2>4
<1>10. CASE ProcessCrash
  <2>1. FlagsOK'
    BY <1>10 DEF ProcessCrash, FlagsOK
  <2>2. LengthsOK'
    BY <1>10 DEF ProcessCrash
  <2>3. Vouched'
    BY <1>10 DEF ProcessCrash
  <2>4. FileEnds'
    BY <1>10 DEF ProcessCrash
  <2>. QED  BY <2>1, <2>2, <2>3, <2>4
<1>11. CASE MachineCrash
  <2>1. FlagsOK'
    BY <1>11 DEF MachineCrash, FlagsOK
  <2>2. LengthsOK'
    BY <1>11 DEF MachineCrash
  <2>3. Vouched'
    BY <1>11 DEF MachineCrash
  <2>4. FileEnds'
    BY <1>11 DEF MachineCrash
  <2>. QED  BY <2>1, <2>2, <2>3, <2>4
<1>12. CASE UNCHANGED writableVars
  <2>1. FlagsOK'
    BY <1>12 DEF writableVars, FlagsOK
  <2>2. LengthsOK'
    BY <1>12 DEF writableVars
  <2>3. Vouched'
    BY <1>12 DEF writableVars
  <2>4. FileEnds'
    BY <1>12 DEF writableVars
  <2>. QED  BY <2>1, <2>2, <2>3, <2>4
<1>. QED
  BY <1>1, <1>2, <1>3, <1>4, <1>5, <1>6, <1>7, <1>8, <1>9, <1>10, <1>11, <1>12
  DEF WritableNext

LEMMA WritableDurable == WritableInv => SyncedIsDurable
BY DEF WritableInv, SyncedIsDurable, Vouched

LEMMA WritableTrimmed ==
  WritableInv => [CloseFd /\ status' => length = filesize_]_writableVars
BY DEF WritableInv, WritableTypeOK, FileEnds, CloseFd

-----------------------------------------------------------------------------
(* Subprocess.  state_ and the place in Start() say whether there is a     *)
(* child, and each child that was forked has been counted by a call of     *)
(* Start().                                                                *)
ChildKnown ==
  /\ stpc \in {"piped", "forked", "read"} => state_ = "kNotStarted"
  /\ stpc \in {"forked", "read"} \/ state_ = "kRunning" => child # "none"
  /\ stpc = "wait" => state_ = "kRunning" /\ child = "zombie"

ForksCounted ==
  /\ child = "none" /\ stpc # "piped" => strays <= starts
  /\ child = "none" /\ stpc = "piped" => strays + 1 <= starts
  /\ child # "none" /\ stpc # "piped" => strays + 1 <= starts
  /\ child # "none" /\ stpc = "piped" => strays + 2 <= starts

(* Without a failure nothing is held that the destructor does not know of. *)
HeldIsKnown ==
  ~failed =>
    /\ strays = 0
    /\ child # "none" => state_ = "kRunning" \/ stpc \in {"forked", "read"}
    /\ stpc \in {"idle", "wait"} => parentFds \subseteq {Own(s) : s \in child_fds_}
    /\ stpc = "read" => /\ child_fds_ = fd_state_
                        /\ parentFds \subseteq {Own(s) : s \in child_fds_ \cup {"sync"}}
    /\ stpc \in {"piped", "forked"} => parentFds \subseteq Pipes(fd_state_ \cup {"sync"})
    /\ state_ = "destroyed" => stpc = "idle" /\ child_fds_ = {}

SubprocessInv == SubprocessTypeOK /\ ChildKnown /\ ForksCounted /\ HeldIsKnown

LEMMA SubprocessInitial == SubprocessInit => SubprocessInv
<1>. SUFFICES ASSUME SubprocessInit PROVE SubprocessInv
  OBVIOUS
<1>0. failed \in BOOLEAN
  BY DEF SubprocessInit
<1>1. strays \in 0 .. MaxStarts /\ starts \in 0 .. MaxStarts
  BY SubprocessAssumption DEF SubprocessInit
<1>2. SubprocessTypeOK
  BY <1>0, <1>1 DEF SubprocessInit, SubprocessTypeOK
<1>3. ChildKnown /\ ForksCounted /\ HeldIsKnown
  BY <1>1 DEF SubprocessInit, ChildKnown, ForksCounted, HeldIsKnown
<1>. QED  BY <1>2, <1>3 DEF SubprocessInv

LEMMA SubprocessInvariant == SubprocessInv /\ [SubprocessNext]_subprocessVars => SubprocessInv'
<1>. SUFFICES ASSUME SubprocessInv, [SubprocessNext]_subprocessVars PROVE SubprocessInv'
  OBVIOUS
<1>. USE SubprocessAssumption
     DEF SubprocessInv, SubprocessTypeOK, ChildKnown, ForksCounted, HeldIsKnown, Pipes, Own, Theirs
<1>1. CASE StartPipes
  BY <1>1 DEF StartPipes
<1>2. CASE StartFails
  BY <1>2 DEF StartFails
<1>3. CASE Fork
  BY <1>3 DEF Fork
<1>4. CASE ParentCloses
  BY <1>4 DEF ParentCloses, ClosedByParent
<1>5. CASE ReadEof
  BY <1>5 DEF ReadEof
<1>6. CASE ReadError
  BY <1>6 DEF ReadError
<1>7. CASE CloseNonStandardFDs
  BY <1>7 DEF CloseNonStandardFDs
<1>8. CASE Execvp
  BY <1>8 DEF Execvp
<1>9. CASE ChildEnds
  BY <1>9 DEF ChildEnds
<1>10. CASE DoWait
  BY <1>10 DEF DoWait
<1>11. ASSUME NEW s \in Streams, ReleaseChildFd(s) PROVE SubprocessInv'
  BY <1>11 DEF ReleaseChildFd
<1>12. CASE DestructorKills
  BY <1>12 DEF DestructorKills, MustReap
<1>13. CASE DestructorCloses
  <2>1. /\ stpc' = "idle" /\ state_' = "destroyed" /\ child_fds_' = {}
        /\ parentFds' = parentFds \ {Own(s) : s \in child_fds_ \cap fd_state_}
        /\ stpc \in {"wait", "idle"}
        /\ UNCHANGED <<fd_state_, syncHolders, strays, starts>>
    BY <1>13 DEF DestructorCloses
  <2>2. \/ child' = "none" /\ failed' = failed
        \/ child' = child /\ failed' = TRUE
        \/ state_ # "kRunning" /\ stpc = "idle" /\ child' = child /\ failed' = failed
    BY <1>13 DEF DestructorCloses, MustReap
  <2>3. child' \in {"none", "forked", "closed", "running", "zombie"} /\ failed' \in BOOLEAN
    BY <2>2
  <2>4. SubprocessTypeOK'
    BY <2>1, <2>3
  <2>5. ChildKnown' /\ ForksCounted'
    BY <2>1, <2>2
  <2>6. HeldIsKnown'
    BY <2>1, <2>2
  <2>. QED  BY <2>4, <2>5, <2>6
<1>14. CASE UNCHANGED subprocessVars
  BY <1>14 DEF subprocessVars
<1>. QED
  BY <1>1, <1>2, <1>3, <1>4, <1>5, <1>6, <1>7, <1>8, <1>9, <1>10, <1>11, <1>12, <1>13, <1>14
  DEF SubprocessNext

LEMMA SubprocessClean == SubprocessInv => NothingLeftBehind
BY DEF SubprocessInv, HeldIsKnown, NothingLeftBehind

-----------------------------------------------------------------------------
(* Thread.  Who holds a reference follows from where the parent and the    *)
(* child are. *)
RefsMatch ==
  /\ alive <=> refs # {}
  /\ "parent" \in refs <=> ppc \in {"create", "publish", "release", "spin"}
  /\ "child" \in refs <=> cpc \notin {"none", "started", "exited"}
  /\ "holder" \in refs => ppc \in {"release", "spin", "returned"}

(* tid_ keeps the parent in StartThread() until the child has taken its    *)
(* reference, and the child from the Thread until the parent has set it up.*)
Handshake ==
  /\ cpc = "none" <=> ppc \in {"create", "failed"}
  /\ tid = "published" <=> cpc \notin {"none", "started", "handshake", "publish"}
  /\ tid = "CHILD_WAITING" <=> ppc \in {"create", "failed", "publish", "release"}
  /\ tid = "CHILD_WAITING" => cpc \in {"none", "started", "handshake"}
  /\ ppc = "returned" => tid = "published"

(* joinable_ says who gives up the pthread: a joiner, or the destructor. *)
Handles ==
  /\ ppc \in {"create", "failed"} => handle = "none" /\ ~joinable
  /\ ppc = "publish" => handle = "open" /\ ~joinable
  /\ ppc \in {"release", "spin", "returned"} =>
       /\ handle # "none" /\ (handle = "joined" <=> ~joinable)
       /\ handle = "detached" <=> joinable /\ refs = {}
  /\ handle = "joined" => cpc = "exited"

(* What FinishThread() has done. *)
Finished ==
  /\ done = 0 <=> cpc \in {"return", "exited"}
  /\ listed <=> cpc \in {"functor", "callbacks", "deregister"}
  /\ callbacks.run = IF cpc \in {"deregister", "countdown", "return", "exited"}
                     THEN callbacks.added ELSE 0

Joining(o) == o.pc \in {"check", "wait", "pthread_join"}

(* One call of Join() at a time is at work, on a thread that is joinable   *)
(* and that the caller holds.                                              *)
Joins ==
  \A j \in Joiners :
    /\ join[j].pc = "idle" => join[j].waited = 0 /\ join[j].result = "none"
    /\ Joining(join[j]) =>
         /\ "holder" \in refs /\ ppc = "returned" /\ joinable /\ join[j].result = "none"
         /\ join[j].giveup # -1 => join[j].waited <= join[j].giveup
         /\ \A i \in Joiners : Joining(join[i]) => i = j
    /\ join[j].pc = "pthread_join" => done = 0
    /\ join[j].result = "OK" => handle = "joined"
    /\ join[j].result = "Aborted" => join[j].waited = join[j].giveup

ThreadInv == TypeOK /\ RefsMatch /\ Handshake /\ Handles /\ Finished /\ Joins

LEMMA ThreadInitial == Init => ThreadInv
<1>. SUFFICES ASSUME Init PROVE ThreadInv
  OBVIOUS
<1>. USE DEF Init
<1>1. TypeOK
  <2>1. joinable \in BOOLEAN /\ alive \in BOOLEAN /\ listed \in BOOLEAN
    OBVIOUS
  <2>2. callbacks \in [added : 0..1, run : 0..1] /\ callbacks.run <= callbacks.added
    OBVIOUS
  <2>3. join \in [Joiners -> [pc : {"idle", "check", "wait", "pthread_join", "end"},
                              waited : Nat, giveup : GiveUpAfter \cup {-1},
                              result : {"none", "OK", "Aborted"}]]
    BY DEF NotJoining
  <2>4. done \in 0..1
    OBVIOUS
  <2>. QED  BY <2>1, <2>2, <2>3, <2>4 DEF TypeOK, ChildPCs
<1>2. RefsMatch /\ Handshake /\ Handles
  BY DEF RefsMatch, Handshake, Handles
<1>3. Finished
  BY DEF Finished
<1>4. Joins
  BY DEF Joins, Joining, NotJoining
<1>. QED  BY <1>1, <1>2, <1>3, <1>4 DEF ThreadInv

LEMMA ThreadStep ==
  ASSUME ThreadInv,
         \/ ParentNext \/ ChildNext \/ DropHolder \/ CallAtExit \/ FunctorEnds
         \/ UNCHANGED vars
  PROVE  ThreadInv'
<1>. USE DEF ThreadInv, ChildStep, ChildPCs
<1>1. CASE CreatePthread
  <2>1. TypeOK'
    BY <1>1 DEF CreatePthread, DropRef, TypeOK, RefsMatch, Finished
  <2>2. RefsMatch' /\ Handshake'
    BY <1>1 DEF CreatePthread, DropRef, TypeOK, RefsMatch, Handshake
  <2>3. Handles'
    BY <1>1 DEF CreatePthread, DropRef, TypeOK, RefsMatch, Handshake, Handles
  <2>4. Finished'
    <3>1. UNCHANGED <<done, listed, callbacks>> /\ cpc = "none" /\ cpc' \in {"none", "started"}
      BY <1>1 DEF CreatePthread, Handshake
    <3>. QED  BY <3>1 DEF Finished
  <2>5. Joins'
    BY <1>1 DEF CreatePthread, DropRef, TypeOK, Finished, Handles, Joins, Joining
  <2>. QED  BY <2>1, <2>2, <2>3, <2>4, <2>5
<1>2. CASE PublishThread
  <2>1. TypeOK'
    BY <1>2 DEF PublishThread, TypeOK, RefsMatch, Finished
  <2>2. RefsMatch' /\ Handshake'
    BY <1>2 DEF PublishThread, TypeOK, RefsMatch, Handshake
  <2>3. Handles'
    BY <1>2 DEF PublishThread, TypeOK, RefsMatch, Handshake, Handles
  <2>4. Finished'
    BY <1>2 DEF PublishThread, TypeOK, Finished
  <2>5. Joins'
    BY <1>2 DEF PublishThread, TypeOK, Finished, Handles, Joins, Joining
  <2>. QED  BY <2>1, <2>2, <2>3, <2>4, <2>5
<1>3. CASE ReleaseChild
  <2>1. TypeOK'
    BY <1>3 DEF ReleaseChild, TypeOK, RefsMatch, Finished
  <2>2. RefsMatch' /\ Handshake'
    BY <1>3 DEF ReleaseChild, TypeOK, RefsMatch, Handshake
  <2>3. Handles'
    BY <1>3 DEF ReleaseChild, TypeOK, RefsMatch, Handshake, Handles
  <2>4. Finished'
    BY <1>3 DEF ReleaseChild, TypeOK, Finished
  <2>5. Joins'
    BY <1>3 DEF ReleaseChild, TypeOK, Finished, Handles, Joins, Joining
  <2>. QED  BY <2>1, <2>2, <2>3, <2>4, <2>5
<1>4. CASE StartReturns
  <2>1. TypeOK'
    BY <1>4 DEF StartReturns, DropRef, TypeOK, RefsMatch, Finished
  <2>2. RefsMatch' /\ Handshake'
    BY <1>4 DEF StartReturns, DropRef, TypeOK, RefsMatch, Handshake
  <2>3. Handles'
    BY <1>4 DEF StartReturns, DropRef, TypeOK, RefsMatch, Handshake, Handles
  <2>4. Finished'
    BY <1>4 DEF StartReturns, DropRef, TypeOK, Finished
  <2>5. Joins'
    BY <1>4 DEF StartReturns, DropRef, TypeOK, Finished, Handles, Joins, Joining
  <2>. QED  BY <2>1, <2>2, <2>3, <2>4, <2>5
<1>5. CASE DropHolder
  <2>1. TypeOK'
    BY <1>5 DEF DropHolder, DropRef, TypeOK, RefsMatch, Finished
  <2>2. RefsMatch' /\ Handshake'
    BY <1>5 DEF DropHolder, DropRef, TypeOK, RefsMatch, Handshake
  <2>3. Handles'
    BY <1>5 DEF DropHolder, DropRef, TypeOK, RefsMatch, Handshake, Handles
  <2>4. Finished'
    BY <1>5 DEF DropHolder, DropRef, TypeOK, Finished
  <2>5. Joins'
    BY <1>5 DEF DropHolder, DropRef, TypeOK, Finished, Handles, Joins, Joining
  <2>. QED  BY <2>1, <2>2, <2>3, <2>4, <2>5
<1>6. CASE TakeReference
  <2>1. TypeOK'
    BY <1>6 DEF TakeReference, TypeOK, RefsMatch, Finished
  <2>2. RefsMatch' /\ Handshake'
    BY <1>6 DEF TakeReference, TypeOK, RefsMatch, Handshake
  <2>3. Handles'
    BY <1>6 DEF TakeReference, TypeOK, RefsMatch, Handshake, Handles
  <2>4. Finished'
    BY <1>6 DEF TakeReference, TypeOK, Finished
  <2>5. Joins'
    BY <1>6 DEF TakeReference, TypeOK, Finished, Handles, Joins, Joining
  <2>. QED  BY <2>1, <2>2, <2>3, <2>4, <2>5
<1>7. CASE SeeParent
  <2>1. TypeOK'
    BY <1>7 DEF SeeParent, TypeOK, RefsMatch, Finished
  <2>2. RefsMatch' /\ Handshake'
    BY <1>7 DEF SeeParent, TypeOK, RefsMatch, Handshake
  <2>3. Handles'
    BY <1>7 DEF SeeParent, TypeOK, RefsMatch, Handshake, Handles
  <2>4. Finished'
    BY <1>7 DEF SeeParent, TypeOK, Finished
  <2>5. Joins'
    BY <1>7 DEF SeeParent, TypeOK, Finished, Handles, Joins, Joining
  <2>. QED  BY <2>1, <2>2, <2>3, <2>4, <2>5
<1>8. CASE PublishTid
  <2>1. TypeOK'
    BY <1>8 DEF PublishTid, TypeOK, RefsMatch, Finished
  <2>2. RefsMatch' /\ Handshake'
    BY <1>8 DEF PublishTid, TypeOK, RefsMatch, Handshake
  <2>3. Handles'
    BY <1>8 DEF PublishTid, TypeOK, RefsMatch, Handshake, Handles
  <2>4. Finished'
    BY <1>8 DEF PublishTid, TypeOK, Finished
  <2>5. Joins'
    BY <1>8 DEF PublishTid, TypeOK, Finished, Handles, Joins, Joining
  <2>. QED  BY <2>1, <2>2, <2>3, <2>4, <2>5
<1>9. CASE AddThread
  <2>1. TypeOK'
    BY <1>9 DEF AddThread, TypeOK, RefsMatch, Finished
  <2>2. RefsMatch' /\ Handshake'
    BY <1>9 DEF AddThread, TypeOK, RefsMatch, Handshake
  <2>3. Handles'
    BY <1>9 DEF AddThread, TypeOK, RefsMatch, Handshake, Handles
  <2>4. Finished'
    BY <1>9 DEF AddThread, TypeOK, Finished
  <2>5. Joins'
    BY <1>9 DEF AddThread, TypeOK, Finished, Handles, Joins, Joining
  <2>. QED  BY <2>1, <2>2, <2>3, <2>4, <2>5
<1>10. CASE CallAtExit
  <2>1. TypeOK'
    BY <1>10 DEF CallAtExit, TypeOK, RefsMatch, Finished
  <2>2. RefsMatch' /\ Handshake'
    BY <1>10 DEF CallAtExit, TypeOK, RefsMatch, Handshake
  <2>3. Handles'
    BY <1>10 DEF CallAtExit, TypeOK, RefsMatch, Handshake, Handles
  <2>4. Finished'
    BY <1>10 DEF CallAtExit, TypeOK, Finished
  <2>5. Joins'
    BY <1>10 DEF CallAtExit, TypeOK, Finished, Handles, Joins, Joining
  <2>. QED  BY <2>1, <2>2, <2>3, <2>4, <2>5
<1>11. CASE FunctorEnds
  <2>1. TypeOK'
    BY <1>11 DEF FunctorEnds, TypeOK, RefsMatch, Finished
  <2>2. RefsMatch' /\ Handshake'
    BY <1>11 DEF FunctorEnds, TypeOK, RefsMatch, Handshake
  <2>3. Handles'
    BY <1>11 DEF FunctorEnds, TypeOK, RefsMatch, Handshake, Handles
  <2>4. Finished'
    BY <1>11 DEF FunctorEnds, TypeOK, Finished
  <2>5. Joins'
    BY <1>11 DEF FunctorEnds, TypeOK, Finished, Handles, Joins, Joining
  <2>. QED  BY <2>1, <2>2, <2>3, <2>4, <2>5
<1>12. CASE RunCallbacks
  <2>1. TypeOK'
    BY <1>12 DEF RunCallbacks, TypeOK, RefsMatch, Finished
  <2>2. RefsMatch' /\ Handshake'
    BY <1>12 DEF RunCallbacks, TypeOK, RefsMatch, Handshake
  <2>3. Handles'
    BY <1>12 DEF RunCallbacks, TypeOK, RefsMatch, Handshake, Handles
  <2>4. Finished'
    BY <1>12 DEF RunCallbacks, TypeOK, Finished
  <2>5. Joins'
    BY <1>12 DEF RunCallbacks, TypeOK, Finished, Handles, Joins, Joining
  <2>. QED  BY <2>1, <2>2, <2>3, <2>4, <2>5
<1>13. CASE RemoveThread
  <2>1. TypeOK'
    BY <1>13 DEF RemoveThread, TypeOK, RefsMatch, Finished
  <2>2. RefsMatch' /\ Handshake'
    BY <1>13 DEF RemoveThread, TypeOK, RefsMatch, Handshake
  <2>3. Handles'
    BY <1>13 DEF RemoveThread, TypeOK, RefsMatch, Handshake, Handles
  <2>4. Finished'
    BY <1>13 DEF RemoveThread, TypeOK, Finished
  <2>5. Joins'
    BY <1>13 DEF RemoveThread, TypeOK, Finished, Handles, Joins, Joining
  <2>. QED  BY <2>1, <2>2, <2>3, <2>4, <2>5
<1>14. CASE CountDown
  <2>1. TypeOK'
    BY <1>14 DEF CountDown, TypeOK, RefsMatch, Finished
  <2>2. RefsMatch' /\ Handshake'
    BY <1>14 DEF CountDown, TypeOK, RefsMatch, Handshake
  <2>3. Handles'
    BY <1>14 DEF CountDown, TypeOK, RefsMatch, Handshake, Handles
  <2>4. Finished'
    BY <1>14 DEF CountDown, TypeOK, Finished
  <2>5. Joins'
    BY <1>14 DEF CountDown, TypeOK, Finished, Handles, Joins, Joining
  <2>. QED  BY <2>1, <2>2, <2>3, <2>4, <2>5
<1>15. CASE ChildExits
  <2>1. TypeOK'
    BY <1>15 DEF ChildExits, DropRef, TypeOK, RefsMatch, Finished
  <2>2. RefsMatch' /\ Handshake'
    BY <1>15 DEF ChildExits, DropRef, TypeOK, RefsMatch, Handshake
  <2>3. Handles'
    BY <1>15 DEF ChildExits, DropRef, TypeOK, RefsMatch, Handshake, Handles
  <2>4. Finished'
    BY <1>15 DEF ChildExits, DropRef, TypeOK, Finished
  <2>5. Joins'
    BY <1>15 DEF ChildExits, DropRef, TypeOK, Finished, Handles, Joins, Joining
  <2>. QED  BY <2>1, <2>2, <2>3, <2>4, <2>5
<1>16. CASE UNCHANGED vars
  <2>1. TypeOK'
    BY <1>16 DEF vars, TypeOK, RefsMatch, Finished
  <2>2. RefsMatch' /\ Handshake'
    BY <1>16 DEF vars, TypeOK, RefsMatch, Handshake
  <2>3. Handles'
    BY <1>16 DEF vars, TypeOK, RefsMatch, Handshake, Handles
  <2>4. Finished'
    BY <1>16 DEF vars, TypeOK, Finished
  <2>5. Joins'
    BY <1>16 DEF vars, TypeOK, Finished, Handles, Joins, Joining
  <2>. QED  BY <2>1, <2>2, <2>3, <2>4, <2>5
<1>. QED
  BY <1>1, <1>2, <1>3, <1>4, <1>5, <1>6, <1>7, <1>8, <1>9, <1>10, <1>11, <1>12, <1>13, <1>14, <1>15, <1>16
  DEF ParentNext, ChildNext


(* A pthread_join() or the end of a wait: how long a last wait is. *)
LEMMA LastWaitTime ==
  ASSUME NEW o \in [pc : {"idle", "check", "wait", "pthread_join", "end"},
                    waited : Nat, giveup : GiveUpAfter \cup {-1},
                    result : {"none", "OK", "Aborted"}],
         o.giveup # -1 => o.waited <= o.giveup
  PROVE  /\ WaitTime(o) \in Nat
         /\ o.giveup # -1 => o.waited + WaitTime(o) <= o.giveup
         /\ LastWait(o) => o.waited + WaitTime(o) = o.giveup
<1>. DEFINE w == NextWarn(o)
<1>1. o.waited \in Nat /\ (o.giveup # -1 => o.giveup \in Nat)
  BY ThreadAssumption
<1>2. w \in Nat
  BY <1>1, ThreadAssumption DEF NextWarn
<1>. HIDE DEF w
<1>3. CASE o.giveup = -1
  BY <1>2, <1>3 DEF WaitTime, LastWait, w
<1>4. CASE o.giveup # -1
  <2>. DEFINE g == o.giveup - o.waited
  <2>1. g \in Nat
    BY <1>1, <1>4
  <2>. HIDE DEF g
  <2>2. Min({g, w}) = IF g < w THEN g ELSE w
    <3>1. \E x \in {g, w} : \A y \in {g, w} : x <= y
      BY <1>2, <2>1
    <3>. QED  BY <1>2, <2>1, <3>1 DEF Min
  <2>3. WaitTime(o) = IF g < w THEN g ELSE w
    BY <1>4, <2>2 DEF WaitTime, g, w
  <2>4. LastWait(o) <=> g < w
    BY <1>4 DEF LastWait, g, w
  <2>5. o.waited + g = o.giveup
    BY <1>1, <1>4 DEF g
  <2>. QED  BY <1>1, <1>2, <1>4, <2>1, <2>3, <2>4, <2>5
<1>. QED  BY <1>3, <1>4

LEMMA JoinStep ==
  ASSUME ThreadInv, NEW j \in Joiners, JoinBegins(j) \/ JoinNext(j)
  PROVE  ThreadInv'
<1>. USE DEF ThreadInv
<1>. DEFINE JoinCalls == [pc : {"idle", "check", "wait", "pthread_join", "end"},
                          waited : Nat, giveup : GiveUpAfter \cup {-1},
                          result : {"none", "OK", "Aborted"}]
<1>0. join \in [Joiners -> JoinCalls]
  BY DEF TypeOK
<1>1. ASSUME NEW o \in JoinCalls, join' = [join EXCEPT ![j] = o],
             UNCHANGED <<tid, joinable, done, refs, alive, handle, ppc, cpc, listed, callbacks>>,
             o.pc # "idle",
             Joining(o) =>
               /\ "holder" \in refs /\ ppc = "returned" /\ joinable /\ o.result = "none"
               /\ o.giveup # -1 => o.waited <= o.giveup
               /\ \A i \in Joiners : Joining(join[i]) => i = j,
             o.pc = "pthread_join" => done = 0,
             o.result = "OK" => handle = "joined",
             o.result = "Aborted" => o.waited = o.giveup
      PROVE  ThreadInv'
  <2>1. TypeOK'
    BY <1>0, <1>1 DEF TypeOK
  <2>2. RefsMatch' /\ Handshake' /\ Handles' /\ Finished'
    BY <1>1 DEF RefsMatch, Handshake, Handles, Finished
  <2>3. join'[j] = o /\ \A i \in Joiners : i # j => join'[i] = join[i]
    BY <1>0, <1>1
  <2>4. Joins'
    BY <1>1, <2>3 DEF Joins, Joining
  <2>. QED  BY <2>1, <2>2, <2>4
<1>. DEFINE o == join[j]
<1>2. CASE JoinBegins(j)
  <2>1. PICK g \in GiveUpAfter :
          join' = [join EXCEPT ![j] = IF joinable THEN [o EXCEPT !.pc = "check", !.giveup = g]
                                      ELSE [o EXCEPT !.pc = "end", !.result = "OK"]]
    BY <1>0, <1>2 DEF JoinBegins
  <2>2. /\ o.pc = "idle" /\ "holder" \in refs /\ ppc = "returned" /\ o.waited = 0
        /\ o.result = "none" /\ \A i \in Joiners : Joining(join[i]) => i = j
    BY <1>2 DEF JoinBegins, Joins, Joining
  <2>3. UNCHANGED <<tid, joinable, done, refs, alive, handle, ppc, cpc, listed, callbacks>>
    BY <1>2 DEF JoinBegins
  <2>4. CASE joinable
    <3>. DEFINE n == [o EXCEPT !.pc = "check", !.giveup = g]
    <3>1. n \in JoinCalls /\ n.pc = "check" /\ n.waited = 0 /\ n.giveup = g /\ n.result = "none"
      BY <1>0, <2>2
    <3>2. join' = [join EXCEPT ![j] = n]
      BY <2>1, <2>4
    <3>3. g # -1 => 0 <= g
      BY ThreadAssumption
    <3>. HIDE DEF n
    <3>. QED  BY <1>1, <2>2, <2>3, <2>4, <3>1, <3>2, <3>3 DEF Joining
  <2>5. CASE ~joinable
    <3>. DEFINE n == [o EXCEPT !.pc = "end", !.result = "OK"]
    <3>1. n \in JoinCalls /\ n.pc = "end" /\ n.result = "OK"
      BY <1>0
    <3>2. join' = [join EXCEPT ![j] = n]
      BY <2>1, <2>5
    <3>3. handle = "joined"
      BY <2>2, <2>5 DEF Handles
    <3>. HIDE DEF n
    <3>. QED  BY <1>1, <2>3, <3>1, <3>2, <3>3 DEF Joining
  <2>. QED  BY <2>4, <2>5
<1>3. CASE Block(j) \/ SeeDone(j)
  <2>1. PICK pc \in {"wait", "pthread_join"} :
          /\ join' = [join EXCEPT ![j].pc = pc]
          /\ pc = "pthread_join" => done = 0
    BY <1>3 DEF Block, SeeDone, LatchOpen
  <2>2. UNCHANGED <<tid, joinable, done, refs, alive, handle, ppc, cpc, listed, callbacks>>
        /\ Joining(o)
    BY <1>3 DEF Block, SeeDone, Joining
  <2>. DEFINE n == [o EXCEPT !.pc = pc]
  <2>3. /\ n \in JoinCalls /\ n.pc = pc /\ n.waited = o.waited /\ n.giveup = o.giveup
        /\ n.result = o.result
    BY <1>0
  <2>4. join' = [join EXCEPT ![j] = n]
    BY <1>0, <2>1
  <2>. HIDE DEF n
  <2>5. /\ n.pc # "idle"
        /\ Joining(n) =>
             /\ "holder" \in refs /\ ppc = "returned" /\ joinable /\ n.result = "none"
             /\ n.giveup # -1 => n.waited <= n.giveup
             /\ \A i \in Joiners : Joining(join[i]) => i = j
        /\ n.pc = "pthread_join" => done = 0
        /\ n.result = "OK" => handle = "joined"
        /\ n.result = "Aborted" => n.waited = n.giveup
    BY <2>1, <2>2, <2>3, <2>4 DEF Joins, Joining
  <2>. QED  BY <1>1, <2>2, <2>3, <2>4, <2>5
<1>4. CASE WaitTimesOut(j)
  <2>. DEFINE waited == o.waited + WaitTime(o)
              n == IF LastWait(o)
                   THEN [o EXCEPT !.waited = waited, !.pc = "end", !.result = "Aborted"]
                   ELSE [o EXCEPT !.waited = waited, !.pc = "check"]
  <2>1. join' = [join EXCEPT ![j] = n]
    BY <1>4 DEF WaitTimesOut
  <2>2. UNCHANGED <<tid, joinable, done, refs, alive, handle, ppc, cpc, listed, callbacks>>
        /\ Joining(o)
    BY <1>4 DEF WaitTimesOut, Joining
  <2>3. /\ waited \in Nat /\ (o.giveup # -1 => waited <= o.giveup)
        /\ LastWait(o) => waited = o.giveup
    BY <1>0, <2>2, LastWaitTime DEF Joins
  <2>. HIDE DEF waited
  <2>4. /\ n \in JoinCalls /\ n.waited = waited /\ n.giveup = o.giveup
        /\ \/ n.pc = "check" /\ n.result = o.result
           \/ n.pc = "end" /\ n.result = "Aborted" /\ LastWait(o)
    BY <1>0, <2>3
  <2>. HIDE DEF n
  <2>5. /\ n.pc # "idle"
        /\ Joining(n) =>
             /\ "holder" \in refs /\ ppc = "returned" /\ joinable /\ n.result = "none"
             /\ n.giveup # -1 => n.waited <= n.giveup
             /\ \A i \in Joiners : Joining(join[i]) => i = j
        /\ n.pc = "pthread_join" => done = 0
        /\ n.result = "OK" => handle = "joined"
        /\ n.result = "Aborted" => n.waited = n.giveup
    BY <2>2, <2>3, <2>4 DEF Joins, Joining
  <2>. QED  BY <1>1, <2>1, <2>2, <2>4, <2>5
<1>5. CASE PthreadJoin(j)
  <2>1. /\ join' = [join EXCEPT ![j] = [o EXCEPT !.pc = "end", !.result = "OK"]]
        /\ cpc = "exited" /\ handle' = "joined" /\ joinable' = FALSE
        /\ UNCHANGED <<tid, done, refs, alive, ppc, cpc, listed, callbacks>>
    BY <1>0, <1>5 DEF PthreadJoin
  <2>2. /\ "holder" \in refs /\ ppc = "returned" /\ o.result = "none"
        /\ \A i \in Joiners : Joining(join[i]) => i = j
    BY <1>5 DEF PthreadJoin, Joins, Joining
  <2>. DEFINE n == [o EXCEPT !.pc = "end", !.result = "OK"]
  <2>3. n \in JoinCalls /\ n.pc = "end" /\ n.result = "OK"
    BY <1>0
  <2>4. join' = [join EXCEPT ![j] = n]
    BY <2>1
  <2>. HIDE DEF n
  <2>5. join'[j] = n /\ \A i \in Joiners : i # j => join'[i] = join[i]
    BY <1>0, <2>4
  <2>6. TypeOK'
    <3>1. joinable' \in BOOLEAN
      BY <2>1
    <3>2. join' \in [Joiners -> JoinCalls]
      BY <1>0, <2>3, <2>4
    <3>. QED  BY <2>1, <3>1, <3>2 DEF TypeOK
  <2>7. RefsMatch' /\ Handshake' /\ Handles' /\ Finished'
    BY <2>1, <2>2 DEF RefsMatch, Handshake, Handles, Finished
  <2>8. Joins'
    BY <2>1, <2>2, <2>3, <2>5 DEF Joins, Joining
  <2>. QED  BY <2>6, <2>7, <2>8
<1>. QED  BY <1>2, <1>3, <1>4, <1>5 DEF JoinNext


LEMMA ThreadInvariant == ThreadInv /\ [Next]_vars => ThreadInv'
BY ThreadStep, JoinStep DEF Next

LEMMA ThreadSafe == ThreadInv => NoUseAfterFree /\ JoinContract
<1>. SUFFICES ASSUME ThreadInv PROVE NoUseAfterFree /\ JoinContract
  OBVIOUS
<1>. USE DEF ThreadInv
<1>1. refs = {} => /\ ppc \in {"returned", "failed"} /\ cpc \in {"none", "exited"}
                   /\ \A j \in Joiners : join[j].pc \in {"idle", "end"}
  <2>. SUFFICES ASSUME refs = {}
                PROVE  /\ ppc \in {"returned", "failed"} /\ cpc \in {"none", "exited"}
                       /\ \A j \in Joiners : join[j].pc \in {"idle", "end"}
    OBVIOUS
  <2>1. ppc \in {"returned", "failed"}
    BY DEF RefsMatch, TypeOK
  <2>2. cpc \in {"none", "exited"}
    BY <2>1 DEF RefsMatch, Handshake, TypeOK, ChildPCs
  <2>3. \A j \in Joiners : join[j].pc \in {"idle", "end"}
    BY DEF Joins, Joining, TypeOK
  <2>. QED  BY <2>1, <2>2, <2>3
<1>2. NoUseAfterFree
  BY <1>1 DEF NoUseAfterFree, RefsMatch
<1>3. JoinContract
  <2>. SUFFICES ASSUME NEW j \in Joiners
                PROVE  /\ join[j].result = "OK" =>
                            /\ cpc = "exited" /\ ~listed /\ callbacks.run = callbacks.added
                            /\ handle = "joined"
                       /\ join[j].result = "Aborted" => join[j].waited = join[j].giveup
    BY DEF JoinContract
  <2>1. handle = "joined" => cpc = "exited" /\ ~listed /\ callbacks.run = callbacks.added
    BY DEF Handles, Finished
  <2>. QED  BY <2>1 DEF Joins
<1>. QED  BY <1>2, <1>3

LEMMA ThreadHandles ==
  ThreadInv => /\ ~alive => handle # "open"
               /\ \A j \in Joiners :
                    join[j].pc \in {"check", "wait", "pthread_join"} => handle = "open"
<1>. SUFFICES ASSUME ThreadInv
              PROVE  /\ ~alive => handle # "open"
                     /\ \A j \in Joiners :
                          join[j].pc \in {"check", "wait", "pthread_join"} => handle = "open"
  OBVIOUS
<1>1. ~alive => handle # "open"
  <2>1. refs = {} => ppc \in {"returned", "failed"}
    BY DEF ThreadInv, RefsMatch, TypeOK
  <2>. QED  BY <2>1 DEF ThreadInv, RefsMatch, Handles
<1>2. \A j \in Joiners : Joining(join[j]) => handle = "open"
  BY DEF ThreadInv, Joins, Handles, TypeOK
<1>. QED  BY <1>1, <1>2 DEF Joining

LEMMA HandleStays ==
  ThreadInv /\ [Next]_vars =>
    [(handle \in {"joined", "detached"}) => (handle' = handle)]_vars
<1>. SUFFICES ASSUME ThreadInv, Next, handle \in {"joined", "detached"}
              PROVE  handle' = handle
  OBVIOUS
<1>. USE DEF ThreadInv
<1>1. CASE CreatePthread
  BY <1>1 DEF CreatePthread, Handles
<1>2. \A r \in refs : DropRef(r, handle) => handle' = handle
  <2>1. refs # {} => ~joinable
    BY DEF Handles, TypeOK
  <2>. QED  BY <2>1 DEF DropRef
<1>3. CASE StartReturns
  BY <1>2, <1>3 DEF StartReturns, RefsMatch
<1>4. CASE DropHolder
  BY <1>2, <1>4 DEF DropHolder
<1>5. CASE ChildExits
  BY <1>2, <1>5 DEF ChildExits, ChildStep, RefsMatch
<1>6. ASSUME NEW j \in Joiners PROVE ~PthreadJoin(j)
  BY ThreadHandles DEF PthreadJoin
<1>. QED
  BY <1>1, <1>3, <1>4, <1>5, <1>6
  DEF Next, ParentNext, ChildNext, JoinNext, PublishThread, ReleaseChild, TakeReference,
      SeeParent, PublishTid, AddThread, CallAtExit, FunctorEnds, RunCallbacks, RemoveThread,
      CountDown, JoinBegins, Block, SeeDone, WaitTimesOut

-----------------------------------------------------------------------------
(* A step of the composition is a step of one part and leaves the others   *)
(* alone.                                                                  *)
LEMMA OsSteps ==
  [OsNext]_OsVars =>
    /\ [Next]_vars /\ [AcceptorNext]_acceptorVars /\ [SubprocessNext]_subprocessVars
    /\ [WritableNext]_writableVars /\ [RWFileNext]_rwFileVars
BY DEF OsNext, OsVars

LEMMA OsIsInvariant ==
  OsSpec => [](ThreadInv /\ AcceptorInv /\ SubprocessInv /\ WritableInv /\ NoOrphanedWrite)
<1>. DEFINE I == ThreadInv /\ AcceptorInv /\ SubprocessInv /\ WritableInv /\ NoOrphanedWrite
<1>1. OsInit => I
  BY ThreadInitial, AcceptorInitial, SubprocessInitial, WritableInitial, RWFileInitial
  DEF OsInit
<1>2. I /\ [OsNext]_OsVars => I'
  BY OsSteps, ThreadInvariant, AcceptorInvariant, SubprocessInvariant, WritableInvariant,
     RWFileInvariant
<1>. QED  BY <1>1, <1>2, PTL DEF OsSpec

(* The Thread object outlives everybody who uses it: parent, child and     *)
(* joiners.                                                                *)
THEOREM ThreadOutlivesUsers == OsSpec => []NoUseAfterFree
BY OsIsInvariant, ThreadSafe, PTL

(* Join() returns OK only when the thread is entirely over, and Aborted    *)
(* only after exactly give_up_after_ms_, for every setting of the times.   *)
THEOREM JoinCorrect == OsSpec => []JoinContract
BY OsIsInvariant, ThreadSafe, PTL

(* The pthread is given up once, by the joiner or by the destructor.       *)
THEOREM HandleCorrect == OsSpec => HandleReleasedOnce
<1>1. OsSpec => []((~alive) => (handle # "open"))
  BY OsIsInvariant, ThreadHandles, PTL
<1>2. OsSpec => [](\A j \in Joiners :
          (join[j].pc \in {"check", "wait", "pthread_join"}) => (handle = "open"))
  BY OsIsInvariant, ThreadHandles, PTL
<1>3. OsSpec => [][(handle \in {"joined", "detached"}) => (handle' = handle)]_vars
  BY OsIsInvariant, OsSteps, HandleStays, PTL DEF OsSpec
<1>. QED  BY <1>1, <1>2, <1>3, PTL DEF HandleReleasedOnce

(* No acceptor thread outlives its pool, for any number of threads and of  *)
(* callers of Shutdown().                                                  *)
THEOREM AcceptorsCorrect == OsSpec => []NoThreadOutlivesPool
BY OsIsInvariant, AcceptorsGone, PTL

(* A Subprocess whose calls succeeded leaves no child and no descriptor,   *)
(* for any set of streams.                                                 *)
THEOREM SubprocessCorrect == OsSpec => []NothingLeftBehind
BY OsIsInvariant, SubprocessClean, PTL

(* What Sync() of a WritableFile vouched for is durable, until a sync has  *)
(* failed, through crashes of the process and of the machine.              *)
THEOREM SyncCorrect == OsSpec => []SyncedIsDurable
BY OsIsInvariant, WritableDurable, PTL

(* A Close() that returns OK has given back all preallocated space.        *)
THEOREM CloseCorrect == OsSpec => ClosedFileIsTrimmed
BY OsIsInvariant, WritableTrimmed, PTL DEF ClosedFileIsTrimmed

(* No completed Write() of an RWFile is forgotten by pending_sync_, for    *)
(* any number of threads that write and sync.                              *)
THEOREM RWFileCorrect == OsSpec => []NoOrphanedWrite
BY OsIsInvariant, PTL

=============================================================================
