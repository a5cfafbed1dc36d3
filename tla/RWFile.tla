------------------------------- MODULE RWFile -------------------------------
(***************************************************************************)
(* PosixRWFile of base/env_posix.cc, used by several threads at once.  One *)
(* step is one system call or one access to pending_sync_.                 *)
(*                                                                         *)
(* A change is the data the thread t wrote last, named t, or a change to   *)
(* the length and layout of the file, named "size".  What fdatasync()      *)
(* makes durable is what was dirty when it began.                          *)
(***************************************************************************)
EXTENDS Naturals

CONSTANT FileThreads \* threads that share the file

ASSUME RWFileAssumption == "size" \notin FileThreads

VARIABLES
  rwpending,  \* pending_sync_
  rwsoc,      \* sync_on_close_
  closed_,
  fpc,        \* where each thread is
  dirty,      \* changes that are not durable
  complete,   \* changes whose call has returned OK
  covers,     \* what each running fdatasync() will make durable
  owed,       \* what each running Sync() has to make durable
  rwSyncFailed

rwFileVars == <<rwpending, rwsoc, closed_, fpc, dirty, complete, covers, owed, rwSyncFailed>>

Changes == FileThreads \cup {"size"}

RWFileTypeOK ==
  /\ {rwpending, rwsoc, closed_, rwSyncFailed} \subseteq BOOLEAN
  /\ fpc \in [FileThreads -> {"idle", "written", "sync", "fdatasync", "flushing", "synced"}]
  /\ dirty \cup complete \subseteq Changes
  /\ {covers, owed} \subseteq [FileThreads -> SUBSET Changes]

RWFileInit ==
  /\ rwpending = FALSE /\ rwsoc \in BOOLEAN /\ closed_ = FALSE /\ rwSyncFailed = FALSE
  /\ fpc = [t \in FileThreads |-> "idle"] /\ dirty = {} /\ complete = {}
  /\ covers = [t \in FileThreads |-> {}] /\ owed = [t \in FileThreads |-> {}]

FileGoto(t, from, to) == ~closed_ /\ fpc[t] = from /\ fpc' = [fpc EXCEPT ![t] = to]

(* A new change c: no fdatasync() under way covers it. *)
Changed(c) ==
  /\ dirty' = dirty \cup {c}
  /\ covers' = [t \in FileThreads |-> covers[t] \ {c}]
  /\ owed' = [t \in FileThreads |-> owed[t] \ {c}]

-----------------------------------------------------------------------------
(* Write(): pwrite() of all of the data, or of a part of it, after which   *)
(* Write() returns an error before it has set the flag.                    *)
Pwrite(t) ==
  /\ \/ FileGoto(t, "idle", "written")
     \/ FileGoto(t, "idle", "idle")
  /\ Changed(t) /\ complete' = complete \ {t}
  /\ UNCHANGED <<rwpending, rwsoc, closed_, rwSyncFailed>>

StorePending(t) ==
  /\ FileGoto(t, "written", "idle")
  /\ rwpending' = TRUE /\ complete' = complete \cup {t}
  /\ UNCHANGED <<rwsoc, closed_, dirty, covers, owed, rwSyncFailed>>

(* Truncate(), PunchHole() and PreAllocate(): one system call, no flag. *)
ChangeLayout(t) ==
  /\ FileGoto(t, "idle", "idle")
  /\ Changed("size") /\ complete' = complete \cup {"size"}
  /\ UNCHANGED <<rwpending, rwsoc, closed_, rwSyncFailed>>

(* Sync(): the call, the compare-and-swap, and DoSync(). *)
CallSync(t) ==
  /\ FileGoto(t, "idle", "sync")
  /\ owed' = [owed EXCEPT ![t] = dirty \cap complete]
  /\ UNCHANGED <<rwpending, rwsoc, closed_, dirty, complete, covers, rwSyncFailed>>

SyncCas(t) ==
  /\ FileGoto(t, "sync", IF rwpending THEN "fdatasync" ELSE "synced")
  /\ rwpending' = FALSE
  /\ UNCHANGED <<rwsoc, closed_, dirty, complete, covers, owed, rwSyncFailed>>

BeginFdatasync(t) ==
  /\ FileGoto(t, "fdatasync", "flushing")
  /\ covers' = [covers EXCEPT ![t] = dirty]
  /\ UNCHANGED <<rwpending, rwsoc, closed_, dirty, complete, owed, rwSyncFailed>>

(* Fault: the flag is cleared when fdatasync() is done. *)
PendingAfterSync_Cleared == FALSE

(* Sync() leaves the flag alone after fdatasync(). *)
PendingAfterSync == rwpending

EndFdatasync(t) ==
  /\ \/ /\ FileGoto(t, "flushing", "synced")
        /\ dirty' = dirty \ covers[t]
        /\ UNCHANGED <<owed, rwSyncFailed>>
     \/ /\ FileGoto(t, "flushing", "idle")
        /\ rwSyncFailed' = TRUE /\ owed' = [owed EXCEPT ![t] = {}]
        /\ UNCHANGED dirty
  /\ rwpending' = PendingAfterSync
  /\ covers' = [covers EXCEPT ![t] = {}]
  /\ UNCHANGED <<rwsoc, closed_, complete>>

(* Sync() returns OK. *)
SyncReturns(t) ==
  /\ FileGoto(t, "synced", "idle")
  /\ owed' = [owed EXCEPT ![t] = {}]
  /\ UNCHANGED <<rwpending, rwsoc, closed_, dirty, complete, covers, rwSyncFailed>>

(* Close(), and the destructor: no other call may be running. *)
CloseRWFile ==
  /\ ~closed_ /\ closed_' = TRUE
  /\ \A t \in FileThreads : fpc[t] = "idle"
  /\ \/ ~(rwsoc /\ rwpending) /\ UNCHANGED <<rwpending, dirty, rwSyncFailed>>
     \/ rwsoc /\ rwpending /\ rwpending' = FALSE
        /\ \/ dirty' = {} /\ UNCHANGED rwSyncFailed
           \/ rwSyncFailed' = TRUE /\ UNCHANGED dirty
  /\ UNCHANGED <<rwsoc, fpc, complete, covers, owed>>

RWFileNext ==
  \/ CloseRWFile
  \/ \E t \in FileThreads :
       \/ Pwrite(t) \/ StorePending(t) \/ ChangeLayout(t) \/ CallSync(t) \/ SyncCas(t)
       \/ BeginFdatasync(t) \/ EndFdatasync(t) \/ SyncReturns(t)

RWFileSpec == RWFileInit /\ [][RWFileNext]_rwFileVars

-----------------------------------------------------------------------------
(* The data of a Write() that has returned OK are durable, or the flag is  *)
(* up so that the next Sync() will see to them, or a sync that covers them *)
(* is on its way: pending_sync_ goes down before fdatasync(), and a write  *)
(* between the two must not be taken for synced.  This ends with the first *)
(* failed sync.                                                            *)
NoOrphanedWrite ==
  /\ RWFileTypeOK
  /\ (dirty \cap complete \cap FileThreads # {} /\ ~rwSyncFailed) =>
       \/ rwpending
       \/ \E t \in FileThreads : fpc[t] = "fdatasync"
       \/ \E t \in FileThreads : dirty \cap complete \cap FileThreads \subseteq covers[t]

(* env.h of RWFile::Sync(): "Upon returning successfully, all previously   *)
(* issued file changes have been made durable."  Truncate(), PunchHole()   *)
(* and PreAllocate() never set pending_sync_.                              *)
SyncReturnsDurable ==
  \A t \in FileThreads : fpc[t] = "synced" => owed[t] \cap dirty = {}

=============================================================================
