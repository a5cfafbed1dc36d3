---------------------------- MODULE WritableFile ----------------------------
(***************************************************************************)
(* PosixWritableFile of base/env_posix.cc over a file that outlives it.    *)
(*                                                                         *)
(* A file is its length and the length of its durable prefix: appending,   *)
(* truncating and syncing never need more.  A process crash loses the      *)
(* object; a machine crash also loses what is not durable.                 *)
(***************************************************************************)
EXTENDS Integers

CONSTANT MaxLength \* bound on the length of the file

ASSUME WritableAssumption == MaxLength \in Nat

VARIABLES
  fd_,                 \* "none", "open", then Close()'s "truncated", "synced"
  filesize_, pre_allocated_size_, pending_sync_, sync_on_close_,
  status,              \* the status Close() will return is still OK
  length, durable,     \* the file: st_size and the prefix that survives
  base,                \* filesize_ when the object was made
  promised,            \* prefix that an OK Sync() has vouched for
  syncFailed           \* a sync has failed and the kernel may have let go
                       \* of the pages

object == <<fd_, filesize_, pre_allocated_size_, pending_sync_, sync_on_close_, status, base>>
writableVars == <<object, length, durable, promised, syncFailed>>

Lengths == 0 .. MaxLength

WritableTypeOK ==
  /\ fd_ \in {"none", "open", "truncated", "synced"}
  /\ {filesize_, length, durable, base, promised} \subseteq Lengths
  /\ pre_allocated_size_ \in Nat
  /\ {pending_sync_, sync_on_close_, status, syncFailed} \subseteq BOOLEAN
  /\ durable <= length

WritableInit ==
  /\ fd_ = "none" /\ filesize_ = 0 /\ pre_allocated_size_ = 0 /\ base = 0
  /\ pending_sync_ = FALSE /\ sync_on_close_ = FALSE /\ status = TRUE
  /\ length = 0 /\ durable = 0 /\ promised = 0 /\ syncFailed = FALSE

Lower(a, b) == IF a < b THEN a ELSE b
Higher(a, b) == IF a < b THEN b ELSE a

-----------------------------------------------------------------------------
(* DoOpen() and InstantiateNewWritableFile(): the size of an existing file *)
(* is what stat() says, space preallocated before a crash included.        *)
Construct(size, soc) ==
  /\ fd_ = "none" /\ fd_' = "open"
  /\ filesize_' = size /\ base' = size /\ pre_allocated_size_' = 0
  /\ pending_sync_' = FALSE /\ sync_on_close_' = soc /\ status' = TRUE

OpenExisting == \E soc \in BOOLEAN : Construct(length, soc)
                                     /\ UNCHANGED <<length, durable, promised, syncFailed>>

OpenTruncate ==
  /\ \E soc \in BOOLEAN : Construct(0, soc)
  /\ length' = 0 /\ durable' = 0 /\ promised' = 0 /\ syncFailed' = FALSE

(* Fault: an append that failed is not synced, though it may have written. *)
PendingAfterAppend_OnlyOk(ok) == pending_sync_ \/ ok

(* AppendVector(): pwritev() at filesize_ writes some prefix of the data,  *)
(* all of it, or fails; the flag is set in each case.                      *)
PendingAfterAppend(ok) == TRUE

AppendVector ==
  /\ fd_ = "open"
  /\ \E n \in 0 .. 2, ok \in BOOLEAN :
       /\ filesize_ + n <= MaxLength
       /\ filesize_' = filesize_ + n
       /\ length' = Higher(length, filesize_ + n)
       /\ durable' = IF n = 0 THEN durable ELSE Lower(durable, filesize_)
       /\ pending_sync_' = PendingAfterAppend(ok)
  /\ UNCHANGED <<fd_, pre_allocated_size_, sync_on_close_, status, base, promised, syncFailed>>

(* Fault: space that is already reserved is forgotten. *)
AllocationOffset_IgnoresReserved == filesize_

(* PreAllocate(): fallocate() extends the file, or is not supported, which *)
(* counts as success; another error returns early and changes nothing.     *)
AllocationOffset == Higher(filesize_, pre_allocated_size_)

PreAllocate ==
  /\ fd_ = "open"
  /\ \E size \in 1 .. 2, supported \in BOOLEAN :
       LET end == AllocationOffset + size IN
       /\ end <= MaxLength
       /\ length' = IF supported THEN Higher(length, end) ELSE length
       /\ pre_allocated_size_' = end
  /\ UNCHANGED <<fd_, filesize_, pending_sync_, sync_on_close_, status, base,
                 durable, promised, syncFailed>>

(* Sync(): the flag goes down before fdatasync() is known to succeed. *)
Vouch == IF filesize_ > base THEN Higher(promised, filesize_) ELSE promised

DoSync(ok) ==
  /\ pending_sync_' = FALSE
  /\ IF ~pending_sync_
     THEN ok /\ promised' = Vouch /\ UNCHANGED <<durable, syncFailed>>
     ELSE IF ok THEN durable' = length /\ promised' = Vouch /\ UNCHANGED syncFailed
                ELSE syncFailed' = TRUE /\ UNCHANGED <<durable, promised>>

Sync ==
  /\ fd_ = "open" /\ \E ok \in BOOLEAN : DoSync(ok)
  /\ UNCHANGED <<fd_, filesize_, pre_allocated_size_, sync_on_close_, status, base, length>>

(* Close(), one system call at a time: ftruncate(), Sync(), close(). *)
CloseTruncate ==
  /\ fd_ = "open" /\ fd_' = "truncated"
  /\ \/ /\ filesize_ < pre_allocated_size_
        /\ \/ /\ length' = filesize_ /\ durable' = Lower(durable, filesize_)
              /\ UNCHANGED <<pending_sync_, status>>
           \/ pending_sync_' = TRUE /\ status' = FALSE /\ UNCHANGED <<length, durable>>
     \/ /\ filesize_ >= pre_allocated_size_
        /\ UNCHANGED <<length, durable, pending_sync_, status>>
  /\ UNCHANGED <<filesize_, pre_allocated_size_, sync_on_close_, base, promised, syncFailed>>

CloseSync ==
  /\ fd_ = "truncated" /\ fd_' = "synced"
  /\ IF sync_on_close_
     THEN \E ok \in BOOLEAN : DoSync(ok) /\ status' = (status /\ ok)
     ELSE UNCHANGED <<pending_sync_, status, durable, promised, syncFailed>>
  /\ UNCHANGED <<filesize_, pre_allocated_size_, sync_on_close_, base, length>>

CloseFd ==
  /\ fd_ = "synced" /\ fd_' = "none"
  /\ \E ok \in BOOLEAN : status' = (status /\ ok)
  /\ UNCHANGED <<filesize_, pre_allocated_size_, pending_sync_, sync_on_close_, base,
                 length, durable, promised, syncFailed>>

(* Writeback by the kernel, which Flush() only hastens. *)
Writeback ==
  /\ ~syncFailed /\ durable' \in durable .. length
  /\ UNCHANGED <<object, length, promised, syncFailed>>

ProcessCrash ==
  /\ fd_ # "none" /\ fd_' = "none" /\ status' = FALSE
  /\ UNCHANGED <<filesize_, pre_allocated_size_, pending_sync_, sync_on_close_, base,
                 length, durable, promised, syncFailed>>

MachineCrash ==
  /\ fd_' = "none" /\ status' = FALSE
  /\ length' \in durable .. length /\ durable' = length'
  /\ promised' = Lower(promised, length')
  /\ UNCHANGED <<filesize_, pre_allocated_size_, pending_sync_, sync_on_close_, base,
                 syncFailed>>

WritableNext ==
  \/ OpenExisting \/ OpenTruncate \/ AppendVector \/ PreAllocate \/ Sync
  \/ CloseTruncate \/ CloseSync \/ CloseFd \/ Writeback \/ ProcessCrash \/ MachineCrash

-----------------------------------------------------------------------------
(* Unless a sync has failed, a Sync() that returned OK, also the one in    *)
(* Close(), has made everything appended through the object durable, short *)
(* and failed appends included.  After a failed sync the next one returns  *)
(* OK without having tried: the flag is already down.                      *)
SyncedIsDurable == WritableTypeOK /\ (syncFailed \/ promised <= durable)

(* Once Close() has returned OK the file ends where the appended data end: *)
(* whatever was preallocated in however many calls is given back.          *)
ClosedFileIsTrimmed ==
  [][CloseFd /\ status' => length = filesize_]_writableVars

=============================================================================
