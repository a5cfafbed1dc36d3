----------------------------- MODULE Subprocess -----------------------------
(***************************************************************************)
(* bb::Subprocess of base/process/subprocess.cc: the object in the parent, *)
(* its child process, and the descriptors both hold.  A step is a system   *)
(* call, or several in a row whose order nobody can tell.                  *)
(*                                                                         *)
(* For each stream that is piped the parent has its end and, until it      *)
(* closes it, the child's.  The synchronization pipe carries no data: what *)
(* counts is who still holds its write end.                                *)
(***************************************************************************)
EXTENDS Naturals

CONSTANTS
  Streams,  \* the standard streams
  MaxStarts \* bound on the calls of Start()

ASSUME SubprocessAssumption == MaxStarts \in Nat

VARIABLES
  state_,        \* "kNotStarted", "kRunning", "kExited", or "destroyed"
  stpc,          \* where Start() is, "wait" in the destructor, or "idle"
  fd_state_,     \* the streams that are PIPED
  child_fds_,    \* the streams whose parent end the object owns
  parentFds,     \* descriptors the parent has open
  syncHolders,   \* processes that hold the write end of the sync pipe
  child,         \* "none", "forked", "closed" (descriptors), "running", "zombie"
  strays,        \* children that are no longer the object's and not reaped
  starts,
  failed         \* a Start(), or the destructor's Wait(), has failed

subprocessVars == <<state_, stpc, fd_state_, child_fds_, parentFds, syncHolders, child,
                    strays, starts, failed>>

Own(s) == <<s, "parent">>
Theirs(s) == <<s, "child">>
Pipes(S) == {Own(s) : s \in S} \cup {Theirs(s) : s \in S}

SubprocessTypeOK ==
  /\ state_ \in {"kNotStarted", "kRunning", "kExited", "destroyed"}
  /\ stpc \in {"idle", "piped", "forked", "read", "wait"}
  /\ fd_state_ \subseteq Streams /\ child_fds_ \subseteq fd_state_
  /\ parentFds \subseteq Pipes(Streams \cup {"sync"}) /\ syncHolders \subseteq {"parent", "child"}
  /\ child \in {"none", "forked", "closed", "running", "zombie"}
  /\ strays \in 0 .. MaxStarts /\ starts \in 0 .. MaxStarts /\ failed \in BOOLEAN

SubprocessInit ==
  /\ state_ = "kNotStarted" /\ stpc = "idle" /\ fd_state_ \in SUBSET Streams
  /\ child_fds_ = {} /\ parentFds = {} /\ syncHolders = {} /\ child = "none"
  /\ strays = 0 /\ starts = 0 /\ failed = FALSE

-----------------------------------------------------------------------------
(* Start() up to the fork: a pipe for each piped stream and the sync pipe. *)
StartPipes ==
  /\ state_ = "kNotStarted" /\ stpc = "idle" /\ starts < MaxStarts
  /\ stpc' = "piped" /\ starts' = starts + 1
  /\ parentFds' = parentFds \cup Pipes(fd_state_ \cup {"sync"})
  /\ syncHolders' = {"parent"}
  /\ UNCHANGED <<state_, fd_state_, child_fds_, child, strays, failed>>

(* The directory of descriptors cannot be opened, or fork() fails: Start() *)
(* returns and the pipes stay open.                                        *)
StartFails ==
  /\ stpc = "piped" /\ stpc' = "idle" /\ failed' = TRUE
  /\ UNCHANGED <<state_, fd_state_, child_fds_, parentFds, syncHolders, child, strays, starts>>

Fork ==
  /\ stpc = "piped" /\ stpc' = "forked"
  /\ child' = "forked" /\ syncHolders' = {"parent", "child"}
  /\ strays' = IF child = "none" THEN strays ELSE strays + 1
  /\ UNCHANGED <<state_, fd_state_, child_fds_, parentFds, starts, failed>>

(* The parent closes the ends that are the child's, keeps its own, and     *)
(* closes its write end of the sync pipe.                                  *)
ClosedByParent == {Theirs(s) : s \in fd_state_ \cup {"sync"}}

ParentCloses ==
  /\ stpc = "forked" /\ stpc' = "read"
  /\ parentFds' = parentFds \ ClosedByParent
  /\ child_fds_' = fd_state_
  /\ syncHolders' = syncHolders \ {"parent"}
  /\ UNCHANGED <<state_, fd_state_, child, strays, starts, failed>>

(* read() returns 0 once nobody holds the write end. *)
ReadEof ==
  /\ stpc = "read" /\ syncHolders = {} /\ stpc' = "idle"
  /\ parentFds' = parentFds \ {Own("sync")} /\ state_' = "kRunning"
  /\ UNCHANGED <<fd_state_, child_fds_, syncHolders, child, strays, starts, failed>>

(* read() fails: Start() returns an error and state_ is still kNotStarted. *)
ReadError ==
  /\ stpc = "read" /\ stpc' = "idle" /\ failed' = TRUE
  /\ parentFds' = parentFds \ {Own("sync")}
  /\ UNCHANGED <<state_, fd_state_, child_fds_, syncHolders, child, strays, starts>>

-----------------------------------------------------------------------------
(* The child: CloseNonStandardFDs() closes what fd_dir lists, but for the  *)
(* standard streams.  The directory was opened before the fork, so it is   *)
(* the parent's descriptors that it lists: the write end of the sync pipe  *)
(* is among them as long as the parent has not closed its own.             *)
CloseNonStandardFDs ==
  /\ child = "forked" /\ child' = "closed"
  /\ syncHolders' = IF "parent" \in syncHolders THEN syncHolders \ {"child"} ELSE syncHolders
  /\ UNCHANGED <<state_, stpc, fd_state_, child_fds_, parentFds, strays, starts, failed>>

(* Then it resets signals, sets the environment and calls execvp(), which  *)
(* closes what is left, and exits if that fails.                           *)
Execvp ==
  /\ child = "closed" /\ child' \in {"running", "zombie"}
  /\ syncHolders' = syncHolders \ {"child"}
  /\ UNCHANGED <<state_, stpc, fd_state_, child_fds_, parentFds, strays, starts, failed>>

(* The child ends, by itself or by a signal, at any time. *)
ChildEnds ==
  /\ child \in {"forked", "closed", "running"} /\ child' = "zombie"
  /\ syncHolders' = syncHolders \ {"child"}
  /\ UNCHANGED <<state_, stpc, fd_state_, child_fds_, parentFds, strays, starts, failed>>

-----------------------------------------------------------------------------
(* DoWait(), blocking or not, on a child that has ended.  On one that has  *)
(* not it blocks, or returns TimedOut; an interrupted call is an error.    *)
DoWait ==
  /\ state_ = "kRunning" /\ stpc = "idle" /\ child = "zombie"
  /\ child' = "none" /\ state_' = "kExited"
  /\ UNCHANGED <<stpc, fd_state_, child_fds_, parentFds, syncHolders, strays, starts,
                 failed>>

(* ReleaseChildFd(): the caller owns the descriptor now, and closes it. *)
ReleaseChildFd(s) ==
  /\ state_ = "kRunning" /\ stpc = "idle" /\ s \in child_fds_
  /\ child_fds_' = child_fds_ \ {s} /\ parentFds' = parentFds \ {Own(s)}
  /\ UNCHANGED <<state_, stpc, fd_state_, syncHolders, child, strays, starts, failed>>

(* Fault: a child that has ended by itself is left a zombie. *)
MustReap_IfAlive == state_ = "kRunning" /\ child # "zombie"

(* The destructor: Kill(SIGKILL) and Wait() if the child is kRunning ... *)
MustReap == state_ = "kRunning"

DestructorKills ==
  /\ stpc = "idle" /\ state_ # "destroyed" /\ MustReap /\ stpc' = "wait"
  /\ child' = "zombie" /\ syncHolders' = syncHolders \ {"child"}
  /\ UNCHANGED <<state_, fd_state_, child_fds_, parentFds, strays, starts, failed>>

(* ... and then the pipes, also when waitpid() was interrupted. *)
DestructorCloses ==
  /\ \/ stpc = "wait" /\ child = "zombie" /\ child' = "none" /\ UNCHANGED failed
     \/ stpc = "wait" /\ UNCHANGED child /\ failed' = TRUE
     \/ stpc = "idle" /\ state_ # "destroyed" /\ ~MustReap /\ UNCHANGED <<child, failed>>
  /\ stpc' = "idle" /\ state_' = "destroyed"
  /\ parentFds' = parentFds \ {Own(s) : s \in child_fds_ \cap fd_state_}
  /\ child_fds_' = {}
  /\ UNCHANGED <<fd_state_, syncHolders, strays, starts>>

SubprocessNext ==
  \/ StartPipes \/ StartFails \/ Fork \/ ParentCloses \/ ReadEof \/ ReadError
  \/ CloseNonStandardFDs \/ Execvp \/ ChildEnds
  \/ DoWait \/ (\E s \in Streams : ReleaseChildFd(s)) \/ DestructorKills \/ DestructorCloses

SubprocessSpec == SubprocessInit /\ [][SubprocessNext]_subprocessVars

-----------------------------------------------------------------------------
(* An object whose calls succeeded leaves nothing behind, whenever it is   *)
(* destroyed and however far the child has got: no child that runs or is a *)
(* zombie, and no descriptor.  After a failed Start() it may leave both,   *)
(* as state_ does not say that there are pipes or a child, and a zombie    *)
(* after an interrupted waitpid().                                         *)
NothingLeftBehind ==
  /\ SubprocessTypeOK
  /\ (state_ = "destroyed" /\ ~failed) =>
       child = "none" /\ strays = 0 /\ parentFds = {}

(* subprocess.cc: "this trick is to make sure the parent returns control   *)
(* only after the child process has invoked execvp()."  It does not when   *)
(* the child reads fd_dir before the parent has closed its write end.      *)
StartReturnsAfterExec ==
  state_ = "kRunning" => child \notin {"forked", "closed"}

=============================================================================
