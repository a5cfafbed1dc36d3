------------------------------ MODULE MCThread ------------------------------
(***************************************************************************)
(* What the program keeps of the operating system, for TLC: its threads,   *)
(* the acceptor threads of a pool, child processes and files.  They share  *)
(* no state, so a behaviour is about one of them, the subject.             *)
(*                                                                         *)
(* The limits of a join fall before, on and after the first warning (at 2) *)
(* and on a later one (at 5); 0 is a poll; -1 waits for ever.              *)
(***************************************************************************)
EXTENDS Thread, AcceptorPool, Subprocess, WritableFile, RWFile

VARIABLE subject

MCGiveUpAfter == {-1, 0, 1, 2, 4, 5}

OsVars == <<subject, vars, acceptorVars, subprocessVars, writableVars, rwFileVars>>

OsInit ==
  /\ subject \in {"thread", "acceptor", "subprocess", "writable", "rwfile"}
  /\ Init /\ AcceptorInit /\ SubprocessInit /\ WritableInit /\ RWFileInit

OsNext ==
  /\ UNCHANGED subject
  /\ \/ /\ subject = "thread" /\ Next
        /\ UNCHANGED <<acceptorVars, subprocessVars, writableVars, rwFileVars>>
     \/ /\ subject = "acceptor" /\ AcceptorNext
        /\ UNCHANGED <<vars, subprocessVars, writableVars, rwFileVars>>
     \/ /\ subject = "subprocess" /\ SubprocessNext
        /\ UNCHANGED <<vars, acceptorVars, writableVars, rwFileVars>>
     \/ /\ subject = "writable" /\ WritableNext
        /\ UNCHANGED <<vars, acceptorVars, subprocessVars, rwFileVars>>
     \/ /\ subject = "rwfile" /\ RWFileNext
        /\ UNCHANGED <<vars, acceptorVars, subprocessVars, writableVars>>

(* Both ends of a new thread run and time passes for a joiner; the functor *)
(* need not end, and no owner has to drop the thread or join it.           *)
OsSpec ==
  /\ OsInit /\ [][OsNext]_OsVars
  /\ WF_vars(ppc # "create" /\ ParentNext) /\ WF_vars(ChildNext)
  /\ \A j \in Joiners : WF_vars(JoinNext(j))

=============================================================================
