---------------------------- MODULE AcceptorPool ----------------------------
(***************************************************************************)
(* rpc::AcceptorPool of rpc/acceptor_pool.cc.  The owner starts and        *)
(* destroys the pool, any of the callers may shut it down meanwhile.  As   *)
(* with every C++ object, the owner destroys it only while no call is      *)
(* running.  Thread::Create() and Join() are the Thread module's.          *)
(***************************************************************************)
EXTENDS Naturals

CONSTANTS
  Acceptors,     \* threads Start() creates
  Callers,       \* threads that call Shutdown()
  Owner,         \* the caller that owns the pool
  MaxConnections \* bound on connections that arrive

ASSUME AcceptorAssumption == Owner \in Callers /\ MaxConnections \in Nat

VARIABLES
  closing_,
  listening,   \* "no", "yes", or "shutdown": the socket
  threads_,    \* the threads of the vector
  apc,         \* each acceptor: "none", "accept", "failed", "accepted", "exited"
  callpc,      \* each caller: "idle", "start", "shut" (the socket), "join"
  poolDead,    \* the destructor has returned
  backlog, arrivals

acceptorVars == <<closing_, listening, threads_, apc, callpc, poolDead, backlog, arrivals>>

AcceptorTypeOK ==
  /\ closing_ \in BOOLEAN /\ listening \in {"no", "yes", "shutdown"} /\ poolDead \in BOOLEAN
  /\ threads_ \subseteq Acceptors
  /\ apc \in [Acceptors -> {"none", "accept", "failed", "accepted", "exited"}]
  /\ callpc \in [Callers -> {"idle", "start", "shut", "join"}]
  /\ backlog \in 0 .. MaxConnections /\ arrivals \in backlog .. MaxConnections

AcceptorInit ==
  /\ closing_ = FALSE /\ listening = "no" /\ threads_ = {} /\ poolDead = FALSE
  /\ apc = [a \in Acceptors |-> "none"] /\ callpc = [c \in Callers |-> "idle"]
  /\ backlog = 0 /\ arrivals = 0

CallerGoto(c, from, to) == ~poolDead /\ callpc[c] = from /\ callpc' = [callpc EXCEPT ![c] = to]
AcceptorGoto(a, from, to) == apc[a] = from /\ apc' = [apc EXCEPT ![a] = to]

-----------------------------------------------------------------------------
(* Shutdown(): one caller wins the compare-and-swap; others return. *)
ShutdownCas(c, from) ==
  /\ CallerGoto(c, from, IF closing_ THEN "idle" ELSE "shut")
  /\ closing_' = TRUE

CallShutdown(c) ==
  /\ callpc[Owner] # "start" /\ ShutdownCas(c, "idle")
  /\ UNCHANGED <<listening, threads_, apc, poolDead, backlog, arrivals>>

ShutdownSocket(c) ==
  /\ CallerGoto(c, "shut", "join")
  /\ listening' = IF listening = "yes" THEN "shutdown" ELSE listening
  /\ UNCHANGED <<closing_, threads_, apc, poolDead, backlog, arrivals>>

(* Fault: Shutdown() does not wait for the threads. *)
AllJoined_NotAwaited == TRUE

(* The joins: Shutdown() goes on when every thread of the vector is over. *)
AllJoined == \A a \in threads_ : apc[a] = "exited"

JoinAll(c) ==
  /\ CallerGoto(c, "join", "idle") /\ AllJoined
  /\ threads_' = {}
  /\ UNCHANGED <<closing_, listening, apc, poolDead, backlog, arrivals>>

(* Start(), once and before any Shutdown(): Listen(), then the threads.    *)
(* After a Shutdown() the flag would keep every later one from joining.    *)
StartListen ==
  /\ CallerGoto(Owner, "idle", "start") /\ ~closing_
  /\ listening = "no" /\ listening' = "yes"
  /\ UNCHANGED <<closing_, threads_, apc, poolDead, backlog, arrivals>>

CreateAcceptor(a) ==
  /\ CallerGoto(Owner, "start", "start") /\ AcceptorGoto(a, "none", "accept")
  /\ threads_' = threads_ \cup {a}
  /\ UNCHANGED <<closing_, listening, poolDead, backlog, arrivals>>

(* Thread::Create() fails: Shutdown() and return. *)
CreateFailure ==
  /\ ShutdownCas(Owner, "start")
  /\ \E a \in Acceptors : apc[a] = "none"
  /\ UNCHANGED <<listening, threads_, apc, poolDead, backlog, arrivals>>

StartDone ==
  /\ CallerGoto(Owner, "start", "idle") /\ \A a \in Acceptors : apc[a] # "none"
  /\ UNCHANGED <<closing_, listening, threads_, apc, poolDead, backlog, arrivals>>

(* The destructor is a Shutdown() by the owner; this is its end. *)
Destroy ==
  /\ ~poolDead /\ poolDead' = TRUE /\ closing_
  /\ \A c \in Callers : callpc[c] = "idle"
  /\ UNCHANGED <<closing_, listening, threads_, apc, callpc, backlog, arrivals>>

-----------------------------------------------------------------------------
(* RunThread(): accept() gives a connection of the backlog, or fails. *)
AcceptOk(a) ==
  /\ AcceptorGoto(a, "accept", "accepted")
  /\ listening = "yes" /\ backlog > 0 /\ backlog' = backlog - 1
  /\ UNCHANGED <<closing_, listening, threads_, callpc, poolDead, arrivals>>

AcceptFails(a) ==
  /\ AcceptorGoto(a, "accept", "failed")
  /\ UNCHANGED <<closing_, listening, threads_, callpc, poolDead, backlog, arrivals>>

LoadClosing(a) ==
  /\ AcceptorGoto(a, "failed", IF closing_ THEN "exited" ELSE "accept")
  /\ UNCHANGED <<closing_, listening, threads_, callpc, poolDead, backlog, arrivals>>

(* SetNoDelay() fails, and the loop goes on, or the thread is done. *)
NoDelay(a) ==
  /\ \E next \in {"accept", "exited"} : AcceptorGoto(a, "accepted", next)
  /\ UNCHANGED <<closing_, listening, threads_, callpc, poolDead, backlog, arrivals>>

Arrival ==
  /\ listening = "yes" /\ arrivals < MaxConnections
  /\ arrivals' = arrivals + 1 /\ backlog' = backlog + 1
  /\ UNCHANGED <<closing_, listening, threads_, apc, callpc, poolDead>>

AcceptorNext ==
  \/ StartListen \/ CreateFailure \/ StartDone \/ Destroy \/ Arrival
  \/ \E a \in Acceptors : CreateAcceptor(a) \/ AcceptOk(a) \/ AcceptFails(a)
                          \/ LoadClosing(a) \/ NoDelay(a)
  \/ \E c \in Callers : CallShutdown(c) \/ ShutdownSocket(c) \/ JoinAll(c)

-----------------------------------------------------------------------------
(* No acceptor thread runs on a pool that is gone: Shutdown() by several   *)
(* callers, the one in a failed Start() and the one in the destructor      *)
(* share the work through one flag, and only one of them joins.            *)
NoThreadOutlivesPool ==
  AcceptorTypeOK /\ (poolDead => \A a \in Acceptors : apc[a] \in {"none", "exited"})

=============================================================================
