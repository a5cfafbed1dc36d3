----------------------------- MODULE ThreadPool -----------------------------
(***************************************************************************)
(* The worker-thread pool of bboy/base/thread/threadpool.{h,cc}.           *)
(*                                                                         *)
(* All fields of the pool are guarded by lock_, so a critical section (up  *)
(* to the next Unlock() or condition-variable wait) is one action.  What   *)
(* happens without the lock is a step of its own: the Signal() that        *)
(* Submit() issues after Unlock(), the task a worker runs, the delivery of *)
(* wake-ups and timeouts, and the way back to lock_ after a wait.          *)
(*                                                                         *)
(* A worker is "ready" when it is about to take lock_ at the top of the    *)
(* loop of DispatchThread(), "timedout" when TimedWait() returned false    *)
(* and it is about to take lock_ again.                                    *)
(***************************************************************************)
EXTENDS Integers, Sequences, FiniteSets, SequencesExt

CONSTANTS
  Clients,      \* threads outside the pool that call its methods
  Workers,      \* identities for threads of the pool, reused after exit
  Tasks,        \* the runnables; bounds how many submissions succeed
  Configs,      \* what a ThreadPoolBuilder was set to
  CreateFails   \* may Thread::Create() fail?

ASSUME PoolAssumption ==
  /\ IsFiniteSet(Clients) /\ IsFiniteSet(Workers)
  /\ Clients \cap Workers = {}
  /\ Configs \subseteq [min : Nat, max : Nat \ {0}, queue : Int]
  /\ \A cf \in Configs : /\ cf.min <= Cardinality(Workers)
                          /\ cf.max <= Cardinality(Workers)
  /\ CreateFails \in BOOLEAN

VARIABLES
  conf,             \* min_threads_, max_threads_, max_queue_size_
  pool_status,      \* pool_status_
  queue,            \* queue_
  queue_size,       \* queue_size_
  num_threads,      \* num_threads_
  active_threads,   \* active_threads_
  threads,          \* threads_
  wpc,              \* where each worker is in DispatchThread()
  permanent,        \* the argument of DispatchThread()
  entry,            \* the task a running worker took off the queue
  cpc,              \* where each client is in Wait(), WaitFor(), Shutdown()
  signalling,       \* callers of Submit() between Unlock() and Signal()
  fate,             \* history: what became of each task
  closed,           \* history: some call of Shutdown() has returned
  aborted           \* "no", or why the process died in a CHECK / LOG(FATAL)

poolVars == <<conf, pool_status, queue, queue_size, num_threads,
              active_threads, threads>>
vars == <<conf, pool_status, queue, queue_size, num_threads, active_threads,
          threads, wpc, permanent, entry, cpc, signalling, fate, closed,
          aborted>>

NoTask == "no task"
Callers == Clients \cup Workers

Fates == {"new", "refused", "queued", "running", "done", "dropped"}
WorkerPCs == {"none", "ready", "wait", "timedout", "running"}
ClientPCs == {"idle", "wait", "wait_woken", "waitfor", "waitfor_woken",
              "shutdown", "shutdown_woken"}

InState(s) == {w \in Workers : wpc[w] = s}

(* A worker about to take lock_ and look at the queue. *)
Awake == InState("ready") \cup InState("timedout")

TypeOK ==
  /\ conf \in Configs
  /\ pool_status \in {"Uninitialized", "OK", "ServiceUnavailable"}
  /\ queue \in Seq(Tasks)
  /\ queue_size \in Nat
  /\ num_threads \in Nat
  /\ active_threads \in Nat
  /\ threads \subseteq Workers
  /\ wpc \in [Workers -> WorkerPCs]
  /\ permanent \in [Workers -> BOOLEAN]
  /\ entry \in [Workers -> Tasks \cup {NoTask}]
  /\ cpc \in [Clients -> ClientPCs]
  /\ signalling \subseteq Callers
  /\ fate \in [Tasks -> Fates]
  /\ closed \in BOOLEAN
  /\ aborted \in {"no", "pool_thread_call", "check_failed"}

(* A pool fresh from its constructor, before Build() calls Init(). *)
Init ==
  /\ conf \in Configs
  /\ pool_status = "Uninitialized"
  /\ queue = <<>>
  /\ queue_size = 0
  /\ num_threads = 0
  /\ active_threads = 0
  /\ threads = {}
  /\ wpc = [w \in Workers |-> "none"]
  /\ permanent = [w \in Workers |-> FALSE]
  /\ entry = [w \in Workers |-> NoTask]
  /\ cpc = [c \in Clients |-> "idle"]
  /\ signalling = {}
  /\ fate = [t \in Tasks |-> "new"]
  /\ closed = FALSE
  /\ aborted = "no"

-----------------------------------------------------------------------------
(* CreateThreadUnlocked(): the threads of W were created and start their   *)
(* life in DispatchThread().                                               *)
StartThreads(W) ==
  /\ threads' = threads \cup W
  /\ num_threads' = num_threads + Cardinality(W)
  /\ permanent' = [w \in Workers |->
                     IF w \in W THEN num_threads < conf.min ELSE permanent[w]]

(* The outcomes of `n` calls of CreateThreadUnlocked(): n new threads, or  *)
(* fewer when Thread::Create() fails, which no caller ever hears about:    *)
(* the function returns Status::OK() in every case.                        *)
Creations(n) ==
  {W \in SUBSET InState("none") :
     \/ Cardinality(W) = n
     \/ CreateFails /\ Cardinality(W) < n}

(* Init(), called once, by Build(), before anyone else sees the pool. *)
InitPool ==
  /\ pool_status = "Uninitialized"
  /\ pool_status' = "OK"
  /\ \E W \in Creations(conf.min) :
       /\ StartThreads(W)
       /\ wpc' = [w \in Workers |-> IF w \in W THEN "ready" ELSE wpc[w]]
  /\ UNCHANGED <<conf, queue, queue_size, active_threads, entry, cpc,
                 signalling, fate, closed, aborted>>

(* Who can call Submit(): a client not inside another call, or a task. *)
CanSubmit(p) ==
  /\ p \notin signalling
  /\ p \in Clients => cpc[p] = "idle"
  /\ p \in Workers => wpc[p] = "running"

(* Fault: the running tasks are left out. *)
CapacityRemaining_IgnoresActive == conf.max + (conf.queue - queue_size)

CapacityRemaining ==
  (conf.max - active_threads) + (conf.queue - queue_size)

(* Submit() turns a task down: shut down, or no room. *)
SubmitRefused(p, t) ==
  /\ CanSubmit(p)
  /\ fate[t] \in {"new", "refused"}
  /\ pool_status # "OK" \/ CapacityRemaining < 1
  /\ fate' = [fate EXCEPT ![t] = "refused"]
  /\ UNCHANGED <<poolVars, wpc, permanent, entry, cpc, signalling, closed,
                 aborted>>

(* Fault: the task being submitted is not counted. *)
WantsThread_OffByOne ==
  /\ queue_size - (num_threads - active_threads) > 0
  /\ num_threads < conf.max

(* Submit() asks for a thread when the idle ones are not enough for the    *)
(* queue with the new task in it, and the maximum is not reached.          *)
WantsThread ==
  /\ (queue_size + 1) - (num_threads - active_threads) > 0
  /\ num_threads < conf.max

(* The critical section of a Submit() that returns OK. *)
SubmitAccepted(p, t) ==
  /\ CanSubmit(p)
  /\ fate[t] \in {"new", "refused"}
  /\ pool_status = "OK" /\ CapacityRemaining >= 1
  /\ \E W \in Creations(IF WantsThread THEN 1 ELSE 0) :
       /\ StartThreads(W)
       /\ wpc' = [w \in Workers |-> IF w \in W THEN "ready" ELSE wpc[w]]
  /\ queue' = Append(queue, t)
  /\ queue_size' = queue_size + 1
  /\ fate' = [fate EXCEPT ![t] = "queued"]
  /\ signalling' = signalling \cup {p}
  /\ UNCHANGED <<conf, pool_status, active_threads, entry, cpc, closed,
                 aborted>>

(* Fault: the signal is never sent. *)
SubmitSignal_Lost(p) ==
  /\ p \in signalling
  /\ signalling' = signalling \ {p}
  /\ UNCHANGED <<poolVars, wpc, permanent, entry, cpc, fate, closed, aborted>>

(* not_empty_.Signal() after Unlock(): wakes one waiter, if there is one. *)
SubmitSignal(p) ==
  /\ p \in signalling
  /\ signalling' = signalling \ {p}
  /\ \/ InState("wait") = {} /\ wpc' = wpc
     \/ \E w \in InState("wait") : wpc' = [wpc EXCEPT ![w] = "ready"]
  /\ UNCHANGED <<poolVars, permanent, entry, cpc, fate, closed, aborted>>

-----------------------------------------------------------------------------
(* Faults: broadcasts that reach nobody, or only timed waits. *)
WakeIdle_TimedOnly(pcs) ==
  [c \in Clients |-> IF pcs[c] = "waitfor" THEN "waitfor_woken" ELSE pcs[c]]
WakeShutdown_Nobody(pcs) == pcs

(* idle_cond_.Broadcast() and no_threads_cond_.Broadcast(), on where the    *)
(* clients are.                                                            *)
WakeIdle(pcs) ==
  [c \in Clients |-> CASE pcs[c] = "wait" -> "wait_woken"
                       [] pcs[c] = "waitfor" -> "waitfor_woken"
                       [] OTHER -> pcs[c]]

WakeShutdown(pcs) ==
  [c \in Clients |-> IF pcs[c] = "shutdown" THEN "shutdown_woken" ELSE pcs[c]]

(* The end of DispatchThread(), with the CHECK on the queue that the last  *)
(* thread makes.                                                           *)
ExitThread(w, active, pcs, fates) ==
  /\ wpc' = [wpc EXCEPT ![w] = "none"]
  /\ entry' = [entry EXCEPT ![w] = NoTask]
  /\ threads' = threads \ {w}
  /\ num_threads' = num_threads - 1
  /\ cpc' = IF num_threads = 1 THEN WakeShutdown(pcs) ELSE pcs
  /\ aborted' = IF num_threads = 1 /\ queue # <<>> THEN "check_failed"
                                                   ELSE aborted
  /\ active_threads' = active
  /\ fate' = fates
  /\ UNCHANGED <<conf, pool_status, queue, queue_size, permanent, signalling,
                 closed>>

(* not_empty_.Wait() or TimedWait(). *)
WaitForWork(w, active, pcs, fates) ==
  /\ wpc' = [wpc EXCEPT ![w] = "wait"]
  /\ entry' = [entry EXCEPT ![w] = NoTask]
  /\ active_threads' = active
  /\ cpc' = pcs
  /\ fate' = fates
  /\ UNCHANGED <<conf, pool_status, queue, queue_size, num_threads, threads,
                 permanent, signalling, closed, aborted>>

(* Faults: front() with no pop_front(); the newest task first. *)
FetchTask_NoPop(w, active, pcs, fates) ==
  /\ wpc' = [wpc EXCEPT ![w] = "running"]
  /\ entry' = [entry EXCEPT ![w] = Head(queue)]
  /\ active_threads' = active + 1
  /\ cpc' = pcs
  /\ fate' = [fates EXCEPT ![Head(queue)] = "running"]
  /\ UNCHANGED <<conf, pool_status, queue, queue_size, num_threads, threads,
                 permanent, signalling, closed, aborted>>
FetchTask_Newest(w, active, pcs, fates) ==
  /\ wpc' = [wpc EXCEPT ![w] = "running"]
  /\ entry' = [entry EXCEPT ![w] = Last(queue)]
  /\ queue' = Front(queue)
  /\ queue_size' = queue_size - 1
  /\ active_threads' = active + 1
  /\ cpc' = pcs
  /\ fate' = [fates EXCEPT ![Last(queue)] = "running"]
  /\ UNCHANGED <<conf, pool_status, num_threads, threads, permanent,
                 signalling, closed, aborted>>

(* Fetch the pending task at the front of the queue and start to run it. *)
FetchTask(w, active, pcs, fates) ==
  /\ wpc' = [wpc EXCEPT ![w] = "running"]
  /\ entry' = [entry EXCEPT ![w] = Head(queue)]
  /\ queue' = Tail(queue)
  /\ queue_size' = queue_size - 1
  /\ active_threads' = active + 1
  /\ cpc' = pcs
  /\ fate' = [fates EXCEPT ![Head(queue)] = "running"]
  /\ UNCHANGED <<conf, pool_status, num_threads, threads, permanent,
                 signalling, closed, aborted>>

(* One pass over the loop of DispatchThread() from its top, with lock_     *)
(* held and the given values of active_threads_, client positions and task *)
(* fates left by the code before it.                                       *)
LoopTop(w, active, pcs, fates) ==
  \/ /\ pool_status # "OK"
     /\ ExitThread(w, active, pcs, fates)
  \/ /\ pool_status = "OK" /\ queue = <<>>
     /\ WaitForWork(w, active, pcs, fates)
  \/ /\ pool_status = "OK" /\ queue # <<>>
     /\ FetchTask(w, active, pcs, fates)

(* A new or a woken worker takes lock_. *)
Dispatch(w) ==
  /\ wpc[w] = "ready"
  /\ LoopTop(w, active_threads, cpc, fate)

(* Fault: a worker that leaves counts itself out of the active ones. *)
DispatchTimedOut_CountsDown(w) ==
  /\ wpc[w] = "timedout"
  /\ \/ queue = <<>> /\ ExitThread(w, active_threads - 1, cpc, fate)
     \/ queue # <<>> /\ LoopTop(w, active_threads, cpc, fate)

(* TimedWait() returned false: leave if there is still nothing to do, even *)
(* before the status is looked at.                                         *)
DispatchTimedOut(w) ==
  /\ wpc[w] = "timedout"
  /\ \/ queue = <<>> /\ ExitThread(w, active_threads, cpc, fate)
     \/ queue # <<>> /\ LoopTop(w, active_threads, cpc, fate)

(* A task returns: lock_ again, --active_threads_, and on with the loop. *)
FinishTask(w) ==
  /\ wpc[w] = "running"
  /\ w \notin signalling
  /\ LoopTop(w, active_threads - 1,
             IF active_threads = 1 THEN WakeIdle(cpc) ELSE cpc,
             [fate EXCEPT ![entry[w]] = "done"])

(* idle_timeout_ passes in the TimedWait() of a worker that may leave. *)
IdleTimeout(w) ==
  /\ wpc[w] = "wait" /\ ~permanent[w]
  /\ wpc' = [wpc EXCEPT ![w] = "timedout"]
  /\ UNCHANGED <<poolVars, permanent, entry, cpc, signalling, fate, closed,
                 aborted>>

(* pthread_cond_wait() may return with no signal. *)
SpuriousWakeup(w) ==
  /\ wpc[w] = "wait"
  /\ wpc' = [wpc EXCEPT ![w] = "ready"]
  /\ UNCHANGED <<poolVars, permanent, entry, cpc, signalling, fate, closed,
                 aborted>>

(* CheckNotPoolThreadUnlocked(): LOG(FATAL) when a task calls Wait(),      *)
(* WaitFor() or Shutdown() of its own pool.                                *)
PoolThreadCall(w) ==
  /\ wpc[w] = "running" /\ w \notin signalling
  /\ w \in threads
  /\ aborted' = "pool_thread_call"
  /\ UNCHANGED <<poolVars, wpc, permanent, entry, cpc, signalling, fate,
                 closed>>

-----------------------------------------------------------------------------
Idle == queue = <<>> /\ active_threads = 0

Step(c, from, to) ==
  /\ cpc[c] = from
  /\ cpc' = [cpc EXCEPT ![c] = to]
  /\ UNCHANGED <<poolVars, wpc, permanent, entry, signalling, fate, closed,
                 aborted>>

(* Wait() and WaitFor() on a busy pool start to wait; on an idle one they  *)
(* return at once and change nothing.                                      *)
Wait(c) == c \notin signalling /\ ~Idle /\ Step(c, "idle", "wait")
WaitFor(c) == c \notin signalling /\ ~Idle /\ Step(c, "idle", "waitfor")

(* Woken, with lock_ again: return if the pool is idle, else wait on. *)
WaitRecheck(c) ==
  \/ Idle /\ Step(c, "wait_woken", "idle")
  \/ ~Idle /\ Step(c, "wait_woken", "wait")
  \/ Idle /\ Step(c, "waitfor_woken", "idle")
  \/ ~Idle /\ Step(c, "waitfor_woken", "waitfor")

(* idle_cond_.TimedWait() returns false, and so does WaitFor(). *)
WaitForTimeout(c) == Step(c, "waitfor", "idle")

ClientSpuriousWakeup(c) ==
  \/ Step(c, "wait", "wait_woken")
  \/ Step(c, "waitfor", "waitfor_woken")
  \/ Step(c, "shutdown", "shutdown_woken")

(* Faults: the queue, or its size, survives Shutdown(). *)
Shutdown_KeepsQueue(c) ==
  /\ c \notin signalling /\ cpc[c] = "idle"
  /\ pool_status' = "ServiceUnavailable"
  /\ wpc' = [w \in Workers |-> IF wpc[w] = "wait" THEN "ready" ELSE wpc[w]]
  /\ cpc' = [cpc EXCEPT ![c] = IF num_threads > 0 THEN "shutdown" ELSE "idle"]
  /\ closed' = (closed \/ num_threads = 0)
  /\ UNCHANGED <<conf, queue, queue_size, num_threads, active_threads, threads,
                 permanent, entry, signalling, fate, aborted>>
Shutdown_KeepsSize(c) ==
  /\ c \notin signalling /\ cpc[c] = "idle"
  /\ pool_status' = "ServiceUnavailable"
  /\ queue' = <<>>
  /\ fate' = [t \in Tasks |-> IF t \in ToSet(queue) THEN "dropped" ELSE fate[t]]
  /\ wpc' = [w \in Workers |-> IF wpc[w] = "wait" THEN "ready" ELSE wpc[w]]
  /\ cpc' = [cpc EXCEPT ![c] = IF num_threads > 0 THEN "shutdown" ELSE "idle"]
  /\ closed' = (closed \/ num_threads = 0)
  /\ UNCHANGED <<conf, queue_size, num_threads, active_threads, threads,
                 permanent, entry, signalling, aborted>>

(* Shutdown(), and the destructor, up to the wait for the last thread. *)
Shutdown(c) ==
  /\ c \notin signalling /\ cpc[c] = "idle"
  /\ pool_status' = "ServiceUnavailable"
  /\ queue' = <<>>
  /\ queue_size' = 0
  /\ fate' = [t \in Tasks |-> IF t \in ToSet(queue) THEN "dropped" ELSE fate[t]]
  /\ wpc' = [w \in Workers |-> IF wpc[w] = "wait" THEN "ready" ELSE wpc[w]]
  /\ cpc' = [cpc EXCEPT ![c] = IF num_threads > 0 THEN "shutdown" ELSE "idle"]
  /\ closed' = (closed \/ num_threads = 0)
  /\ UNCHANGED <<conf, num_threads, active_threads, threads, permanent, entry,
                 signalling, aborted>>

(* Fault: `if` for `while` around no_threads_cond_.Wait(). *)
ShutdownRecheck_If(c) ==
  /\ cpc[c] = "shutdown_woken"
  /\ cpc' = [cpc EXCEPT ![c] = "idle"]
  /\ closed' = TRUE
  /\ UNCHANGED <<poolVars, wpc, permanent, entry, signalling, fate, aborted>>

(* Woken, with lock_ again: wait for the last thread, or return. *)
ShutdownRecheck(c) ==
  \/ num_threads > 0 /\ Step(c, "shutdown_woken", "shutdown")
  \/ /\ num_threads = 0
     /\ cpc[c] = "shutdown_woken"
     /\ cpc' = [cpc EXCEPT ![c] = "idle"]
     /\ closed' = TRUE
     /\ UNCHANGED <<poolVars, wpc, permanent, entry, signalling, fate, aborted>>

-----------------------------------------------------------------------------
WorkerNext(w) ==
  \/ Dispatch(w) \/ DispatchTimedOut(w) \/ FinishTask(w) \/ IdleTimeout(w)
  \/ SpuriousWakeup(w) \/ PoolThreadCall(w)

ClientNext(c) ==
  \/ Wait(c) \/ WaitFor(c) \/ WaitRecheck(c) \/ WaitForTimeout(c)
  \/ ClientSpuriousWakeup(c) \/ Shutdown(c) \/ ShutdownRecheck(c)

SubmitNext(p) ==
  \/ \E t \in Tasks : SubmitRefused(p, t) \/ SubmitAccepted(p, t)
  \/ SubmitSignal(p)

(* Build() hands the pool out after Init(): no call comes before that. *)
Next ==
  /\ aborted = "no"
  /\ \/ InitPool
     \/ \E w \in Workers : WorkerNext(w)
     \/ /\ pool_status # "Uninitialized"
        /\ \/ \E c \in Clients : ClientNext(c)
           \/ \E p \in Callers : SubmitNext(p)

Spec == Init /\ [][Next]_vars

(* Threads keep running (weak fairness of their steps), tasks terminate    *)
(* (of FinishTask), timers expire.  Nobody has to call the pool, and no    *)
(* spurious wake-up has to happen.                                         *)
Fairness ==
  /\ \A w \in Workers : WF_vars(aborted = "no" /\ (Dispatch(w) \/ DispatchTimedOut(w)))
  /\ \A w \in Workers : WF_vars(aborted = "no" /\ FinishTask(w))
  /\ \A p \in Callers : WF_vars(aborted = "no" /\ SubmitSignal(p))
  /\ \A c \in Clients :
       /\ WF_vars(aborted = "no" /\ WaitRecheck(c))
       /\ WF_vars(aborted = "no" /\ WaitForTimeout(c))
       /\ WF_vars(aborted = "no" /\ ShutdownRecheck(c))

FairSpec == Spec /\ Fairness

-----------------------------------------------------------------------------
(* queue_size_, num_threads_ and active_threads_ are kept apart from the   *)
(* collections they count, on every path through Submit(), Shutdown() and  *)
(* DispatchThread(); the capacity test and the wait loops read the         *)
(* counters, the emptiness tests read the collections.                     *)
CountersAgree ==
  /\ queue_size = Len(queue)
  /\ num_threads = Cardinality(threads)
  /\ threads = Workers \ InState("none")
  /\ active_threads = Cardinality(InState("running"))

(* A task that Submit() accepted is in exactly one place: once in the      *)
(* queue, or with exactly one worker, or finished, or dropped by           *)
(* Shutdown(); and nothing else is in the queue or with a worker.          *)
OnePlacePerTask ==
  /\ \A t \in Tasks :
       /\ fate[t] = "queued" <=> \E i \in 1..Len(queue) : queue[i] = t
       /\ fate[t] = "running" <=> \E w \in InState("running") : entry[w] = t
  /\ \A i, j \in 1..Len(queue) : queue[i] = queue[j] => i = j
  /\ \A v, w \in InState("running") : entry[v] = entry[w] => v = w

(* Tasks running and queued never exceed max_threads_ + max_queue_size_,   *)
(* the capacity Submit() enforces from two counters while workers move     *)
(* tasks between them, also when min_threads_ exceeds max_threads_ or      *)
(* max_queue_size_ is negative, which the builder lets through; and there  *)
(* are more threads than max_threads_ only when Init() was told to.        *)
CapacityBound ==
  /\ LET load == active_threads + Len(queue)
     IN  load > 0 => load <= conf.max + conf.queue
  /\ num_threads <= conf.min \/ num_threads <= conf.max

(* CHECK(queue_.empty()) in DispatchThread() never fails: the last worker  *)
(* never leaves a task behind, whether it leaves on a timeout that races   *)
(* with Submit()'s late Signal() or on Shutdown().                         *)
CheckNeverFails == aborted # "check_failed"

(* No idle worker sleeps while a task nobody is coming for is queued: when *)
(* a worker waits on not_empty_, each queued task has a wake-up under way, *)
(* a Signal() still to be issued by its Submit() or a worker on its way to *)
(* lock_.  This is what a lost wake-up would break.                        *)
NoLostWakeup ==
  InState("wait") # {} =>
    Len(queue) <= Cardinality(signalling) + Cardinality(Awake)

(* A caller of Wait() is left asleep on an idle pool only by Shutdown(),   *)
(* which empties the queue and does not broadcast idle_cond_.              *)
WaiterStrandedOnlyByShutdown ==
  \A c \in Clients :
    (cpc[c] \in {"wait", "waitfor"} /\ Idle) => pool_status = "ServiceUnavailable"

(* Once a call of Shutdown() has returned nothing of the pool is left: no  *)
(* thread, no running and no queued task, for ever after.                  *)
QuiescentAfterShutdown ==
  closed => /\ pool_status = "ServiceUnavailable"
            /\ threads = {} /\ num_threads = 0
            /\ queue = <<>> /\ active_threads = 0
            /\ \A t \in Tasks : fate[t] \notin {"queued", "running"}

(* Every accepted task is run to its end or dropped by Shutdown().  With   *)
(* failures of Thread::Create() this is false: CreateThreadUnlocked()      *)
(* hides them, and Submit() then accepts a task into a pool of no threads. *)
AcceptedTaskEnds ==
  \A t \in Tasks :
    fate[t] = "queued" ~> (fate[t] \in {"done", "dropped"} \/ aborted # "no")

(* Shutdown() returns: the threads it waits for all leave, and the last    *)
(* one wakes it.                                                           *)
ShutdownReturns ==
  \A c \in Clients :
    cpc[c] = "shutdown" ~> (cpc[c] = "idle" \/ aborted # "no")

(* Wait() returns on a pool that is not shut down: every time the pool     *)
(* goes idle its waiters are woken and look again.                         *)
WaitReturns ==
  \A c \in Clients :
    cpc[c] = "wait" ~> \/ cpc[c] = "idle" \/ aborted # "no"
                       \/ pool_status = "ServiceUnavailable"

(* The pool promises what an executor promises: see TaskExecutor. *)
Executor ==
  INSTANCE TaskExecutor WITH
    open <- pool_status # "ServiceUnavailable",
    limit <- IF conf.min > conf.max THEN conf.min ELSE conf.max,
    pending <- queue,
    running <- {entry[w] : w \in InState("running")},
    finished <- {t \in Tasks : fate[t] = "done"},
    dropped <- {t \in Tasks : fate[t] = "dropped"}

ExecutorSpec == Executor!Spec

=============================================================================
