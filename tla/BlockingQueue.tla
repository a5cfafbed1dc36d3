---------------------------- MODULE BlockingQueue ----------------------------
(***************************************************************************)
(* BlockingQueue<T, LOGICAL_SIZE> of bboy/base/sync/blocking_queue.h.      *)
(*                                                                         *)
(* A critical section under lock_ is one action.  A thread in "put_wait"   *)
(* sleeps on not_full_, one in "get_wait" or "drain_wait" on not_empty_;   *)
(* the "_ready" positions are on the way back to lock_.  A thread in a     *)
(* "signal" position has enqueued, unlocked, and not yet called            *)
(* not_empty_.Signal(); the overloads that take a gscoped_ptr decide only  *)
(* after that whether the gscoped_ptr keeps the element.                   *)
(***************************************************************************)
EXTENDS Integers, Sequences, FiniteSets, SequencesExt

CONSTANTS
  Threads,    \* callers of the queue
  Elems,      \* the elements; each is enqueued at most once
  Scoped,     \* the elements their caller holds in a gscoped_ptr
  Size,       \* LOGICAL_SIZE::logical_size
  MaxSize     \* max_size_

ASSUME QueueAssumption ==
  /\ IsFiniteSet(Threads)
  /\ Elems # {} /\ Scoped \subseteq Elems /\ "no element" \notin Elems
  /\ Size \in [Elems -> Nat]
  /\ MaxSize \in Nat \ {0}

VARIABLES
  list,       \* list_
  size,       \* size_
  shutdown,   \* shutdown_
  pc,         \* where each thread is in its call
  arg,        \* the element a thread is putting
  ptr,        \* what became of the caller's gscoped_ptr to an element
  sent,       \* history: elements in the order they were enqueued
  received    \* history: elements in the order they were taken out

vars == <<list, size, shutdown, pc, arg, ptr, sent, received>>

NoElem == "no element"

SleepPCs == {"put_wait", "get_wait", "drain_wait"}
ReadyPCs == {"put_ready", "get_ready", "drain_ready"}
SignalPCs == {"signal", "signal_scoped", "signal_blocking_scoped"}

At(S) == {p \in Threads : pc[p] \in S}

(* Elements whose caller still has a pointer to put. *)
Puttable == {v \in Elems : v \notin ToSet(sent) /\ ptr[v] # "released"
                           /\ \A p \in Threads : arg[p] # v}

TypeOK ==
  /\ list \in Seq(Elems)
  /\ size \in Nat
  /\ shutdown \in BOOLEAN
  /\ pc \in [Threads -> {"idle"} \cup SleepPCs \cup ReadyPCs \cup SignalPCs]
  /\ arg \in [Threads -> Elems \cup {NoElem}]
  /\ ptr \in [Elems -> {"none", "held", "released"}]
  /\ sent \in Seq(Elems)
  /\ received \in Seq(Elems)

Init ==
  /\ list = <<>>
  /\ size = 0
  /\ shutdown = FALSE
  /\ pc = [p \in Threads |-> "idle"]
  /\ arg = [p \in Threads |-> NoElem]
  /\ ptr = [v \in Elems |-> "none"]
  /\ sent = <<>>
  /\ received = <<>>

-----------------------------------------------------------------------------
(* The effects of Signal() and Broadcast() on where threads are. *)
Signal(pcs, asleep, ready) ==
  LET waiting == {p \in Threads : pcs[p] \in asleep}
  IN  IF waiting = {} THEN {pcs}
      ELSE {[pcs EXCEPT ![p] = ready[pcs[p]]] : p \in waiting}

Ready == [put_wait |-> "put_ready", get_wait |-> "get_ready",
          drain_wait |-> "drain_ready"]

SignalNotFull(pcs) == Signal(pcs, {"put_wait"}, Ready)

(* Fault: the signal goes to not_full_. *)
SignalNotEmpty_WrongCondition(pcs) == SignalNotFull(pcs)
SignalNotEmpty(pcs) == Signal(pcs, {"get_wait", "drain_wait"}, Ready)

(* Fault: list_.push_front(val). *)
PushBack_Front(v) == <<v>> \o list
PushBack(v) == Append(list, v)

(* Fault: the size goes down by one, not by the element's size. *)
DecrementSizeUnlocked_One(v) == size - 1
DecrementSizeUnlocked(v) == size - Size[v]

(* list_.push_back(val), increment_size_unlocked(val), Unlock(). *)
Enqueue(p, v, next) ==
  /\ list' = PushBack(v)
  /\ size' = size + Size[v]
  /\ sent' = Append(sent, v)
  /\ pc' = [pc EXCEPT ![p] = next]
  /\ arg' = [arg EXCEPT ![p] = v]
  /\ UNCHANGED <<shutdown, ptr, received>>

PutStatus ==
  CASE size >= MaxSize -> "QUEUE_FULL"
    [] size < MaxSize /\ shutdown -> "QUEUE_SHUTDOWN"
    [] OTHER -> "QUEUE_SUCCESS"

(* Put(val).  A QUEUE_FULL or QUEUE_SHUTDOWN changes nothing. *)
Put(p, v) ==
  /\ pc[p] = "idle" /\ v \in Puttable
  /\ PutStatus = "QUEUE_SUCCESS"
  /\ Enqueue(p, v, "signal")

(* Put() of a gscoped_ptr: the gscoped_ptr keeps what was not enqueued. *)
PutScoped(p, v) ==
  /\ pc[p] = "idle" /\ v \in Puttable
  /\ \/ PutStatus = "QUEUE_SUCCESS" /\ Enqueue(p, v, "signal_scoped")
     \/ /\ PutStatus # "QUEUE_SUCCESS"
        /\ ptr' = [ptr EXCEPT ![v] = "held"]
        /\ UNCHANGED <<list, size, shutdown, pc, arg, sent, received>>

(* BlockingPut() of a gscoped_ptr calls Put(), which does not block, and   *)
(* takes its QueueStatus for a bool.  QUEUE_SUCCESS is 0, hence false; the *)
(* other two are true, and release the gscoped_ptr.                        *)
BlockingPutScoped(p, v) ==
  /\ pc[p] = "idle" /\ v \in Puttable
  /\ \/ PutStatus = "QUEUE_SUCCESS" /\ Enqueue(p, v, "signal_blocking_scoped")
     \/ /\ PutStatus # "QUEUE_SUCCESS"
        /\ ptr' = [ptr EXCEPT ![v] = "released"]
        /\ UNCHANGED <<list, size, shutdown, pc, arg, sent, received>>

(* not_empty_.Signal(), the return of Put() and what the overload with a   *)
(* gscoped_ptr makes of it.                                                *)
PutSignal(p) ==
  /\ pc[p] \in SignalPCs
  /\ pc' \in SignalNotEmpty([pc EXCEPT ![p] = "idle"])
  /\ arg' = [arg EXCEPT ![p] = NoElem]
  /\ ptr' = CASE pc[p] = "signal" -> ptr
              [] pc[p] = "signal_scoped" -> [ptr EXCEPT ![arg[p]] = "released"]
              [] OTHER -> [ptr EXCEPT ![arg[p]] = "held"]
  /\ UNCHANGED <<list, size, shutdown, sent, received>>

(* Fault: nobody looks at shutdown_ again after a wait. *)
BlockingPutBody_IgnoresShutdown(p, v) ==
  \/ size < MaxSize /\ Enqueue(p, v, "signal")
  \/ /\ size >= MaxSize
     /\ pc' = [pc EXCEPT ![p] = "put_wait"]
     /\ arg' = [arg EXCEPT ![p] = v]
     /\ UNCHANGED <<list, size, shutdown, ptr, sent, received>>

(* BlockingPut(val), from lock_ on. *)
BlockingPutBody(p, v) ==
  \/ /\ shutdown
     /\ pc' = [pc EXCEPT ![p] = "idle"]
     /\ arg' = [arg EXCEPT ![p] = NoElem]
     /\ UNCHANGED <<list, size, shutdown, ptr, sent, received>>
  \/ ~shutdown /\ size < MaxSize /\ Enqueue(p, v, "signal")
  \/ /\ ~shutdown /\ size >= MaxSize
     /\ pc' = [pc EXCEPT ![p] = "put_wait"]
     /\ arg' = [arg EXCEPT ![p] = v]
     /\ UNCHANGED <<list, size, shutdown, ptr, sent, received>>

BlockingPut(p, v) ==
  pc[p] = "idle" /\ v \in Puttable /\ BlockingPutBody(p, v)

BlockingPutWoken(p) == pc[p] = "put_ready" /\ BlockingPutBody(p, arg[p])

-----------------------------------------------------------------------------
(* BlockingGet(), from lock_ on: also on a shut down queue, elements are   *)
(* handed out first.                                                       *)
BlockingGetBody(p) ==
  \/ /\ list # <<>>
     /\ received' = Append(received, Head(list))
     /\ list' = Tail(list)
     /\ size' = DecrementSizeUnlocked(Head(list))
     /\ pc' \in SignalNotFull([pc EXCEPT ![p] = "idle"])
     /\ UNCHANGED <<shutdown, arg, ptr, sent>>
  \/ /\ list = <<>>
     /\ pc' = [pc EXCEPT ![p] = IF shutdown THEN "idle" ELSE "get_wait"]
     /\ UNCHANGED <<list, size, shutdown, arg, ptr, sent, received>>

TotalSize(s) ==
  LET sum[n \in 0..Len(s)] == IF n = 0 THEN 0 ELSE sum[n - 1] + Size[s[n]]
  IN  sum[Len(s)]

(* BlockingDrainTo(), from lock_ on: everything, and one Signal(). *)
BlockingDrainBody(p) ==
  \/ /\ list # <<>>
     /\ received' = received \o list
     /\ list' = <<>>
     /\ size' = size - TotalSize(list)
     /\ pc' \in SignalNotFull([pc EXCEPT ![p] = "idle"])
     /\ UNCHANGED <<shutdown, arg, ptr, sent>>
  \/ /\ list = <<>>
     /\ pc' = [pc EXCEPT ![p] = IF shutdown THEN "idle" ELSE "drain_wait"]
     /\ UNCHANGED <<list, size, shutdown, arg, ptr, sent, received>>

BlockingGet(p) == pc[p] \in {"idle", "get_ready"} /\ BlockingGetBody(p)
BlockingDrainTo(p) == pc[p] \in {"idle", "drain_ready"} /\ BlockingDrainBody(p)

(* Fault: only consumers are woken. *)
Shutdown_NotEmptyOnly(p) ==
  /\ pc[p] = "idle"
  /\ shutdown' = TRUE
  /\ pc' = [q \in Threads |-> IF pc[q] \in {"get_wait", "drain_wait"}
                              THEN Ready[pc[q]] ELSE pc[q]]
  /\ UNCHANGED <<list, size, arg, ptr, sent, received>>

Shutdown(p) ==
  /\ pc[p] = "idle"
  /\ shutdown' = TRUE
  /\ pc' = [q \in Threads |-> IF pc[q] \in SleepPCs THEN Ready[pc[q]]
                                                    ELSE pc[q]]
  /\ UNCHANGED <<list, size, arg, ptr, sent, received>>

SpuriousWakeup(p) ==
  /\ pc[p] \in SleepPCs
  /\ pc' = [pc EXCEPT ![p] = Ready[pc[p]]]
  /\ UNCHANGED <<list, size, shutdown, arg, ptr, sent, received>>

Next ==
  \E p \in Threads :
    \/ \E v \in Elems \ Scoped : Put(p, v) \/ BlockingPut(p, v)
    \/ \E v \in Scoped : PutScoped(p, v) \/ BlockingPutScoped(p, v)
    \/ PutSignal(p) \/ BlockingPutWoken(p)
    \/ BlockingGet(p) \/ BlockingDrainTo(p)
    \/ Shutdown(p) \/ SpuriousWakeup(p)

Spec == Init /\ [][Next]_vars

(* A thread inside a call and not asleep keeps going; nobody has to start  *)
(* a call, and no wake-up comes of itself.                                 *)
Continue(p) ==
  \/ PutSignal(p) \/ BlockingPutWoken(p)
  \/ pc[p] = "get_ready" /\ BlockingGet(p)
  \/ pc[p] = "drain_ready" /\ BlockingDrainTo(p)

QueueFairness == \A p \in Threads : WF_vars(Continue(p))

-----------------------------------------------------------------------------
(* size_, which the capacity test reads, is the total logical size of what *)
(* is in list_, and overshoots max_size_ by less than one element: Put()   *)
(* compares before it adds.                                                *)
SizeAccounts ==
  /\ TypeOK
  /\ size = TotalSize(list)
  /\ \E v \in Elems : size < MaxSize + Size[v]

(* Elements come out in the order in which they went in, none twice, none  *)
(* lost, whether taken one by one or drained.                              *)
FifoDelivery ==
  /\ sent = received \o list
  /\ IsInjective(sent)

(* No consumer sleeps on not_empty_ while an element is in the queue that  *)
(* no Signal() under way and no woken consumer is going to pick up; and no *)
(* producer sleeps on not_full_ with the queue empty unless another one    *)
(* has been woken to fill it, though BlockingDrainTo() signals only once.  *)
NoLostWakeup ==
  /\ At({"get_wait", "drain_wait"}) # {} =>
       Len(list) <= Cardinality(At(SignalPCs))
                      + Cardinality(At({"get_ready", "drain_ready"}))
  /\ (At({"put_wait"}) # {} /\ list = <<>>) => At({"put_ready"}) # {}

(* After Shutdown() nobody sleeps in the queue, neither those asleep when  *)
(* it was called nor those who came later, and nothing is added to it.     *)
ShutdownFreezes ==
  /\ [](shutdown => At(SleepPCs) = {})
  /\ [][shutdown => sent' = sent]_vars

(* Every blocked call returns after Shutdown(). *)
CallsReturnAfterShutdown ==
  \A p \in Threads : (shutdown /\ pc[p] # "idle") ~> pc[p] = "idle"

(* "If the element was enqueued, gscoped_ptr releases its contents": after *)
(* a call returned, a gscoped_ptr holds its element exactly when the queue *)
(* did not take it.  Otherwise the element has two owners, or none.        *)
OwnershipFollowsElement ==
  \A v \in Elems :
    (\A p \in Threads : arg[p] # v) =>
      /\ ptr[v] = "held" => v \notin ToSet(sent)
      /\ ptr[v] = "released" => v \in ToSet(sent)

=============================================================================
