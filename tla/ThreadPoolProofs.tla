-------------------------- MODULE ThreadPoolProofs --------------------------
(***************************************************************************)
(* Proofs that the thread pool keeps its safety invariants, for any number *)
(* of clients, workers and tasks, any builder settings, and with or        *)
(* without failures of thread creation.                                    *)
(***************************************************************************)
EXTENDS ThreadPool, FiniteSetTheorems, TLAPS

(* Sets of workers are finite: what the counter lemmas need. *)
LEMMA WorkerSetsFinite ==
  ASSUME NEW S \in SUBSET Workers
  PROVE  IsFiniteSet(S) /\ Cardinality(S) \in Nat
  BY PoolAssumption, FS_Subset, FS_CardinalityType

(* What a change of one worker's position does to the sets the counters    *)
(* count.                                                                  *)
LEMMA MoveWorker ==
  ASSUME wpc \in [Workers -> WorkerPCs], NEW w \in Workers,
         NEW s \in WorkerPCs, wpc' = [wpc EXCEPT ![w] = s]
  PROVE  /\ wpc' \in [Workers -> WorkerPCs]
         /\ InState("running")' = IF s = "running"
                                  THEN InState("running") \cup {w}
                                  ELSE InState("running") \ {w}
         /\ (Workers \ InState("none"))' =
               IF s = "none" THEN (Workers \ InState("none")) \ {w}
                             ELSE (Workers \ InState("none")) \cup {w}
  BY DEF InState, WorkerPCs

(* Wake-ups and idle timeouts move no worker into or out of a task. *)
LEMMA WakeWorkers ==
  ASSUME wpc \in [Workers -> WorkerPCs], wpc' \in [Workers -> WorkerPCs],
         \A w \in Workers :
           wpc'[w] = wpc[w]
             \/ (wpc[w] = "wait" /\ wpc'[w] \in {"ready", "timedout"})
  PROVE  /\ InState("running")' = InState("running")
         /\ InState("none")' = InState("none")
  BY DEF InState, WorkerPCs

-----------------------------------------------------------------------------
(* The part of the invariant that counts. *)
CountInv == TypeOK /\ CountersAgree

(* The three ways a pass over the loop of DispatchThread() can go, from    *)
(* the values left by the code before it.                                  *)
LEMMA ExitCounts ==
  ASSUME CountInv, NEW w \in Workers, wpc[w] # "none",
         NEW active \in Nat, active = Cardinality(InState("running") \ {w}),
         NEW pcs \in [Clients -> ClientPCs], NEW fates \in [Tasks -> Fates],
         ExitThread(w, active, pcs, fates)
  PROVE  CountInv'
<1>1. /\ InState("running")' = InState("running") \ {w}
      /\ (Workers \ InState("none"))' = (Workers \ InState("none")) \ {w}
      /\ wpc' \in [Workers -> WorkerPCs]
  BY MoveWorker DEF CountInv, TypeOK, ExitThread, WorkerPCs
<1>2. w \in threads
  BY DEF CountInv, CountersAgree, InState
<1>3. num_threads' = Cardinality(threads') /\ num_threads' \in Nat
  <2>1. IsFiniteSet(threads) /\ Cardinality(threads \ {w}) \in Nat
    BY WorkerSetsFinite DEF CountInv, TypeOK
  <2>2. Cardinality(threads \ {w}) = Cardinality(threads) - 1
    BY <1>2, <2>1, FS_RemoveElement
  <2>. QED  BY <2>1, <2>2 DEF ExitThread, CountInv, CountersAgree
<1>4. cpc' \in [Clients -> ClientPCs]
  BY DEF ExitThread, WakeShutdown, ClientPCs
<1>5. TypeOK'
  BY <1>1, <1>3, <1>4 DEF CountInv, TypeOK, ExitThread
<1>6. CountersAgree'
  BY <1>1, <1>3 DEF CountInv, CountersAgree, ExitThread
<1>. QED  BY <1>5, <1>6 DEF CountInv

LEMMA WaitCounts ==
  ASSUME CountInv, NEW w \in Workers, wpc[w] # "none",
         NEW active \in Nat, active = Cardinality(InState("running") \ {w}),
         NEW pcs \in [Clients -> ClientPCs], NEW fates \in [Tasks -> Fates],
         WaitForWork(w, active, pcs, fates)
  PROVE  CountInv'
<1>1. /\ InState("running")' = InState("running") \ {w}
      /\ (Workers \ InState("none"))' = (Workers \ InState("none")) \cup {w}
      /\ wpc' \in [Workers -> WorkerPCs]
  BY MoveWorker DEF CountInv, TypeOK, WaitForWork, WorkerPCs
<1>2. TypeOK'
  BY <1>1 DEF CountInv, TypeOK, WaitForWork
<1>3. CountersAgree'
  BY <1>1 DEF CountInv, CountersAgree, WaitForWork, InState
<1>. QED  BY <1>2, <1>3 DEF CountInv

LEMMA FetchCounts ==
  ASSUME CountInv, NEW w \in Workers, wpc[w] # "none", queue # <<>>,
         NEW active \in Nat, active = Cardinality(InState("running") \ {w}),
         NEW pcs \in [Clients -> ClientPCs], NEW fates \in [Tasks -> Fates],
         FetchTask(w, active, pcs, fates)
  PROVE  CountInv'
<1>1. /\ InState("running")' = InState("running") \cup {w}
      /\ (Workers \ InState("none"))' = (Workers \ InState("none")) \cup {w}
      /\ wpc' \in [Workers -> WorkerPCs]
  BY MoveWorker DEF CountInv, TypeOK, FetchTask, WorkerPCs
<1>2. Cardinality(InState("running") \cup {w}) = active + 1
  <2>1. IsFiniteSet(InState("running") \ {w})
    BY WorkerSetsFinite DEF InState
  <2>2. InState("running") \cup {w} = (InState("running") \ {w}) \cup {w}
    OBVIOUS
  <2>. QED  BY <2>1, <2>2, FS_AddElement
<1>3. /\ Head(queue) \in Tasks /\ Tail(queue) \in Seq(Tasks)
      /\ Len(queue) \in Nat /\ Len(queue) > 0
      /\ Len(Tail(queue)) = Len(queue) - 1
  BY DEF CountInv, TypeOK
<1>4. TypeOK'
  <2>1. queue_size' \in Nat /\ queue' \in Seq(Tasks)
    BY <1>3 DEF CountInv, CountersAgree, FetchTask
  <2>2. entry' \in [Workers -> Tasks \cup {NoTask}]
    BY <1>3 DEF CountInv, TypeOK, FetchTask
  <2>3. fate' \in [Tasks -> Fates]
    BY <1>3 DEF FetchTask, Fates
  <2>. QED  BY <1>1, <2>1, <2>2, <2>3 DEF CountInv, TypeOK, FetchTask
<1>5. CountersAgree'
  BY <1>1, <1>2, <1>3 DEF CountInv, CountersAgree, FetchTask, InState
<1>. QED  BY <1>4, <1>5 DEF CountInv

(* The workers created in one critical section are new to the pool. *)
LEMMA CreateCounts ==
  ASSUME CountInv, NEW n \in Nat, NEW W \in Creations(n), StartThreads(W),
         wpc' = [w \in Workers |-> IF w \in W THEN "ready" ELSE wpc[w]]
  PROVE  /\ wpc' \in [Workers -> WorkerPCs]
         /\ permanent' \in [Workers -> BOOLEAN]
         /\ threads' \subseteq Workers
         /\ num_threads' \in Nat
         /\ num_threads' = Cardinality(threads')
         /\ threads' = Workers \ InState("none")'
         /\ InState("running")' = InState("running")
         /\ Cardinality(W) \in Nat /\ Cardinality(W) <= n
<1>1. W \subseteq InState("none") /\ W \in SUBSET Workers
  BY DEF Creations, InState
<1>2. /\ IsFiniteSet(W) /\ Cardinality(W) \in Nat
      /\ IsFiniteSet(threads) /\ Cardinality(threads) \in Nat
  BY <1>1, WorkerSetsFinite DEF CountInv, TypeOK
<1>3. threads \cap W = {}
  BY <1>1 DEF CountInv, CountersAgree
<1>4. Cardinality(threads \cup W) = Cardinality(threads) + Cardinality(W)
  <2>1. Cardinality(threads \cup W)
          = Cardinality(threads) + Cardinality(W) - Cardinality(threads \cap W)
    BY <1>2, FS_Union
  <2>2. Cardinality(threads \cap W) = 0
    BY <1>3, FS_EmptySet
  <2>. QED  BY <1>2, <2>1, <2>2
<1>5. Cardinality(W) <= n
  BY <1>2 DEF Creations
<1>6. wpc' \in [Workers -> WorkerPCs]
  <2>1. \A w \in Workers :
          (IF w \in W THEN "ready" ELSE wpc[w]) \in WorkerPCs
    BY DEF CountInv, TypeOK, WorkerPCs
  <2>. QED  BY <2>1
<1>7. \A w \in Workers : wpc'[w] = IF w \in W THEN "ready" ELSE wpc[w]
  OBVIOUS
<1>8. InState("running")' = InState("running")
  BY <1>1, <1>7 DEF InState
<1>9. threads' = Workers \ InState("none")'
  BY <1>1, <1>7 DEF InState, CountInv, CountersAgree, StartThreads
<1>10. permanent' \in [Workers -> BOOLEAN]
  <2>1. (num_threads < conf.min) \in BOOLEAN
    OBVIOUS
  <2>2. \A w \in Workers :
          (IF w \in W THEN num_threads < conf.min ELSE permanent[w]) \in BOOLEAN
    BY <2>1, Zenon DEF CountInv, TypeOK
  <2>. QED  BY <2>2, Zenon DEF StartThreads
<1>11. threads' \subseteq Workers
  BY <1>1 DEF StartThreads, CountInv, TypeOK
<1>12. num_threads' \in Nat /\ num_threads' = Cardinality(threads')
  <2>1. num_threads = Cardinality(threads)
    BY DEF CountInv, CountersAgree
  <2>2. threads' = threads \cup W /\ num_threads' = num_threads + Cardinality(W)
    BY DEF StartThreads
  <2>. QED  BY <1>2, <1>4, <2>1, <2>2
<1>. QED  BY <1>2, <1>5, <1>6, <1>8, <1>9, <1>10, <1>11, <1>12, Zenon

(* What a worker that holds lock_ brings to the loop of DispatchThread(),  *)
(* and which way it goes there.                                            *)
FromTask(w, active, pcs, fates) ==
  /\ wpc[w] = "running" /\ active = active_threads - 1
  /\ pcs = (IF active_threads = 1 THEN WakeIdle(cpc) ELSE cpc)
  /\ fates = [fate EXCEPT ![entry[w]] = "done"]

FromWait(w, active, pcs, fates) ==
  /\ wpc[w] \in {"ready", "timedout"} /\ active = active_threads
  /\ pcs = cpc /\ fates = fate

Pass(w, active, pcs, fates) ==
  \/ /\ pool_status # "OK" \/ queue = <<>>
     /\ ExitThread(w, active, pcs, fates)
  \/ /\ pool_status = "OK" /\ queue = <<>>
     /\ WaitForWork(w, active, pcs, fates)
  \/ /\ pool_status = "OK" /\ queue # <<>>
     /\ FetchTask(w, active, pcs, fates)

LEMMA LoopValues ==
  ASSUME CountInv, NEW w \in Workers,
         Dispatch(w) \/ DispatchTimedOut(w) \/ FinishTask(w)
  PROVE  \E active \in Nat, pcs \in [Clients -> ClientPCs],
            fates \in [Tasks -> Fates] :
           /\ active = Cardinality(InState("running") \ {w})
           /\ wpc[w] # "none"
           /\ \/ FromTask(w, active, pcs, fates)
              \/ FromWait(w, active, pcs, fates)
           /\ Pass(w, active, pcs, fates)
<1>1. /\ IsFiniteSet(InState("running"))
      /\ Cardinality(InState("running") \ {w}) \in Nat
  BY WorkerSetsFinite DEF InState
<1>2. active_threads = Cardinality(InState("running")) /\ active_threads \in Nat
  BY DEF CountInv, CountersAgree, TypeOK
<1>3. ASSUME Dispatch(w) \/ DispatchTimedOut(w)
      PROVE  /\ active_threads = Cardinality(InState("running") \ {w})
             /\ wpc[w] # "none"
             /\ FromWait(w, active_threads, cpc, fate)
             /\ Pass(w, active_threads, cpc, fate)
  <2>1. wpc[w] \in {"ready", "timedout"}
    BY <1>3 DEF Dispatch, DispatchTimedOut
  <2>2. w \notin InState("running")
    BY <2>1 DEF InState
  <2>3. active_threads = Cardinality(InState("running") \ {w})
    BY <1>1, <1>2, <2>2, FS_RemoveElement
  <2>4. Pass(w, active_threads, cpc, fate)
    BY <1>3 DEF Dispatch, DispatchTimedOut, LoopTop, Pass
  <2>. QED  BY <2>1, <2>3, <2>4 DEF FromWait
<1>4. ASSUME FinishTask(w)
      PROVE  \E active \in Nat, pcs \in [Clients -> ClientPCs],
                fates \in [Tasks -> Fates] :
               /\ active = Cardinality(InState("running") \ {w})
               /\ wpc[w] # "none"
               /\ FromTask(w, active, pcs, fates)
               /\ Pass(w, active, pcs, fates)
  <2> DEFINE act == active_threads - 1
             pcs0 == IF active_threads = 1 THEN WakeIdle(cpc) ELSE cpc
             fates0 == [fate EXCEPT ![entry[w]] = "done"]
  <2>1. wpc[w] = "running" /\ w \in InState("running")
    BY <1>4 DEF FinishTask, InState
  <2>2. act = Cardinality(InState("running") \ {w}) /\ act \in Nat
    BY <1>1, <1>2, <2>1, FS_RemoveElement
  <2>3. pcs0 \in [Clients -> ClientPCs]
    BY DEF CountInv, TypeOK, WakeIdle, ClientPCs
  <2>4. fates0 \in [Tasks -> Fates]
    BY DEF CountInv, TypeOK, Fates
  <2>5. Pass(w, act, pcs0, fates0)
    BY <1>4 DEF FinishTask, LoopTop, Pass
  <2>6. FromTask(w, act, pcs0, fates0)
    BY <2>1 DEF FromTask
  <2>. HIDE DEF act, pcs0, fates0
  <2>. QED  BY <2>1, <2>2, <2>3, <2>4, <2>5, <2>6
<1>5. cpc \in [Clients -> ClientPCs] /\ fate \in [Tasks -> Fates]
  BY DEF CountInv, TypeOK
<1>. QED  BY <1>2, <1>3, <1>4, <1>5

LEMMA PassCounts ==
  ASSUME CountInv, NEW w \in Workers,
         Dispatch(w) \/ DispatchTimedOut(w) \/ FinishTask(w)
  PROVE  CountInv'
<1>1. PICK active \in Nat, pcs \in [Clients -> ClientPCs],
           fates \in [Tasks -> Fates] :
             /\ active = Cardinality(InState("running") \ {w})
             /\ wpc[w] # "none"
             /\ Pass(w, active, pcs, fates)
  BY LoopValues
<1>2. CASE ExitThread(w, active, pcs, fates)
  BY <1>1, <1>2, ExitCounts
<1>3. CASE WaitForWork(w, active, pcs, fates)
  BY <1>1, <1>3, WaitCounts
<1>4. CASE queue # <<>> /\ FetchTask(w, active, pcs, fates)
  BY <1>1, <1>4, FetchCounts
<1>. QED  BY <1>1, <1>2, <1>3, <1>4 DEF Pass

LEMMA CreationSteps ==
  ASSUME CountInv
  PROVE  /\ InitPool => CountInv'
         /\ \A p \in Callers, t \in Tasks : SubmitAccepted(p, t) => CountInv'
<1>1. conf.min \in Nat
  BY PoolAssumption DEF CountInv, TypeOK
<1>2. ASSUME InitPool PROVE CountInv'
  <2>1. PICK W \in Creations(conf.min) :
          /\ StartThreads(W)
          /\ wpc' = [w \in Workers |-> IF w \in W THEN "ready" ELSE wpc[w]]
    BY <1>2 DEF InitPool
  <2>2. /\ wpc' \in [Workers -> WorkerPCs]
        /\ permanent' \in [Workers -> BOOLEAN]
        /\ threads' \subseteq Workers
        /\ num_threads' \in Nat
        /\ num_threads' = Cardinality(threads')
        /\ threads' = Workers \ InState("none")'
        /\ InState("running")' = InState("running")
    BY <1>1, <2>1, CreateCounts
  <2>3. TypeOK'
    BY <1>2, <2>2 DEF CountInv, TypeOK, InitPool
  <2>4. CountersAgree'
    BY <1>2, <2>2 DEF CountInv, CountersAgree, InitPool
  <2>. QED  BY <2>3, <2>4 DEF CountInv
<1>3. ASSUME NEW p \in Callers, NEW t \in Tasks, SubmitAccepted(p, t)
      PROVE  CountInv'
  <2>1. PICK W \in Creations(IF WantsThread THEN 1 ELSE 0) :
          /\ StartThreads(W)
          /\ wpc' = [w \in Workers |-> IF w \in W THEN "ready" ELSE wpc[w]]
    BY <1>3 DEF SubmitAccepted
  <2>2. (IF WantsThread THEN 1 ELSE 0) \in Nat
    OBVIOUS
  <2>3. /\ wpc' \in [Workers -> WorkerPCs]
        /\ permanent' \in [Workers -> BOOLEAN]
        /\ threads' \subseteq Workers
        /\ num_threads' \in Nat
        /\ num_threads' = Cardinality(threads')
        /\ threads' = Workers \ InState("none")'
        /\ InState("running")' = InState("running")
    BY <2>1, <2>2, CreateCounts
  <2>4. /\ queue' \in Seq(Tasks) /\ queue_size' \in Nat
        /\ queue_size' = Len(queue')
    BY <1>3 DEF SubmitAccepted, CountInv, CountersAgree, TypeOK
  <2>5. fate' \in [Tasks -> Fates] /\ signalling' \subseteq Callers
    BY <1>3 DEF SubmitAccepted, CountInv, TypeOK, Fates
  <2>6. TypeOK'
    BY <1>3, <2>3, <2>4, <2>5 DEF CountInv, TypeOK, SubmitAccepted
  <2>7. CountersAgree'
    BY <1>3, <2>3, <2>4 DEF CountInv, CountersAgree, SubmitAccepted
  <2>. QED  BY <2>6, <2>7 DEF CountInv
<1>. QED  BY <1>2, <1>3

LEMMA CountStep == CountInv /\ [Next]_vars => CountInv'
<1>. SUFFICES ASSUME CountInv, [Next]_vars PROVE CountInv'
  OBVIOUS
<1>1. CASE UNCHANGED vars
  BY <1>1 DEF CountInv, TypeOK, CountersAgree, InState, vars
<1>2. CASE InitPool
  BY <1>2, CreationSteps
<1>3. ASSUME NEW w \in Workers, WorkerNext(w) PROVE CountInv'
  <2>1. CASE Dispatch(w) \/ DispatchTimedOut(w) \/ FinishTask(w)
    BY <2>1, PassCounts
  <2>2. CASE IdleTimeout(w) \/ SpuriousWakeup(w)
    <3>1. /\ wpc' \in [Workers -> WorkerPCs]
          /\ \A v \in Workers :
               wpc'[v] = wpc[v]
                 \/ (wpc[v] = "wait" /\ wpc'[v] \in {"ready", "timedout"})
      BY <2>2 DEF CountInv, TypeOK, IdleTimeout, SpuriousWakeup, WorkerPCs
    <3>2. /\ InState("running")' = InState("running")
          /\ InState("none")' = InState("none")
      BY <3>1, WakeWorkers DEF CountInv, TypeOK
    <3>3. TypeOK'
      BY <2>2, <3>1
      DEF CountInv, TypeOK, IdleTimeout, SpuriousWakeup, poolVars
    <3>4. CountersAgree'
      BY <2>2, <3>2
      DEF CountInv, CountersAgree, IdleTimeout, SpuriousWakeup, poolVars
    <3>. QED  BY <3>3, <3>4 DEF CountInv
  <2>3. CASE PoolThreadCall(w)
    BY <2>3 DEF CountInv, TypeOK, CountersAgree, InState, PoolThreadCall, poolVars
  <2>. QED  BY <1>3, <2>1, <2>2, <2>3 DEF WorkerNext
<1>4. ASSUME NEW c \in Clients, ClientNext(c) PROVE CountInv'
  <2>1. ASSUME NEW from \in ClientPCs, NEW to \in ClientPCs, Step(c, from, to)
        PROVE  CountInv'
    BY <2>1 DEF CountInv, TypeOK, CountersAgree, InState, Step, poolVars
  <2>2. CASE \/ Wait(c) \/ WaitFor(c) \/ WaitRecheck(c) \/ WaitForTimeout(c)
             \/ ClientSpuriousWakeup(c)
    BY <2>1, <2>2
    DEF Wait, WaitFor, WaitRecheck, WaitForTimeout, ClientSpuriousWakeup, ClientPCs
  <2>3. CASE ShutdownRecheck(c)
    <3>1. CASE Step(c, "shutdown_woken", "shutdown")
      BY <2>1, <3>1 DEF ClientPCs
    <3>2. CASE ~Step(c, "shutdown_woken", "shutdown")
      BY <2>3, <3>2
      DEF ShutdownRecheck, CountInv, TypeOK, CountersAgree, InState, poolVars,
          ClientPCs
    <3>. QED  BY <3>1, <3>2
  <2>4. CASE Shutdown(c)
    <3>1. /\ wpc' \in [Workers -> WorkerPCs]
          /\ \A v \in Workers :
               wpc'[v] = wpc[v]
                 \/ (wpc[v] = "wait" /\ wpc'[v] \in {"ready", "timedout"})
      BY <2>4 DEF CountInv, TypeOK, Shutdown, WorkerPCs
    <3>2. /\ InState("running")' = InState("running")
          /\ InState("none")' = InState("none")
      BY <3>1, WakeWorkers DEF CountInv, TypeOK
    <3>3. fate' \in [Tasks -> Fates]
      BY <2>4 DEF CountInv, TypeOK, Shutdown, Fates
    <3>4. /\ cpc' \in [Clients -> ClientPCs]
          /\ queue' \in Seq(Tasks) /\ queue_size' \in Nat
          /\ queue_size' = Len(queue')
      BY <2>4 DEF CountInv, TypeOK, Shutdown, ClientPCs
    <3>5. TypeOK'
      BY <2>4, <3>1, <3>3, <3>4 DEF CountInv, TypeOK, Shutdown
    <3>6. CountersAgree'
      BY <2>4, <3>2, <3>4 DEF CountInv, CountersAgree, Shutdown
    <3>. QED  BY <3>5, <3>6 DEF CountInv
  <2>. QED  BY <1>4, <2>2, <2>3, <2>4 DEF ClientNext
<1>5. ASSUME NEW p \in Callers, SubmitNext(p) PROVE CountInv'
  <2>1. ASSUME NEW t \in Tasks, SubmitRefused(p, t) PROVE CountInv'
    BY <2>1
    DEF CountInv, TypeOK, CountersAgree, InState, SubmitRefused, poolVars, Fates
  <2>2. CASE SubmitSignal(p)
    <3>1. /\ wpc' \in [Workers -> WorkerPCs]
          /\ \A v \in Workers :
               wpc'[v] = wpc[v]
                 \/ (wpc[v] = "wait" /\ wpc'[v] \in {"ready", "timedout"})
      BY <2>2 DEF CountInv, TypeOK, SubmitSignal, WorkerPCs, InState
    <3>2. /\ InState("running")' = InState("running")
          /\ InState("none")' = InState("none")
      BY <3>1, WakeWorkers DEF CountInv, TypeOK
    <3>3. TypeOK'
      BY <2>2, <3>1 DEF CountInv, TypeOK, SubmitSignal, poolVars
    <3>4. CountersAgree'
      BY <2>2, <3>2 DEF CountInv, CountersAgree, SubmitSignal, poolVars
    <3>. QED  BY <3>3, <3>4 DEF CountInv
  <2>. QED  BY <1>5, <2>1, <2>2, CreationSteps DEF SubmitNext
<1>. QED  BY <1>1, <1>2, <1>3, <1>4, <1>5 DEF Next

LEMMA CountInit == Init => CountInv
<1>. SUFFICES ASSUME Init PROVE CountInv
  OBVIOUS
<1>1. /\ InState("running") = {} /\ InState("none") = Workers
  BY DEF Init, InState
<1>2. CountersAgree
  BY <1>1, FS_EmptySet DEF Init, CountersAgree
<1>3. wpc \in [Workers -> WorkerPCs] /\ permanent \in [Workers -> BOOLEAN]
  BY DEF Init, WorkerPCs
<1>4. /\ entry \in [Workers -> Tasks \cup {NoTask}]
      /\ cpc \in [Clients -> ClientPCs] /\ fate \in [Tasks -> Fates]
  BY DEF Init, Fates, ClientPCs
<1>5. closed \in BOOLEAN
  BY Zenon DEF Init
<1>6. queue \in Seq(Tasks)
  BY DEF Init
<1>7. TypeOK
  BY <1>3, <1>4, <1>5, <1>6 DEF Init, TypeOK
<1>. QED  BY <1>2, <1>7 DEF CountInv

(* The pool's variables keep their types; in particular no counter that is *)
(* decremented anywhere in threadpool.cc goes below zero.                  *)
THEOREM TypeCorrect == Spec => []TypeOK
<1>1. CountInv => TypeOK
  BY DEF CountInv
<1>. QED  BY <1>1, CountInit, CountStep, PTL DEF Spec

(* queue_size_, num_threads_ and active_threads_ always agree with the     *)
(* queue, the thread set and the workers running a task.                   *)
THEOREM CountersCorrect == Spec => []CountersAgree
<1>1. CountInv => CountersAgree
  BY DEF CountInv
<1>. QED  BY <1>1, CountInit, CountStep, PTL DEF Spec

-----------------------------------------------------------------------------
(* What the safety properties need besides the counters: a pool that does  *)
(* not serve has nothing queued, a caller of Shutdown() has seen to that,  *)
(* and a pool before Init() has no threads.                                *)
ClosedEmpty == pool_status # "OK" => queue = <<>>
ShutdownCallers ==
  \A c \in Clients : cpc[c] \in {"shutdown", "shutdown_woken"} =>
                       pool_status = "ServiceUnavailable"
FreshEmpty == pool_status = "Uninitialized" => num_threads = 0
ClosedNoThreads == closed => pool_status = "ServiceUnavailable" /\ num_threads = 0

SafeInv ==
  /\ ClosedEmpty /\ ShutdownCallers /\ FreshEmpty /\ ClosedNoThreads
  /\ CheckNeverFails /\ WaiterStrandedOnlyByShutdown /\ CapacityBound

(* A worker that is in the pool is one of its threads. *)
LEMMA WorkerCounts ==
  ASSUME CountInv, NEW w \in Workers, wpc[w] # "none"
  PROVE  num_threads > 0 /\ num_threads \in Nat
<1>1. w \in threads /\ IsFiniteSet(threads) /\ num_threads = Cardinality(threads)
  BY WorkerSetsFinite DEF CountInv, CountersAgree, TypeOK, InState
<1>2. Cardinality(threads) # 0 /\ Cardinality(threads) \in Nat
  BY <1>1, FS_EmptySet, FS_CardinalityType
<1>. QED  BY <1>1, <1>2

LEMMA PassSafe ==
  ASSUME CountInv, SafeInv, NEW w \in Workers,
         Dispatch(w) \/ DispatchTimedOut(w) \/ FinishTask(w)
  PROVE  SafeInv'
<1>1. PICK active \in Nat, pcs \in [Clients -> ClientPCs],
           fates \in [Tasks -> Fates] :
             /\ wpc[w] # "none"
             /\ \/ FromTask(w, active, pcs, fates)
                \/ FromWait(w, active, pcs, fates)
             /\ Pass(w, active, pcs, fates)
  BY LoopValues
<1>2. num_threads > 0 /\ num_threads \in Nat
  BY <1>1, WorkerCounts
<1>3. ~closed /\ pool_status # "Uninitialized"
  BY <1>2 DEF SafeInv, ClosedNoThreads, FreshEmpty
<1>4. /\ active_threads \in Nat /\ active <= active_threads
      /\ conf.max \in Nat /\ conf.min \in Nat /\ conf.queue \in Int
      /\ queue \in Seq(Tasks) /\ Len(queue) \in Nat
  BY <1>1, PoolAssumption DEF CountInv, TypeOK, FromTask, FromWait
<1>5. \A c \in Clients :
        /\ pcs[c] \in {"shutdown", "shutdown_woken"} => cpc[c] = pcs[c]
        /\ pcs[c] \in {"wait", "waitfor"} =>
             /\ cpc[c] = pcs[c]
             /\ active = 0 => active_threads = 0
  BY <1>1, <1>4 DEF FromTask, FromWait, WakeIdle, CountInv, TypeOK, ClientPCs
<1>6. \A c \in Clients :
        /\ cpc'[c] \in {"shutdown", "shutdown_woken"} =>
             cpc[c] \in {"shutdown", "shutdown_woken"}
        /\ cpc'[c] \in {"wait", "waitfor"} =>
             /\ cpc[c] = cpc'[c]
             /\ active = 0 => active_threads = 0
  BY <1>1, <1>5 DEF Pass, ExitThread, WaitForWork, FetchTask, WakeShutdown
<1>7. /\ pool_status' = pool_status /\ closed' = closed /\ conf' = conf
      /\ queue # <<>> => pool_status = "OK" /\ FetchTask(w, active, pcs, fates)
      /\ queue = <<>> => /\ queue' = <<>> /\ active_threads' = active
      /\ num_threads' = num_threads \/ num_threads' = num_threads - 1
      /\ aborted' = aborted
  BY <1>1 DEF Pass, ExitThread, WaitForWork, FetchTask, SafeInv, ClosedEmpty
<1>8. ClosedEmpty' /\ FreshEmpty' /\ ClosedNoThreads' /\ CheckNeverFails'
  BY <1>3, <1>7 DEF SafeInv, ClosedEmpty, FreshEmpty, ClosedNoThreads, CheckNeverFails
<1>9. ShutdownCallers'
  BY <1>6, <1>7 DEF SafeInv, ShutdownCallers
<1>10. WaiterStrandedOnlyByShutdown'
  <2>1. queue # <<>> => active_threads' > 0
    BY <1>7, <1>4 DEF FetchTask
  <2>. QED  BY <2>1, <1>6, <1>7 DEF SafeInv, WaiterStrandedOnlyByShutdown, Idle
<1>11. CapacityBound'
  <2>1. CASE queue = <<>>
    BY <2>1, <1>4, <1>7, <1>2 DEF SafeInv, CapacityBound
  <2>2. CASE queue # <<>>
    <3>1. Len(queue') = Len(queue) - 1 /\ active_threads' = active + 1
      BY <2>2, <1>4, <1>7 DEF FetchTask
    <3>. QED  BY <2>2, <3>1, <1>4, <1>7, <1>2 DEF SafeInv, CapacityBound
  <2>. QED  BY <2>1, <2>2
<1>. QED  BY <1>8, <1>9, <1>10, <1>11 DEF SafeInv

LEMMA SafeInit == Init => SafeInv
<1>. SUFFICES ASSUME Init PROVE SafeInv
  OBVIOUS
<1>1. CapacityBound
  <2>1. conf.min \in Nat /\ conf.max \in Nat
    BY PoolAssumption DEF Init
  <2>. QED  BY <2>1 DEF Init, CapacityBound
<1>2. ClosedNoThreads
  BY Zenon DEF Init, ClosedNoThreads
<1>3. ClosedEmpty /\ ShutdownCallers /\ FreshEmpty
  BY DEF Init, ClosedEmpty, ShutdownCallers, FreshEmpty
<1>4. CheckNeverFails /\ WaiterStrandedOnlyByShutdown
  BY DEF Init, CheckNeverFails, WaiterStrandedOnlyByShutdown
<1>. QED  BY <1>1, <1>2, <1>3, <1>4 DEF SafeInv

(* Threads and a task added: Init() and an accepted Submit(). *)
LEMMA CreationSafe ==
  ASSUME CountInv, SafeInv
  PROVE  /\ InitPool => SafeInv'
         /\ \A p \in Callers, t \in Tasks : SubmitAccepted(p, t) => SafeInv'
<1>1. /\ conf.min \in Nat /\ conf.max \in Nat /\ conf.queue \in Int
      /\ num_threads \in Nat /\ active_threads \in Nat
      /\ queue_size = Len(queue) /\ queue \in Seq(Tasks) /\ Len(queue) \in Nat
  BY PoolAssumption DEF CountInv, TypeOK, CountersAgree
<1>2. ASSUME InitPool PROVE SafeInv'
  <2>1. PICK W \in Creations(conf.min) :
          /\ StartThreads(W)
          /\ wpc' = [w \in Workers |-> IF w \in W THEN "ready" ELSE wpc[w]]
    BY <1>2 DEF InitPool
  <2>2. Cardinality(W) \in Nat /\ Cardinality(W) <= conf.min
    BY <1>1, <2>1, CreateCounts
  <2>3. num_threads' <= conf.min /\ num_threads = 0
    BY <1>2, <2>1, <2>2, <1>1 DEF InitPool, StartThreads, SafeInv, FreshEmpty
  <2>4. CapacityBound'
    BY <1>2, <2>3, <1>1 DEF InitPool, SafeInv, CapacityBound
  <2>. QED
    BY <1>2, <2>4 DEF InitPool, SafeInv, ClosedEmpty, ShutdownCallers, FreshEmpty,
         ClosedNoThreads, CheckNeverFails, WaiterStrandedOnlyByShutdown, Idle
<1>3. ASSUME NEW p \in Callers, NEW t \in Tasks, SubmitAccepted(p, t)
      PROVE  SafeInv'
  <2>1. PICK W \in Creations(IF WantsThread THEN 1 ELSE 0) :
          /\ StartThreads(W)
          /\ wpc' = [w \in Workers |-> IF w \in W THEN "ready" ELSE wpc[w]]
    BY <1>3 DEF SubmitAccepted
  <2>2. (IF WantsThread THEN 1 ELSE 0) \in Nat
    OBVIOUS
  <2>3. Cardinality(W) \in Nat /\ Cardinality(W) <= (IF WantsThread THEN 1 ELSE 0)
    BY <2>1, <2>2, CreateCounts
  <2>4. num_threads' = num_threads \/ num_threads' <= conf.max
    BY <2>1, <2>3, <1>1 DEF StartThreads, WantsThread
  <2>5. Len(queue') = Len(queue) + 1 /\ queue' # <<>>
    BY <1>1, <1>3 DEF SubmitAccepted
  <2>6. CapacityBound'
    BY SMTT(30), <1>3, <2>4, <2>5, <1>1
    DEF SubmitAccepted, CapacityRemaining, SafeInv, CapacityBound
  <2>. QED
    BY <1>3, <2>5, <2>6
    DEF SubmitAccepted, SafeInv, ClosedEmpty, ShutdownCallers, FreshEmpty,
        ClosedNoThreads, CheckNeverFails, WaiterStrandedOnlyByShutdown, Idle
<1>. QED  BY <1>2, <1>3

LEMMA ClientSafe ==
  ASSUME CountInv, SafeInv, pool_status # "Uninitialized",
         NEW c \in Clients, ClientNext(c)
  PROVE  SafeInv'
<1>. USE DEF CountInv, TypeOK
<1>1. ASSUME NEW from \in ClientPCs, NEW to \in ClientPCs, Step(c, from, to),
             to \in {"wait", "waitfor"} => ~Idle \/ cpc[c] = to,
             to \in {"shutdown", "shutdown_woken"} =>
               from \in {"shutdown", "shutdown_woken"}
      PROVE  SafeInv'
  BY <1>1 DEF Step, poolVars, SafeInv, ClosedEmpty, ShutdownCallers, FreshEmpty,
       ClosedNoThreads, CheckNeverFails, WaiterStrandedOnlyByShutdown,
       CapacityBound, Idle
<1>2. CASE \/ Wait(c) \/ WaitFor(c) \/ WaitRecheck(c) \/ WaitForTimeout(c)
           \/ ClientSpuriousWakeup(c)
  BY <1>1, <1>2
  DEF Wait, WaitFor, WaitRecheck, WaitForTimeout, ClientSpuriousWakeup, ClientPCs
<1>3. CASE ShutdownRecheck(c)
  <2>1. CASE Step(c, "shutdown_woken", "shutdown")
    BY <1>1, <2>1 DEF ClientPCs
  <2>2. CASE ~Step(c, "shutdown_woken", "shutdown")
    BY <1>3, <2>2
    DEF ShutdownRecheck, poolVars, SafeInv, ClosedEmpty, ShutdownCallers,
        FreshEmpty, ClosedNoThreads, CheckNeverFails,
        WaiterStrandedOnlyByShutdown, CapacityBound, Idle
  <2>. QED  BY <2>1, <2>2
<1>4. CASE Shutdown(c)
  <2>1. CapacityBound'
    <3>1. conf.max \in Nat /\ conf.queue \in Int /\ Len(queue) \in Nat
      BY PoolAssumption
    <3>2. Len(queue') = 0
      BY <1>4 DEF Shutdown
    <3>. QED  BY <1>4, <3>1, <3>2 DEF Shutdown, SafeInv, CapacityBound
  <2>2. ClosedEmpty' /\ ShutdownCallers' /\ FreshEmpty'
    BY <1>4 DEF Shutdown, ClosedEmpty, ShutdownCallers, FreshEmpty
  <2>3. ClosedNoThreads' /\ CheckNeverFails' /\ WaiterStrandedOnlyByShutdown'
    BY <1>4 DEF Shutdown, SafeInv, ClosedNoThreads, CheckNeverFails,
                WaiterStrandedOnlyByShutdown
  <2>. QED  BY <2>1, <2>2, <2>3 DEF SafeInv
<1>. QED  BY <1>2, <1>3, <1>4 DEF ClientNext

LEMMA SafeStep == CountInv /\ SafeInv /\ [Next]_vars => SafeInv'
<1>. SUFFICES ASSUME CountInv, SafeInv, [Next]_vars PROVE SafeInv'
  OBVIOUS
<1>. USE DEF SafeInv, ClosedEmpty, ShutdownCallers, FreshEmpty, ClosedNoThreads,
             CheckNeverFails, WaiterStrandedOnlyByShutdown, CapacityBound, Idle
<1>1. CASE UNCHANGED vars
  BY <1>1 DEF vars
<1>2. CASE InitPool
  BY <1>2, CreationSafe
<1>3. ASSUME NEW w \in Workers, WorkerNext(w) PROVE SafeInv'
  <2>1. CASE Dispatch(w) \/ DispatchTimedOut(w) \/ FinishTask(w)
    BY <2>1, PassSafe
  <2>2. CASE IdleTimeout(w) \/ SpuriousWakeup(w) \/ PoolThreadCall(w)
    BY <2>2 DEF IdleTimeout, SpuriousWakeup, PoolThreadCall, poolVars
  <2>. QED  BY <1>3, <2>1, <2>2 DEF WorkerNext
<1>4. ASSUME NEW p \in Callers, SubmitNext(p) PROVE SafeInv'
  <2>1. ASSUME NEW t \in Tasks, SubmitRefused(p, t) PROVE SafeInv'
    BY <2>1 DEF SubmitRefused, poolVars
  <2>2. CASE SubmitSignal(p)
    BY <2>2 DEF SubmitSignal, poolVars
  <2>. QED  BY <1>4, <2>1, <2>2, CreationSafe DEF SubmitNext
<1>. QED  BY <1>1, <1>2, <1>3, <1>4, ClientSafe DEF Next

(* The last worker never leaves a queued task behind: the CHECK at the end *)
(* of DispatchThread() holds.                                              *)
THEOREM CheckCorrect == Spec => []CheckNeverFails
<1>1. SafeInv => CheckNeverFails
  BY DEF SafeInv
<1>. QED  BY <1>1, CountInit, CountStep, SafeInit, SafeStep, PTL DEF Spec

(* The capacity Submit() enforces bounds the load of the pool in every     *)
(* state, for any builder settings.                                        *)
THEOREM CapacityCorrect == Spec => []CapacityBound
<1>1. SafeInv => CapacityBound
  BY DEF SafeInv
<1>. QED  BY <1>1, CountInit, CountStep, SafeInit, SafeStep, PTL DEF Spec

(* Only Shutdown() can leave a caller of Wait() asleep on an idle pool. *)
THEOREM WaitersCorrect == Spec => []WaiterStrandedOnlyByShutdown
<1>1. SafeInv => WaiterStrandedOnlyByShutdown
  BY DEF SafeInv
<1>. QED  BY <1>1, CountInit, CountStep, SafeInit, SafeStep, PTL DEF Spec

-----------------------------------------------------------------------------
(* Where the tasks are. *)
HeldTasks == \A w \in InState("running") : entry[w] \in Tasks
PlaceInv == OnePlacePerTask /\ HeldTasks

LEMMA PlaceInit == Init => PlaceInv
  BY DEF Init, PlaceInv, OnePlacePerTask, HeldTasks, InState

(* The tasks before a pass over the loop: the task a worker comes back     *)
(* with is done, and it is the only one that has changed.                  *)
LEMMA LeftTask ==
  ASSUME CountInv, PlaceInv, NEW w \in Workers,
         NEW active, NEW pcs, NEW fates,
         FromTask(w, active, pcs, fates) \/ FromWait(w, active, pcs, fates)
  PROVE  /\ fates \in [Tasks -> Fates]
         /\ \A t \in Tasks :
              /\ fates[t] = "queued" <=> fate[t] = "queued"
              /\ fates[t] = "running" <=>
                   \E v \in InState("running") \ {w} : entry[v] = t
<1>. USE DEF CountInv, TypeOK, PlaceInv
<1>1. CASE FromWait(w, active, pcs, fates)
  <2>1. w \notin InState("running") /\ fates = fate
    BY <1>1 DEF FromWait, InState
  <2>2. \A t \in Tasks : fate[t] = "running" <=>
                           \E v \in InState("running") : entry[v] = t
    BY DEF OnePlacePerTask
  <2>. QED  BY <2>1, <2>2
<1>2. CASE FromTask(w, active, pcs, fates)
  <2>1. /\ w \in InState("running") /\ entry[w] \in Tasks
        /\ fates = [fate EXCEPT ![entry[w]] = "done"]
    BY <1>2 DEF FromTask, InState, HeldTasks
  <2>2. fate[entry[w]] = "running"
    BY <2>1 DEF OnePlacePerTask
  <2>3. \A t \in Tasks : fates[t] = IF t = entry[w] THEN "done" ELSE fate[t]
    BY <2>1
  <2>4. ASSUME NEW t \in Tasks
        PROVE  fates[t] = "running" <=>
                 \E v \in InState("running") \ {w} : entry[v] = t
    <3>1. fate[t] = "running" <=> \E v \in InState("running") : entry[v] = t
      BY DEF OnePlacePerTask
    <3>2. \A v \in InState("running") : entry[v] = entry[w] => v = w
      BY <2>1 DEF OnePlacePerTask
    <3>3. CASE t = entry[w]
      BY <2>3, <3>2, <3>3
    <3>4. CASE t # entry[w]
      BY <2>3, <3>1, <3>4
    <3>. QED  BY <3>3, <3>4
  <2>5. \A t \in Tasks : fates[t] = "queued" <=> fate[t] = "queued"
    BY <2>2, <2>3
  <2>6. fates \in [Tasks -> Fates]
    BY <2>1 DEF Fates
  <2>. QED  BY <2>4, <2>5, <2>6
<1>. QED  BY <1>1, <1>2

(* The worker leaves the pool or waits for work. *)
LEMMA LeavePlace ==
  ASSUME CountInv, PlaceInv, NEW w \in Workers,
         NEW active, NEW pcs, NEW fates,
         FromTask(w, active, pcs, fates) \/ FromWait(w, active, pcs, fates),
         ExitThread(w, active, pcs, fates) \/ WaitForWork(w, active, pcs, fates)
  PROVE  PlaceInv'
<1>1. /\ queue' = queue /\ fate' = fates
      /\ InState("running")' = InState("running") \ {w}
      /\ \A v \in InState("running") \ {w} : entry'[v] = entry[v]
  BY MoveWorker
  DEF CountInv, TypeOK, ExitThread, WaitForWork, WorkerPCs, InState
<1>2. \A t \in Tasks :
        /\ fates[t] = "queued" <=> fate[t] = "queued"
        /\ fates[t] = "running" <=>
             \E v \in InState("running") \ {w} : entry[v] = t
  BY LeftTask
<1>. QED  BY <1>1, <1>2 DEF PlaceInv, OnePlacePerTask, HeldTasks

(* The worker takes the task at the front of the queue. *)
LEMMA FetchPlace ==
  ASSUME CountInv, PlaceInv, NEW w \in Workers, queue # <<>>,
         NEW active, NEW pcs, NEW fates,
         FromTask(w, active, pcs, fates) \/ FromWait(w, active, pcs, fates),
         FetchTask(w, active, pcs, fates)
  PROVE  PlaceInv'
<1> DEFINE h == Head(queue)
<1>1. /\ queue \in Seq(Tasks) /\ Len(queue) \in Nat /\ Len(queue) > 0
      /\ h = queue[1] /\ h \in Tasks
      /\ Len(Tail(queue)) = Len(queue) - 1
      /\ \A i \in 1..Len(queue) - 1 : Tail(queue)[i] = queue[i + 1]
  BY DEF CountInv, TypeOK
<1>2. /\ fates \in [Tasks -> Fates]
      /\ \A t \in Tasks :
           /\ fates[t] = "queued" <=> fate[t] = "queued"
           /\ fates[t] = "running" <=>
                \E v \in InState("running") \ {w} : entry[v] = t
  BY LeftTask
<1>3. /\ queue' = Tail(queue) /\ fate' = [fates EXCEPT ![h] = "running"]
      /\ InState("running")' = InState("running") \cup {w}
      /\ entry'[w] = h
      /\ \A v \in InState("running") \ {w} : entry'[v] = entry[v]
  BY MoveWorker
  DEF CountInv, TypeOK, FetchTask, WorkerPCs, InState
<1>. HIDE DEF h
<1>4. \A i, j \in 1..Len(queue) : queue[i] = queue[j] => i = j
  BY DEF PlaceInv, OnePlacePerTask
<1>5. \A i, j \in 1..Len(queue') : queue'[i] = queue'[j] => i = j
  BY <1>1, <1>3, <1>4
<1>6. \A t \in Tasks : fate'[t] = IF t = h THEN "running" ELSE fates[t]
  BY <1>1, <1>2, <1>3
<1>7. fates[h] = "queued"
  <2>1. fate[h] = "queued"
    BY <1>1 DEF PlaceInv, OnePlacePerTask
  <2>. QED  BY <1>1, <1>2, <2>1
<1>8. ASSUME NEW t \in Tasks
      PROVE  fate'[t] = "queued" <=> \E i \in 1..Len(queue') : queue'[i] = t
  <2>1. fate[t] = "queued" <=> \E i \in 1..Len(queue) : queue[i] = t
    BY DEF PlaceInv, OnePlacePerTask
  <2>2. CASE t = h
    BY <1>1, <1>3, <1>4, <1>6, <2>2
  <2>3. CASE t # h
    <3>1. fate'[t] = "queued" <=> fate[t] = "queued"
      BY <1>2, <1>6, <2>3
    <3>2. (\E i \in 1..Len(queue) : queue[i] = t) <=>
             \E i \in 1..Len(queue') : queue'[i] = t
      <4>1. ASSUME NEW i \in 1..Len(queue), queue[i] = t
            PROVE  \E k \in 1..Len(queue') : queue'[k] = t
        <5>1. i # 1 /\ i - 1 \in 1..Len(queue')
          BY <1>1, <1>3, <2>3, <4>1
        <5>2. queue'[i - 1] = t
          BY <1>1, <1>3, <4>1, <5>1
        <5>. QED  BY <5>1, <5>2
      <4>2. ASSUME NEW i \in 1..Len(queue'), queue'[i] = t
            PROVE  \E k \in 1..Len(queue) : queue[k] = t
        <5>1. i + 1 \in 1..Len(queue) /\ queue[i + 1] = t
          BY <1>1, <1>3, <4>2
        <5>. QED  BY <5>1
      <4>. QED  BY <4>1, <4>2
    <3>. QED  BY <2>1, <3>1, <3>2
  <2>. QED  BY <2>2, <2>3
<1>9. ASSUME NEW t \in Tasks
      PROVE  fate'[t] = "running" <=>
               \E v \in InState("running")' : entry'[v] = t
  <2>1. CASE t = h
    BY <1>3, <1>6, <2>1
  <2>2. CASE t # h
    <3>1. fate'[t] = "running" <=>
            \E v \in InState("running") \ {w} : entry[v] = t
      BY <1>2, <1>6, <2>2
    <3>. QED  BY <1>3, <2>2, <3>1
  <2>. QED  BY <2>1, <2>2
<1>10. \A v, u \in InState("running")' : entry'[v] = entry'[u] => v = u
  <2>1. \A v \in InState("running") \ {w} : entry[v] # h
    BY <1>1, <1>2, <1>7
  <2>2. \A v, u \in InState("running") : entry[v] = entry[u] => v = u
    BY DEF PlaceInv, OnePlacePerTask
  <2>. QED  BY <1>3, <2>1, <2>2
<1>11. HeldTasks'
  BY <1>1, <1>3 DEF PlaceInv, HeldTasks
<1>. QED
  BY <1>5, <1>8, <1>9, <1>10, <1>11 DEF PlaceInv, OnePlacePerTask

(* Steps that move no task: nothing changes in the queue, with the workers *)
(* that run a task, or in the part of the history that says where tasks    *)
(* are.                                                                    *)
LEMMA PlaceKept ==
  ASSUME PlaceInv, queue' = queue, entry' = entry,
         InState("running")' = InState("running"),
         \A t \in Tasks : /\ fate'[t] = "queued" <=> fate[t] = "queued"
                          /\ fate'[t] = "running" <=> fate[t] = "running"
  PROVE  PlaceInv'
  BY DEF PlaceInv, OnePlacePerTask, HeldTasks

LEMMA AcceptPlace ==
  ASSUME CountInv, PlaceInv, NEW p \in Callers, NEW t \in Tasks,
         SubmitAccepted(p, t)
  PROVE  PlaceInv'
<1>1. PICK W \in Creations(IF WantsThread THEN 1 ELSE 0) :
        /\ StartThreads(W)
        /\ wpc' = [w \in Workers |-> IF w \in W THEN "ready" ELSE wpc[w]]
  BY DEF SubmitAccepted
<1>2. (IF WantsThread THEN 1 ELSE 0) \in Nat
  OBVIOUS
<1>3. InState("running")' = InState("running") /\ entry' = entry
  BY <1>1, <1>2, CreateCounts DEF SubmitAccepted
<1>4. /\ queue \in Seq(Tasks) /\ Len(queue) \in Nat
      /\ Len(queue') = Len(queue) + 1
      /\ queue'[Len(queue) + 1] = t
      /\ \A i \in 1..Len(queue) : queue'[i] = queue[i]
  BY DEF CountInv, TypeOK, SubmitAccepted
<1>5. /\ fate[t] \in {"new", "refused"}
      /\ \A u \in Tasks : fate'[u] = IF u = t THEN "queued" ELSE fate[u]
  BY DEF CountInv, TypeOK, SubmitAccepted
<1>6. \A i \in 1..Len(queue) : queue[i] # t
  BY <1>5 DEF PlaceInv, OnePlacePerTask
<1>7. \A i, j \in 1..Len(queue') : queue'[i] = queue'[j] => i = j
  <2>1. \A i, j \in 1..Len(queue) : queue[i] = queue[j] => i = j
    BY DEF PlaceInv, OnePlacePerTask
  <2>. QED  BY <1>4, <1>6, <2>1
<1>8. \A u \in Tasks : fate'[u] = "queued" <=>
                         \E i \in 1..Len(queue') : queue'[i] = u
  <2>1. \A u \in Tasks : (\E i \in 1..Len(queue') : queue'[i] = u) <=>
                           u = t \/ \E i \in 1..Len(queue) : queue[i] = u
    BY <1>4
  <2>2. \A u \in Tasks : fate[u] = "queued" <=>
                           \E i \in 1..Len(queue) : queue[i] = u
    BY DEF PlaceInv, OnePlacePerTask
  <2>. QED  BY <1>5, <2>1, <2>2
<1>9. \A u \in Tasks : fate'[u] = "running" <=>
                         \E v \in InState("running")' : entry'[v] = u
  BY <1>3, <1>5 DEF PlaceInv, OnePlacePerTask
<1>. QED
  BY <1>3, <1>7, <1>8, <1>9 DEF PlaceInv, OnePlacePerTask, HeldTasks

LEMMA ShutdownPlace ==
  ASSUME CountInv, PlaceInv, NEW c \in Clients, Shutdown(c)
  PROVE  PlaceInv'
<1>1. InState("running")' = InState("running") /\ entry' = entry
  BY DEF Shutdown, InState, CountInv, TypeOK
<1>2. Len(queue') = 0
  BY DEF Shutdown
<1>3. \A t \in Tasks : t \in ToSet(queue) <=> fate[t] = "queued"
  BY DEF PlaceInv, OnePlacePerTask, ToSet
<1>4. \A t \in Tasks : fate'[t] = IF fate[t] = "queued" THEN "dropped" ELSE fate[t]
  BY <1>3 DEF Shutdown
<1>. QED  BY <1>1, <1>2, <1>4 DEF PlaceInv, OnePlacePerTask, HeldTasks

LEMMA PlaceStep == CountInv /\ PlaceInv /\ [Next]_vars => PlaceInv'
<1>. SUFFICES ASSUME CountInv, PlaceInv, [Next]_vars PROVE PlaceInv'
  OBVIOUS
<1>1. CASE UNCHANGED vars
  BY <1>1, PlaceKept DEF vars, InState
<1>2. CASE InitPool
  <2>1. PICK W \in Creations(conf.min) :
          /\ StartThreads(W)
          /\ wpc' = [w \in Workers |-> IF w \in W THEN "ready" ELSE wpc[w]]
    BY <1>2 DEF InitPool
  <2>2. conf.min \in Nat
    BY PoolAssumption DEF CountInv, TypeOK
  <2>3. InState("running")' = InState("running")
    BY <2>1, <2>2, CreateCounts
  <2>. QED  BY <1>2, <2>3, PlaceKept DEF InitPool
<1>3. ASSUME NEW w \in Workers, WorkerNext(w) PROVE PlaceInv'
  <2>1. CASE Dispatch(w) \/ DispatchTimedOut(w) \/ FinishTask(w)
    <3>1. PICK active \in Nat, pcs \in [Clients -> ClientPCs],
               fates \in [Tasks -> Fates] :
                 /\ \/ FromTask(w, active, pcs, fates)
                    \/ FromWait(w, active, pcs, fates)
                 /\ Pass(w, active, pcs, fates)
      BY <2>1, LoopValues
    <3>2. CASE \/ ExitThread(w, active, pcs, fates)
               \/ WaitForWork(w, active, pcs, fates)
      BY <3>1, <3>2, LeavePlace
    <3>3. CASE queue # <<>> /\ FetchTask(w, active, pcs, fates)
      BY <3>1, <3>3, FetchPlace
    <3>. QED  BY <3>1, <3>2, <3>3 DEF Pass
  <2>2. CASE IdleTimeout(w) \/ SpuriousWakeup(w) \/ PoolThreadCall(w)
    <3>1. InState("running")' = InState("running")
      BY <2>2
      DEF IdleTimeout, SpuriousWakeup, PoolThreadCall, InState, CountInv, TypeOK
    <3>. QED  BY <2>2, <3>1, PlaceKept
         DEF IdleTimeout, SpuriousWakeup, PoolThreadCall, poolVars
  <2>. QED  BY <1>3, <2>1, <2>2 DEF WorkerNext
<1>4. ASSUME NEW c \in Clients, ClientNext(c) PROVE PlaceInv'
  <2>1. CASE Shutdown(c)
    BY <2>1, ShutdownPlace
  <2>2. CASE ~Shutdown(c)
    <3>1. queue' = queue /\ entry' = entry /\ wpc' = wpc /\ fate' = fate
      BY <1>4, <2>2 DEF ClientNext, Wait, WaitFor, WaitRecheck, WaitForTimeout,
           ClientSpuriousWakeup, ShutdownRecheck, Step, poolVars
    <3>. QED  BY <3>1, PlaceKept DEF InState
  <2>. QED  BY <2>1, <2>2
<1>5. ASSUME NEW p \in Callers, SubmitNext(p) PROVE PlaceInv'
  <2>1. ASSUME NEW t \in Tasks, SubmitRefused(p, t) PROVE PlaceInv'
    <3>1. \A u \in Tasks : fate'[u] = fate[u] \/ (u = t /\ fate'[u] = "refused")
      BY <2>1 DEF SubmitRefused, CountInv, TypeOK
    <3>. QED  BY <2>1, <3>1, PlaceKept DEF SubmitRefused, poolVars, InState
  <2>2. ASSUME NEW t \in Tasks, SubmitAccepted(p, t) PROVE PlaceInv'
    BY <2>2, AcceptPlace
  <2>3. CASE SubmitSignal(p)
    <3>1. InState("running")' = InState("running")
      BY <2>3 DEF SubmitSignal, InState, CountInv, TypeOK
    <3>. QED  BY <2>3, <3>1, PlaceKept DEF SubmitSignal, poolVars
  <2>. QED  BY <1>5, <2>1, <2>2, <2>3 DEF SubmitNext
<1>. QED  BY <1>1, <1>2, <1>3, <1>4, <1>5 DEF Next

(* No task is lost, duplicated or run twice. *)
THEOREM PlacesCorrect == Spec => []OnePlacePerTask
<1>1. PlaceInv => OnePlacePerTask
  BY DEF PlaceInv
<1>. QED  BY <1>1, CountInit, CountStep, PlaceInit, PlaceStep, PTL DEF Spec

(* When Shutdown() has returned, and ever after, no thread and no task of  *)
(* the pool is left.                                                       *)
THEOREM QuiescentCorrect == Spec => []QuiescentAfterShutdown
<1>1. CountInv /\ SafeInv /\ PlaceInv => QuiescentAfterShutdown
  <2>. SUFFICES ASSUME CountInv, SafeInv, PlaceInv, closed
                PROVE  /\ pool_status = "ServiceUnavailable"
                       /\ threads = {} /\ num_threads = 0
                       /\ queue = <<>> /\ active_threads = 0
                       /\ \A t \in Tasks : fate[t] \notin {"queued", "running"}
    BY DEF QuiescentAfterShutdown
  <2>1. /\ pool_status = "ServiceUnavailable" /\ num_threads = 0
        /\ queue = <<>>
    BY DEF SafeInv, ClosedNoThreads, ClosedEmpty
  <2>2. threads = {}
    BY <2>1, WorkerSetsFinite, FS_EmptySet DEF CountInv, CountersAgree, TypeOK
  <2>3. InState("running") = {}
    BY <2>2 DEF CountInv, CountersAgree, InState
  <2>4. active_threads = 0
    BY <2>3, FS_EmptySet DEF CountInv, CountersAgree
  <2>5. \A t \in Tasks : fate[t] \notin {"queued", "running"}
    BY <2>1, <2>3 DEF PlaceInv, OnePlacePerTask
  <2>. QED  BY <2>1, <2>2, <2>4, <2>5
<1>. QED
  BY <1>1, CountInit, CountStep, SafeInit, SafeStep, PlaceInit, PlaceStep, PTL
  DEF Spec

-----------------------------------------------------------------------------
(* The two sets of whom a wake-up can be expected from are finite. *)
LEMMA WakeupsFinite ==
  TypeOK => /\ IsFiniteSet(signalling) /\ Cardinality(signalling) \in Nat
            /\ IsFiniteSet(Awake) /\ Cardinality(Awake) \in Nat
<1>. SUFFICES ASSUME TypeOK
              PROVE  /\ IsFiniteSet(signalling) /\ Cardinality(signalling) \in Nat
                     /\ IsFiniteSet(Awake) /\ Cardinality(Awake) \in Nat
  OBVIOUS
<1>1. IsFiniteSet(Callers)
  BY PoolAssumption, FS_Union DEF Callers
<1>2. IsFiniteSet(signalling)
  BY <1>1, FS_Subset DEF TypeOK
<1>3. Awake \in SUBSET Workers
  BY DEF Awake, InState
<1>. QED  BY <1>2, <1>3, WorkerSetsFinite, FS_CardinalityType

LEMMA WakeupsFiniteNext ==
  TypeOK' => (Cardinality(signalling) \in Nat /\ Cardinality(Awake) \in Nat)'
<1>1. TypeOK => Cardinality(signalling) \in Nat /\ Cardinality(Awake) \in Nat
  BY WakeupsFinite
<1>. QED  BY <1>1, PTL

(* The ways in which a step keeps the balance of tasks and wake-ups: there *)
(* is nothing queued, nobody waits, or each new task brings a wake-up and  *)
(* each wake-up used takes a task.                                         *)
LEMMA WakeupsKept ==
  ASSUME CountInv, CountInv', NoLostWakeup,
         \/ queue' = <<>>
         \/ InState("wait")' = {}
         \/ /\ InState("wait")' # {} => InState("wait") # {}
            /\ \E a, s, d \in Int :
                 /\ Cardinality(Awake') = Cardinality(Awake) + a
                 /\ Cardinality(signalling') = Cardinality(signalling) + s
                 /\ Len(queue') = Len(queue) + d
                 /\ d <= a + s
  PROVE  NoLostWakeup'
<1>1. /\ Cardinality(signalling) \in Nat /\ Cardinality(Awake) \in Nat
      /\ Len(queue) \in Nat
  BY WakeupsFinite DEF CountInv, TypeOK
<1>2. Cardinality(signalling') \in Nat /\ Cardinality(Awake') \in Nat
  BY WakeupsFiniteNext DEF CountInv
<1>3. CASE queue' = <<>>
  BY <1>2, <1>3 DEF NoLostWakeup
<1>4. CASE InState("wait")' = {}
  BY <1>4 DEF NoLostWakeup
<1>5. CASE /\ InState("wait")' # {} => InState("wait") # {}
           /\ \E a, s, d \in Int :
                /\ Cardinality(Awake') = Cardinality(Awake) + a
                /\ Cardinality(signalling') = Cardinality(signalling) + s
                /\ Len(queue') = Len(queue) + d
                /\ d <= a + s
  BY SMTT(30), <1>1, <1>5 DEF NoLostWakeup
<1>. QED  BY <1>3, <1>4, <1>5

(* A worker that finds a task uses up a wake-up of its own at most. *)
LEMMA PassWakes ==
  ASSUME CountInv, CountInv', SafeInv, NoLostWakeup, NEW w \in Workers,
         Dispatch(w) \/ DispatchTimedOut(w) \/ FinishTask(w)
  PROVE  NoLostWakeup'
<1>1. PICK active \in Nat, pcs \in [Clients -> ClientPCs],
           fates \in [Tasks -> Fates] : Pass(w, active, pcs, fates)
  BY LoopValues
<1>2. CASE ~(queue # <<>> /\ FetchTask(w, active, pcs, fates))
  <2>1. queue' = queue /\ queue = <<>>
    BY <1>1, <1>2 DEF Pass, ExitThread, WaitForWork, SafeInv, ClosedEmpty
  <2>. QED  BY <2>1, WakeupsKept
<1>3. CASE queue # <<>> /\ FetchTask(w, active, pcs, fates)
  <2>1. /\ Len(queue) \in Nat /\ Len(queue') = Len(queue) + (-1)
        /\ signalling' = signalling
        /\ Awake' = Awake \ {w}
        /\ w \notin InState("wait") /\ InState("wait")' = InState("wait")
    BY <1>3 DEF FetchTask, CountInv, TypeOK, Awake, InState, Dispatch,
         DispatchTimedOut, FinishTask
  <2>2. /\ IsFiniteSet(Awake) /\ Cardinality(Awake) \in Nat
        /\ Cardinality(signalling) \in Nat
    BY WakeupsFinite DEF CountInv
  <2>3. \E a \in {0, -1} : Cardinality(Awake') = Cardinality(Awake) + a
    <3>1. CASE w \in Awake
      <4>1. Cardinality(Awake \ {w}) = Cardinality(Awake) - 1
        BY <2>2, <3>1, FS_RemoveElement
      <4>. QED  BY <2>1, <2>2, <4>1
    <3>2. CASE w \notin Awake
      <4>1. Awake' = Awake
        BY <2>1, <3>2
      <4>. QED  BY <2>2, <4>1
    <3>. QED  BY <3>1, <3>2
  <2>4. Cardinality(signalling') = Cardinality(signalling) + 0
    BY <2>1, <2>2
  <2>5. \E a, s, d \in Int :
          /\ Cardinality(Awake') = Cardinality(Awake) + a
          /\ Cardinality(signalling') = Cardinality(signalling) + s
          /\ Len(queue') = Len(queue) + d
          /\ d <= a + s
    <3>1. PICK a \in {0, -1} : Cardinality(Awake') = Cardinality(Awake) + a
      BY <2>3
    <3>2. a \in Int /\ 0 \in Int /\ -1 \in Int /\ -1 <= a + 0
      OBVIOUS
    <3>. QED  BY <2>1, <2>4, <3>1, <3>2
  <2>. QED  BY <2>1, <2>5, WakeupsKept
<1>. QED  BY <1>2, <1>3

(* A task accepted comes with the Signal() its Submit() still has to send. *)
LEMMA AcceptWakes ==
  ASSUME CountInv, CountInv', NoLostWakeup, NEW p \in Callers, NEW t \in Tasks,
         SubmitAccepted(p, t)
  PROVE  NoLostWakeup'
<1>1. PICK W \in Creations(IF WantsThread THEN 1 ELSE 0) :
        wpc' = [w \in Workers |-> IF w \in W THEN "ready" ELSE wpc[w]]
  BY DEF SubmitAccepted
<1>2. W \subseteq InState("none") /\ W \in SUBSET Workers
  BY DEF Creations, InState
<1>3. Awake' = Awake \cup W /\ InState("wait")' = InState("wait")
  BY <1>1, <1>2 DEF Awake, InState
<1>4. /\ IsFiniteSet(Awake) /\ Cardinality(Awake) \in Nat
      /\ IsFiniteSet(signalling) /\ Cardinality(signalling) \in Nat
      /\ IsFiniteSet(Awake \cup W) /\ Cardinality(Awake \cup W) \in Nat
      /\ Cardinality(Awake) <= Cardinality(Awake \cup W)
  <2>1. Awake \cup W \in SUBSET Workers /\ Awake \subseteq Awake \cup W
    BY <1>2 DEF Awake, InState
  <2>2. IsFiniteSet(Awake \cup W) /\ Cardinality(Awake \cup W) \in Nat
    BY <2>1, WorkerSetsFinite
  <2>. QED  BY <2>1, <2>2, WakeupsFinite, FS_Subset DEF CountInv
<1>5. Cardinality(signalling') = Cardinality(signalling) + 1
  <2>1. p \notin signalling /\ signalling' = signalling \cup {p}
    BY DEF SubmitAccepted, CanSubmit
  <2>. QED  BY <1>4, <2>1, FS_AddElement
<1>6. Len(queue) \in Nat /\ Len(queue') = Len(queue) + 1
  BY DEF CountInv, TypeOK, SubmitAccepted
<1>7. \E a \in Nat : Cardinality(Awake') = Cardinality(Awake) + a
  <2>1. Cardinality(Awake \cup W) - Cardinality(Awake) \in Nat
    BY <1>4
  <2>2. Cardinality(Awake')
          = Cardinality(Awake) + (Cardinality(Awake \cup W) - Cardinality(Awake))
    BY <1>3, <1>4
  <2>. QED  BY <2>1, <2>2
<1>8. \E a, s, d \in Int :
        /\ Cardinality(Awake') = Cardinality(Awake) + a
        /\ Cardinality(signalling') = Cardinality(signalling) + s
        /\ Len(queue') = Len(queue) + d
        /\ d <= a + s
  BY <1>5, <1>6, <1>7
<1>. QED  BY <1>3, <1>8, WakeupsKept

(* A wake-up that is delivered moves from its sender to the woken worker;  *)
(* timeouts and spurious wake-ups are wake-ups nobody has to send.         *)
LEMMA DeliverWakes ==
  ASSUME CountInv, CountInv', NoLostWakeup, queue' = queue,
         NEW w \in InState("wait"), NEW s \in {"ready", "timedout"},
         wpc' = [wpc EXCEPT ![w] = s],
         \/ signalling' = signalling
         \/ \E p \in signalling : signalling' = signalling \ {p}
  PROVE  NoLostWakeup'
<1>1. /\ Awake' = Awake \cup {w} /\ w \notin Awake
      /\ InState("wait") # {}
  BY DEF Awake, InState, CountInv, TypeOK
<1>2. /\ IsFiniteSet(Awake) /\ Cardinality(Awake) \in Nat
      /\ IsFiniteSet(signalling) /\ Cardinality(signalling) \in Nat
  BY WakeupsFinite DEF CountInv
<1>3. Cardinality(Awake') = Cardinality(Awake) + 1
  BY <1>1, <1>2, FS_AddElement
<1>4. \E n \in {0, -1} : Cardinality(signalling') = Cardinality(signalling) + n
  <2>1. CASE signalling' = signalling
    BY <1>2, <2>1
  <2>2. ASSUME NEW p \in signalling, signalling' = signalling \ {p}
        PROVE  Cardinality(signalling') = Cardinality(signalling) + (-1)
    <3>1. Cardinality(signalling \ {p}) = Cardinality(signalling) - 1
      BY <1>2, FS_RemoveElement
    <3>. QED  BY <1>2, <2>2, <3>1
  <2>. QED  BY <2>1, <2>2
<1>5. Len(queue) \in Nat /\ Len(queue') = Len(queue) + 0
  BY DEF CountInv, TypeOK
<1>6. \E a, n, d \in Int :
        /\ Cardinality(Awake') = Cardinality(Awake) + a
        /\ Cardinality(signalling') = Cardinality(signalling) + n
        /\ Len(queue') = Len(queue) + d
        /\ d <= a + n
  <2>1. PICK n \in {0, -1} : Cardinality(signalling') = Cardinality(signalling) + n
    BY <1>4
  <2>2. 1 \in Int /\ n \in Int /\ 0 \in Int /\ 0 <= 1 + n
    OBVIOUS
  <2>. QED  BY <1>3, <1>5, <2>1, <2>2
<1>. QED  BY <1>1, <1>6, WakeupsKept

LEMMA WakeupStep ==
  CountInv /\ CountInv' /\ SafeInv /\ NoLostWakeup /\ [Next]_vars => NoLostWakeup'
<1>. SUFFICES ASSUME CountInv, CountInv', SafeInv, NoLostWakeup, [Next]_vars
              PROVE  NoLostWakeup'
  OBVIOUS
<1>1. ASSUME queue' = queue, signalling' = signalling, wpc' = wpc
      PROVE  NoLostWakeup'
  BY <1>1 DEF NoLostWakeup, Awake, InState
<1>2. CASE UNCHANGED vars
  BY <1>1, <1>2 DEF vars
<1>3. CASE InitPool
  <2>1. queue' = <<>>
    BY <1>3 DEF InitPool, SafeInv, ClosedEmpty
  <2>. QED  BY <2>1, WakeupsKept
<1>4. ASSUME NEW w \in Workers, WorkerNext(w) PROVE NoLostWakeup'
  <2>1. CASE Dispatch(w) \/ DispatchTimedOut(w) \/ FinishTask(w)
    BY <2>1, PassWakes
  <2>2. CASE IdleTimeout(w) \/ SpuriousWakeup(w)
    <3>1. w \in InState("wait") /\ queue' = queue /\ signalling' = signalling
      BY <2>2 DEF IdleTimeout, SpuriousWakeup, InState, poolVars
    <3>2. \E s \in {"ready", "timedout"} : wpc' = [wpc EXCEPT ![w] = s]
      BY <2>2 DEF IdleTimeout, SpuriousWakeup
    <3>. QED  BY <3>1, <3>2, DeliverWakes
  <2>3. CASE PoolThreadCall(w)
    BY <1>1, <2>3 DEF PoolThreadCall, poolVars
  <2>. QED  BY <1>4, <2>1, <2>2, <2>3 DEF WorkerNext
<1>5. ASSUME NEW c \in Clients, ClientNext(c) PROVE NoLostWakeup'
  <2>1. CASE Shutdown(c)
    BY <2>1, WakeupsKept DEF Shutdown
  <2>2. CASE ~Shutdown(c)
    <3>1. queue' = queue /\ signalling' = signalling /\ wpc' = wpc
      BY <1>5, <2>2 DEF ClientNext, Wait, WaitFor, WaitRecheck, WaitForTimeout,
           ClientSpuriousWakeup, ShutdownRecheck, Step, poolVars
    <3>. QED  BY <1>1, <3>1
  <2>. QED  BY <2>1, <2>2
<1>6. ASSUME NEW p \in Callers, SubmitNext(p) PROVE NoLostWakeup'
  <2>1. ASSUME NEW t \in Tasks, SubmitRefused(p, t) PROVE NoLostWakeup'
    BY <1>1, <2>1 DEF SubmitRefused, poolVars
  <2>2. ASSUME NEW t \in Tasks, SubmitAccepted(p, t) PROVE NoLostWakeup'
    BY <2>2, AcceptWakes
  <2>3. CASE SubmitSignal(p)
    <3>1. /\ p \in signalling /\ signalling' = signalling \ {p}
          /\ queue' = queue
      BY <2>3 DEF SubmitSignal, poolVars
    <3>2. CASE InState("wait") = {} /\ wpc' = wpc
      <4>1. InState("wait")' = {}
        BY <3>2 DEF InState
      <4>. QED  BY <4>1, WakeupsKept
    <3>3. ASSUME NEW w \in InState("wait"), wpc' = [wpc EXCEPT ![w] = "ready"]
          PROVE  NoLostWakeup'
      BY <3>1, <3>3, DeliverWakes
    <3>. QED  BY <2>3, <3>2, <3>3 DEF SubmitSignal
  <2>. QED  BY <1>6, <2>1, <2>2, <2>3 DEF SubmitNext
<1>. QED  BY <1>2, <1>3, <1>4, <1>5, <1>6 DEF Next

(* No wake-up for a queued task is ever lost: while a worker sleeps, each  *)
(* queued task has a Signal() still to come, which Submit() sends after it *)
(* released lock_, or a worker on its way.                                 *)
THEOREM WakeupsCorrect == Spec => []NoLostWakeup
<1>1. Init => NoLostWakeup
  BY DEF Init, NoLostWakeup, InState
<1>. QED
  BY <1>1, CountInit, CountStep, SafeInit, SafeStep, WakeupStep, PTL DEF Spec

-----------------------------------------------------------------------------
(* The pool implements TaskExecutor.  The tasks that run, as the executor  *)
(* sees them.                                                              *)
Running == {entry[w] : w \in InState("running")}
InFate(f) == {t \in Tasks : fate[t] = f}
Limit == IF conf.min > conf.max THEN conf.min ELSE conf.max

AllInv == CountInv /\ SafeInv /\ PlaceInv

(* Steps the executor does not see. *)
LEMMA UnseenStep ==
  ASSUME pool_status' # "ServiceUnavailable" <=> pool_status # "ServiceUnavailable",
         conf' = conf, queue' = queue, Running' = Running,
         \A t \in Tasks : /\ fate'[t] = "done" <=> fate[t] = "done"
                          /\ fate'[t] = "dropped" <=> fate[t] = "dropped"
  PROVE  UNCHANGED Executor!vars
<1>1. InFate("done")' = InFate("done") /\ InFate("dropped")' = InFate("dropped")
  BY DEF InFate
<1>2. (pool_status # "ServiceUnavailable")' = (pool_status # "ServiceUnavailable")
  BY Zenon
<1>. QED  BY <1>1, <1>2, Zenon DEF Executor!vars, InFate, Running

(* A task is known to the executor from its acceptance on. *)
LEMMA KnownTasks ==
  ASSUME AllInv, NEW t \in Tasks, fate[t] \in {"new", "refused"}
  PROVE  t \notin Executor!Known
<1>1. t \notin ToSet(queue)
  BY DEF AllInv, PlaceInv, OnePlacePerTask, ToSet
<1>2. t \notin Running
  BY DEF AllInv, PlaceInv, OnePlacePerTask, Running
<1>. QED  BY <1>1, <1>2 DEF Executor!Known, Running, ToSet, Executor!ToSet

LEMMA AcceptStep ==
  ASSUME AllInv, NEW p \in Callers, NEW t \in Tasks, SubmitAccepted(p, t)
  PROVE  Executor!Next
<1>1. PICK W \in Creations(IF WantsThread THEN 1 ELSE 0) :
        /\ StartThreads(W)
        /\ wpc' = [w \in Workers |-> IF w \in W THEN "ready" ELSE wpc[w]]
  BY DEF SubmitAccepted
<1>2. (IF WantsThread THEN 1 ELSE 0) \in Nat
  OBVIOUS
<1>3. InState("running")' = InState("running") /\ entry' = entry
  BY <1>1, <1>2, CreateCounts DEF SubmitAccepted, AllInv
<1>4. Running' = Running
  BY <1>3 DEF Running
<1>5. t \notin Executor!Known
  BY KnownTasks DEF SubmitAccepted
<1>6. \A u \in Tasks : fate'[u] = IF u = t THEN "queued" ELSE fate[u]
  BY DEF AllInv, CountInv, TypeOK, SubmitAccepted
<1>7. fate[t] \in {"new", "refused"}
  BY DEF SubmitAccepted
<1>8. InFate("done")' = InFate("done") /\ InFate("dropped")' = InFate("dropped")
  BY <1>6, <1>7 DEF InFate
<1>9. /\ pool_status = "OK" /\ pool_status' = "OK" /\ conf' = conf
      /\ queue' = Append(queue, t)
  BY DEF SubmitAccepted
<1>10. Executor!Accept(t)
  BY <1>4, <1>5, <1>8, <1>9 DEF Executor!Accept, Running, InFate
<1>. QED  BY <1>10 DEF Executor!Next

LEMMA CloseStep ==
  ASSUME AllInv, NEW c \in Clients, Shutdown(c)
  PROVE  Executor!Next
<1>1. InState("running")' = InState("running") /\ entry' = entry
  BY DEF Shutdown, InState, AllInv, CountInv, TypeOK
<1>2. Running' = Running
  BY <1>1 DEF Running
<1>3. \A t \in Tasks : t \in ToSet(queue) <=> fate[t] = "queued"
  BY DEF AllInv, PlaceInv, OnePlacePerTask, ToSet
<1>4. \A t \in Tasks : fate'[t] = IF fate[t] = "queued" THEN "dropped" ELSE fate[t]
  BY <1>3 DEF Shutdown
<1>5. ToSet(queue) \subseteq Tasks
  BY DEF AllInv, CountInv, TypeOK, ToSet
<1>6. /\ InFate("done")' = InFate("done")
      /\ InFate("dropped")' = InFate("dropped") \cup ToSet(queue)
  BY <1>3, <1>4, <1>5 DEF InFate
<1>7. pool_status' = "ServiceUnavailable" /\ conf' = conf /\ queue' = <<>>
  BY DEF Shutdown
<1>8. (pool_status # "ServiceUnavailable")' = FALSE
  BY <1>7
<1>9. Executor!Close
  BY <1>2, <1>6, <1>7, <1>8 DEF Executor!Close, Running, InFate, ToSet, Executor!ToSet
<1>. QED  BY <1>9 DEF Executor!Next

(* There is a thread for every running task, so that the bound on threads  *)
(* bounds the tasks: what is left of the running ones when a worker comes  *)
(* for the next is below the limit.                                        *)
LEMMA RoomToRun ==
  ASSUME AllInv, NEW w \in Workers, wpc[w] # "none"
  PROVE  Cardinality({entry[v] : v \in InState("running") \ {w}}) < Limit
<1> DEFINE V == InState("running") \ {w}
<1>1. V \subseteq threads \ {w} /\ w \in threads
  BY DEF AllInv, CountInv, CountersAgree, InState
<1>2. /\ IsFiniteSet(threads) /\ IsFiniteSet(threads \ {w})
      /\ Cardinality(threads) \in Nat
      /\ Cardinality(threads \ {w}) \in Nat
  BY WorkerSetsFinite DEF AllInv, CountInv, TypeOK
<1>3. Cardinality(threads \ {w}) = Cardinality(threads) - 1
  BY <1>1, <1>2, FS_RemoveElement
<1>4. IsFiniteSet(V) /\ Cardinality(V) \in Nat /\ Cardinality(V) <= Cardinality(threads \ {w})
  BY <1>1, <1>2, FS_Subset, FS_CardinalityType
<1>. HIDE DEF V
<1>5. /\ Cardinality({entry[v] : v \in V}) \in Nat
      /\ Cardinality({entry[v] : v \in V}) <= Cardinality(V)
  <2>1. /\ IsFiniteSet({entry[v] : v \in V})
        /\ Cardinality({entry[v] : v \in V}) <= Cardinality(V)
    <3>1. \E f : f \in Surjection(V, {entry[v] : v \in V})
      <4>1. [v \in V |-> entry[v]] \in Surjection(V, {entry[v] : v \in V})
        BY DEF Surjection
      <4>. QED  BY <4>1
    <3>. QED  BY <1>4, <3>1, FS_Surjection
  <2>. QED  BY <2>1, FS_CardinalityType
<1>6. /\ num_threads = Cardinality(threads)
      /\ num_threads <= conf.min \/ num_threads <= conf.max
      /\ conf.min \in Nat /\ conf.max \in Nat
  BY PoolAssumption DEF AllInv, CountInv, CountersAgree, TypeOK, SafeInv, CapacityBound
<1>7. Cardinality({entry[v] : v \in V}) < Limit
  BY <1>2, <1>3, <1>4, <1>5, <1>6 DEF Limit
<1>. QED  BY <1>7 DEF V

(* A pass over the loop: the executor sees the task end that the worker    *)
(* comes back with, and the one begin that it leaves with, in one step.    *)
LEMMA PassStep ==
  ASSUME AllInv, NEW w \in Workers,
         Dispatch(w) \/ DispatchTimedOut(w) \/ FinishTask(w)
  PROVE  Executor!Next \/ UNCHANGED Executor!vars
<1>1. PICK active \in Nat, pcs \in [Clients -> ClientPCs],
           fates \in [Tasks -> Fates] :
             /\ wpc[w] # "none"
             /\ \/ FromTask(w, active, pcs, fates)
                \/ FromWait(w, active, pcs, fates)
             /\ Pass(w, active, pcs, fates)
  BY LoopValues DEF AllInv
<1> DEFINE left == {entry[v] : v \in InState("running") \ {w}}
           ended == IF wpc[w] = "running" THEN {entry[w]} ELSE {}
<1>2. /\ left = Running \ ended /\ ended \subseteq Running
      /\ ended \subseteq Tasks
      /\ \A t \in Tasks : /\ fates[t] = "done" <=> fate[t] = "done" \/ t \in ended
                          /\ fates[t] = "dropped" <=> fate[t] = "dropped"
  <2>1. CASE FromWait(w, active, pcs, fates)
    <3>1. wpc[w] # "running" /\ fates = fate
      BY <2>1 DEF FromWait
    <3>. QED  BY <3>1 DEF Running, InState
  <2>2. CASE FromTask(w, active, pcs, fates)
    <3>1. /\ w \in InState("running") /\ wpc[w] = "running"
          /\ entry[w] \in Tasks /\ fates = [fate EXCEPT ![entry[w]] = "done"]
      BY <2>2 DEF FromTask, InState, AllInv, PlaceInv, HeldTasks
    <3>2. fate[entry[w]] = "running"
      BY <3>1 DEF AllInv, PlaceInv, OnePlacePerTask
    <3>3. \A t \in Tasks : fates[t] = IF t = entry[w] THEN "done" ELSE fate[t]
      BY <3>1 DEF AllInv, CountInv, TypeOK
    <3>4. \A v \in InState("running") : entry[v] = entry[w] => v = w
      BY <3>1 DEF AllInv, PlaceInv, OnePlacePerTask
    <3>5. left = Running \ ended
      BY <3>1, <3>4 DEF Running
    <3>6. ended \subseteq Running /\ ended \subseteq Tasks
      BY <3>1 DEF Running
    <3>. QED  BY <3>1, <3>2, <3>3, <3>5, <3>6
  <2>. QED  BY <1>1, <2>1, <2>2
<1>3. Cardinality(left) < Limit
  BY <1>1, RoomToRun
<1>4. ended = {} \/ \E t \in Running : ended = {t}
  BY <1>2
<1>. HIDE DEF left, ended
<1>5. CASE ExitThread(w, active, pcs, fates) \/ WaitForWork(w, active, pcs, fates)
  <2>1. /\ queue' = queue /\ fate' = fates /\ conf' = conf
        /\ pool_status' = pool_status
        /\ InState("running")' = InState("running") \ {w}
        /\ \A v \in InState("running") \ {w} : entry'[v] = entry[v]
    BY <1>5, MoveWorker
    DEF AllInv, CountInv, TypeOK, ExitThread, WaitForWork, WorkerPCs, InState
  <2>2. Running' = left
    BY <2>1 DEF Running, left
  <2>3. CASE ended = {}
    <3>1. Running' = Running
      BY <1>2, <2>2, <2>3
    <3>2. UNCHANGED Executor!vars
      BY <1>2, <2>1, <2>3, <3>1, UnseenStep
    <3>. QED  BY <3>2
  <2>4. ASSUME NEW t \in Running, ended = {t} PROVE Executor!Next
    <3>1. t \in Tasks /\ Running' = Running \ {t}
      BY <1>2, <2>2, <2>4
    <3>2. /\ InFate("done")' = InFate("done") \cup {t}
          /\ InFate("dropped")' = InFate("dropped")
      BY <1>2, <2>1, <2>4, <3>1 DEF InFate
    <3>3. Executor!End(t)
      BY <2>1, <3>1, <3>2 DEF Executor!End, InFate, Running
    <3>. QED  BY <3>1, <3>3 DEF Executor!Next
  <2>. QED  BY <1>4, <2>3, <2>4
<1>6. CASE /\ pool_status = "OK" /\ queue # <<>>
           /\ FetchTask(w, active, pcs, fates)
  <2> DEFINE h == Head(queue)
  <2>1. h \in Tasks /\ fate[h] = "queued"
    <3>1. /\ queue \in Seq(Tasks) /\ 1 \in 1..Len(queue) /\ h = queue[1]
      BY <1>6 DEF AllInv, CountInv, TypeOK
    <3>. QED  BY <3>1 DEF AllInv, PlaceInv, OnePlacePerTask
  <2>2. /\ queue' = Tail(queue) /\ fate' = [fates EXCEPT ![h] = "running"]
        /\ conf' = conf /\ pool_status' = pool_status
        /\ InState("running")' = InState("running") \cup {w}
        /\ entry'[w] = h
        /\ \A v \in InState("running") \ {w} : entry'[v] = entry[v]
    BY <1>6, MoveWorker
    DEF AllInv, CountInv, TypeOK, FetchTask, WorkerPCs, InState
  <2>. HIDE DEF h
  <2>3. Running' = left \cup {h}
    BY <2>2 DEF Running, left
  <2>4. \A t \in Tasks : fate'[t] = IF t = h THEN "running" ELSE fates[t]
    BY <2>2
  <2>5. h \notin ended
    <3>1. \A t \in Running : t \in Tasks => fate[t] = "running"
      BY DEF AllInv, PlaceInv, OnePlacePerTask, Running
    <3>. QED  BY <1>2, <2>1, <3>1
  <2>6. /\ InFate("done")' = InFate("done") \cup ended
        /\ InFate("dropped")' = InFate("dropped")
    BY <1>2, <2>1, <2>4, <2>5 DEF InFate
  <2>7. \A e : e = ended => Executor!Begin(e)
    <3>1. pool_status # "ServiceUnavailable" /\ pool_status' # "ServiceUnavailable"
      BY <1>6, <2>2
    <3>2. (pool_status # "ServiceUnavailable")' = (pool_status # "ServiceUnavailable")
      BY <3>1, Zenon
    <3>3. Running' = (Running \ ended) \cup {Head(queue)}
      BY <1>2, <2>3 DEF h
    <3>4. Executor!Cardinality(Running \ ended) < Limit
      <4>1. Cardinality(Running \ ended) < Limit
        BY <1>2, <1>3
      <4>. QED  BY <4>1, Zenon DEF Cardinality, Executor!Cardinality
    <3>5. Limit' = Limit
      BY <2>2 DEF Limit
    <3>6. queue # <<>> /\ queue' = Tail(queue)
      BY <1>6, <2>2
    <3>. QED
      BY <2>6, <3>1, <3>2, <3>3, <3>4, <3>5, <3>6, Zenon
      DEF Executor!Begin, InFate, Running, Limit
  <2>8. CASE ended = {}
    <3>1. Executor!Begin({})
      BY <2>7, <2>8
    <3>. QED  BY <3>1, Zenon DEF Executor!Next
  <2>9. ASSUME NEW t \in Running, ended = {t} PROVE Executor!Next
    <3>1. Executor!Begin({t})
      BY <2>7, <2>9
    <3>. QED  BY <2>9, <3>1, Zenon DEF Executor!Next, Running
  <2>. QED  BY <1>4, <2>8, <2>9
<1>. QED  BY <1>1, <1>5, <1>6 DEF Pass

(* Every step of the pool is a step of the executor, or none. *)
LEMMA ExecutorStep ==
  AllInv /\ [Next]_vars => [Executor!Next]_(Executor!vars)
<1>. SUFFICES ASSUME AllInv, [Next]_vars
              PROVE  Executor!Next \/ UNCHANGED Executor!vars
  OBVIOUS
<1>1. ASSUME pool_status' = pool_status, conf' = conf, queue' = queue,
             InState("running")' = InState("running"), entry' = entry,
             fate' = fate
      PROVE  UNCHANGED Executor!vars
  <2>1. Running' = Running
    BY <1>1 DEF Running
  <2>. QED  BY <1>1, <2>1, UnseenStep
<1>2. CASE UNCHANGED vars
  BY <1>1, <1>2 DEF vars, InState
<1>3. CASE InitPool
  <2>1. PICK W \in Creations(conf.min) :
          /\ StartThreads(W)
          /\ wpc' = [w \in Workers |-> IF w \in W THEN "ready" ELSE wpc[w]]
    BY <1>3 DEF InitPool
  <2>2. conf.min \in Nat
    BY PoolAssumption DEF AllInv, CountInv, TypeOK
  <2>3. InState("running")' = InState("running")
    BY <2>1, <2>2, CreateCounts DEF AllInv
  <2>4. Running' = Running
    BY <1>3, <2>3 DEF Running, InitPool
  <2>. QED  BY <1>3, <2>4, UnseenStep DEF InitPool
<1>4. ASSUME NEW w \in Workers, WorkerNext(w)
      PROVE  Executor!Next \/ UNCHANGED Executor!vars
  <2>1. CASE Dispatch(w) \/ DispatchTimedOut(w) \/ FinishTask(w)
    BY <2>1, PassStep
  <2>2. CASE IdleTimeout(w) \/ SpuriousWakeup(w) \/ PoolThreadCall(w)
    <3>1. InState("running")' = InState("running")
      BY <2>2
      DEF IdleTimeout, SpuriousWakeup, PoolThreadCall, InState, AllInv, CountInv,
          TypeOK
    <3>. QED  BY <1>1, <2>2, <3>1
         DEF IdleTimeout, SpuriousWakeup, PoolThreadCall, poolVars
  <2>. QED  BY <1>4, <2>1, <2>2 DEF WorkerNext
<1>5. ASSUME NEW c \in Clients, ClientNext(c)
      PROVE  Executor!Next \/ UNCHANGED Executor!vars
  <2>1. CASE Shutdown(c)
    BY <2>1, CloseStep
  <2>2. CASE ~Shutdown(c)
    <3>1. /\ pool_status' = pool_status /\ conf' = conf /\ queue' = queue
          /\ entry' = entry /\ wpc' = wpc /\ fate' = fate
      BY <1>5, <2>2 DEF ClientNext, Wait, WaitFor, WaitRecheck, WaitForTimeout,
           ClientSpuriousWakeup, ShutdownRecheck, Step, poolVars
    <3>. QED  BY <1>1, <3>1 DEF InState
  <2>. QED  BY <2>1, <2>2
<1>6. ASSUME NEW p \in Callers, SubmitNext(p)
      PROVE  Executor!Next \/ UNCHANGED Executor!vars
  <2>1. ASSUME NEW t \in Tasks, SubmitRefused(p, t)
        PROVE  UNCHANGED Executor!vars
    <3>1. \A u \in Tasks : fate'[u] = IF u = t THEN "refused" ELSE fate[u]
      BY <2>1 DEF SubmitRefused, AllInv, CountInv, TypeOK
    <3>2. fate[t] \in {"new", "refused"} /\ Running' = Running
      BY <2>1 DEF SubmitRefused, Running, InState
    <3>. QED  BY <2>1, <3>1, <3>2, UnseenStep DEF SubmitRefused, poolVars
  <2>2. ASSUME NEW t \in Tasks, SubmitAccepted(p, t) PROVE Executor!Next
    BY <2>2, AcceptStep
  <2>3. CASE SubmitSignal(p)
    <3>1. InState("running")' = InState("running")
      BY <2>3 DEF SubmitSignal, InState, AllInv, CountInv, TypeOK
    <3>. QED  BY <1>1, <2>3, <3>1 DEF SubmitSignal, poolVars
  <2>. QED  BY <1>6, <2>1, <2>2, <2>3 DEF SubmitNext
<1>. QED  BY <1>2, <1>3, <1>4, <1>5, <1>6 DEF Next

LEMMA ExecutorInit == Init => Executor!Init
<1>. SUFFICES ASSUME Init PROVE Executor!Init
  OBVIOUS
<1>1. Running = {} /\ InFate("done") = {} /\ InFate("dropped") = {}
  BY DEF Init, Running, InFate, InState
<1>2. Limit \in Nat
  BY PoolAssumption DEF Init, Limit
<1>3. (pool_status # "ServiceUnavailable") = TRUE
  BY DEF Init
<1>4. queue = <<>>
  BY DEF Init
<1>. QED  BY <1>1, <1>2, <1>3, <1>4 DEF Executor!Init, Running, InFate, Limit

(* The pool implements the executor its users rely on: whatever threads,   *)
(* timeouts, wake-ups and failures of thread creation do, tasks start in   *)
(* the order of their acceptance, each at most once, no more than the      *)
(* larger of min_threads_ and max_threads_ at a time, and Shutdown() drops *)
(* exactly those that have not started.                                    *)
THEOREM ExecutorCorrect == Spec => ExecutorSpec
<1>1. Init => AllInv
  BY CountInit, SafeInit, PlaceInit DEF AllInv
<1>2. AllInv /\ [Next]_vars => AllInv'
  BY CountStep, SafeStep, PlaceStep DEF AllInv
<1>. QED
  BY <1>1, <1>2, ExecutorInit, ExecutorStep, PTL
  DEF Spec, ExecutorSpec, Executor!Spec

=============================================================================
