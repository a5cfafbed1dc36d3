# A TLA+ verification project for bboy

bboy is a C++ support library and RPC/security toolkit (a descendant of Apache
Kudu's `util`, `rpc` and `security`): `src/src/bboy/base` holds threads, locks,
queues, memory accounting, files, processes and sockets, `src/src/bboy/security`
tokens, certificates, TLS and Kerberos, `src/src/bboy/rpc` the beginnings of an
RPC layer, and `src/src/bboy/gbase` code vendored from Chromium and Google.

This directory models the concurrent and stateful core of it in TLA+, checks the
models with TLC on small instances and proves every safety property of the passing
runs with TLAPS for instances of any size. `PROJECT.json` lists components, runs, hazards and, in `map`, the source
lines each definition stands for. Paths below are relative to `src/src/bboy`.

## 1. Inventory

| Component | State | Operations | Works with | What is hard | What makes it correct |
|---|---|---|---|---|---|
| ThreadPool (`base/thread/threadpool`) | queue, three counters, set of threads, status; all under `lock_` | Init, Submit*, Wait, WaitFor, Shutdown, DispatchThread | Thread, ConditionVariable; tasks call back into Submit | `Signal()` after `Unlock()`; workers that time out; Shutdown against everybody; hidden failures of thread creation | tasks run at most once, in order, within capacity; no lost wake-up; Shutdown leaves nothing behind |
| Thread, ThreadJoiner, ThreadMgr (`base/thread/thread`) | `tid_`, `joinable_`, `done_`, reference count, registry | StartThread, SuperviseThread, FinishThread, Join, CallAtExit | CountDownLatch, pthreads | two spin loops on one word with two sentinel values; timeouts of Join against the end of the thread | object outlives its users; the pthread is released once |
| BlockingQueue (`base/sync/blocking_queue.h`) | list, logical size, shut-down flag | Put, BlockingPut, BlockingGet, BlockingDrainTo, Shutdown, gscoped_ptr overloads | ConditionVariable, Mutex | one signal for several waiters; Signal after Unlock; ownership of pointers | FIFO, nothing lost, sizes add up, everybody wakes on Shutdown |
| MemTracker (`base/mem_tracker`, `base/high_water_mark.h`) | consumption and peak per tracker, limits, GC functions, tree | Consume, TryConsume, Release, GcMemory, LimitExceeded, CreateTracker, ListTrackers, ... | atomics; GC functions call back into Release | no lock over the walk to the root; roll-back; weak parents and children; recursion into its own lock | consumption balances; TryConsume respects limits |
| TokenSigner, TokenVerifier (`security/token_*`) | deque of at most two keys, next sequence number, map of public keys | ImportKeys, CheckNeedKey, AddKey, TryRotateKey, SignToken, ExportKeys, VerifyTokenSignature | system table, remote verifiers, clock | crash between any two steps; lost answers; two lock scopes in one method; arithmetic of intervals | numbers identify keys; keys known before used; keys outlive tokens |
| Mutex, ConditionVariable (`base/sync/mutex`, `condition_variable`) | owner (debug) | Acquire, Wait, TimedWait, Signal, Broadcast | everything above | spurious wake-ups, wake-ups before a return | modelled inside their users |
| Reader-writer locks (`base/sync/rw_semaphore.h`, `locks.h`, `rwc_lock`, `rw_mutex`) | a 32-bit word; an array of them; a counter and a flag | lock, unlock, upgrade to commit | each other | CAS loops, writers against streams of readers | mutual exclusion; a writer gets in |
| Barrier, Semaphore, Once, Promise, Synchronizer (`base/sync`) | counters, a latch and a value | Wait, Post, Set, Get | CountDownLatch | reuse of a barrier by the next cycle | nobody passes early |
| Subprocess (`base/process/subprocess`) | NotStarted/Running/Exited, child pid, pipes | Start, Wait, WaitNoBlock, Kill, Call | fork, exec, pipes, signals | synchronization pipe, descriptors closed in the child, errors half-way | child reaped once, no descriptor leaked |
| Env, files (`base/env*`, `base/path_util`) | descriptor, size, pre-allocated size, `pending_sync_` | Append, Write, PreAllocate, Truncate, Flush, Sync, Close, LockFile, ... | kernel | short writes, failing sync, crash between write and sync | what was synced survives |
| Socket, net utilities (`base/net`) | a descriptor | BlockingRead, BlockingWrite, Accept, Connect, options | kernel, TlsSocket | short transfers, EINTR, deadlines | exact byte counts, no double close |
| AcceptorPool, Messenger (`rpc`) | threads, closing flag, socket | Start, Shutdown, RunThread | Thread, Socket | Shutdown against Accept | threads end, start failures undone |
| Kerberos (`security/init`) | credential cache, back-off | Init, RenewThread, DoRenewal | krb5 | back-off overflow, partially stored credentials, errors taken for the end of the cache | a ticket is there while renewal succeeds |
| TLS (`security/tls_*`) | certificate state, handshake state, corked bytes | Continue, Finish, Use*Cert, Writev | OpenSSL, Socket | hand-over of the descriptor | cert states only go forward |
| Certificates, keys (`security/ca`, `cert`, `crypto`, `openssl_util`, `x509_check_host`) | none | wrappers | OpenSSL | host-name matching | - |
| JSON, time, Status, Slice, faststring, ObjectPool, random, user, debug (`base`) | buffers | - | - | growth arithmetic | - |
| SpinLock, GoogleOnce (`gbase`) | one word each | Lock, Unlock, Init | futex; under every simple_spinlock and once | marks of sleepers against CAS and exchange | exclusion, one run, no sleeper forgotten |
| the rest of gbase | vendored | - | - | - | not ours |

No component talks to another through messages inside one process; they call
each other and share memory. Calls that matter here: the pool creates Threads,
joiners wait on a latch, MemTracker's GC functions call Release(), TokenSigner
feeds its embedded TokenVerifier, whose exported keys travel to other processes.

## 2. Modules and how they correspond to the code

A critical section (lock to unlock or to a condition-variable wait) is one
action; anything the code does outside a lock is a step of its own. Condition
variables are modelled by where their users are: `Signal()` moves one sleeper (if
any) to a position on its way back to the lock, `Broadcast()` all of them,
spurious wake-ups and timeouts move one at any time. Definitions
under a comment that begins `Fault:` (`FetchTask_NoPop` after `FetchTask`) are
deliberately wrong variants of the definition they are named after; no
specification uses them, they are there to show that the properties notice.

**Threads**

* **ThreadPool** has the pool's fields under their own names, `wpc` (where a
  worker is in DispatchThread), `cpc` (where a client is in Wait, WaitFor or
  Shutdown) and `signalling` (callers of Submit between Unlock and Signal).
  `LoopTop` is one pass of DispatchThread's loop with the lock held; `Dispatch`,
  `DispatchTimedOut` and `FinishTask` are the three ways to get there (start or
  wake-up, timed-out wait, end of a task). Tasks may submit tasks; a task calling
  Wait or Shutdown of its own pool aborts the process, as the code does
  (`aborted`). Builder settings (`conf`) include what the builder lets through: min
  > max, a negative or no queue. `fate` and `closed` are history.
* **TaskExecutor** is the abstract specification: no threads and no locks, tasks
  accepted while open, started in order, at most `limit` at once, dropped when
  closing. `ThreadPool!Executor` is the refinement mapping.
* **Thread**: parent (`ppc`), child (`cpc`) and joiners (`join`) step one shared
  access at a time. References are a set of holders. Joins come one at a time; the
  class does not claim to support two at once (both would read `joinable_` and call
  pthread_join). `WaitFor` on the latch returns false
  on a timeout without another look at the count, so Join may report Aborted on
  a thread that has just ended.
* **AcceptorPool** (`rpc/acceptor_pool`): callers race on `closing_`; only the one
  that wins shuts the socket down and joins. Start() runs once, before any
  Shutdown(), and the owner destroys the pool while no call is running: the class
  says nothing about other uses, and they do go wrong (see findings).

**Synchronization** (`base/sync`, and what it rests on in `gbase`)

* **BlockingQueue**: `pc` says which condition variable a thread sleeps on, or
  that it is about to signal. `ptr` follows the gscoped_ptr of the overloads that
  take one. `sent` and `received` are history. `Puttable` keeps every element to a
  single successful put; a refused one may be tried again while its caller owns it.
* **SpinLock**: one step per access to `lockword_` and per futex call. The wait
  time that a thread stores in the word is kept as far as the code tells values
  apart: the bare sleeper mark, or anything longer.
* **GoogleOnce**: the four values of the once word, with the load of `old_control`
  and the store of DONE as separate steps. A caller that turns the word to WAITER
  between the two is not woken; it returns because its futex is timed.
* **RWSemaphore**: percpu_rwlock as an array of rw_semaphore words, each a count
  and a flag changed by compare-and-swap. `cur` is the `cur_state` a loop carries
  from one attempt to the next. `RWSemaphore!Abstract` maps it to **RWLock**, the
  abstract reader-writer lock.
* **RWCLock**: `committer` is the thread that returned from UpgradeToCommitLock
  with `lock_` held. **Barrier** has more users than its count, so that a thread
  which wakes late finds a later cycle.

**Memory**

* **MemTracker**: `op` is the call a thread is inside of, advancing one atomic
  access at a time along `AllTrackers` (the source's `all_trackers_`). UpdateMax is
  a step after the add. A GC function (external) empties `cache` of its tracker
  under `gc_lock_` and gives the bytes back through an ordinary Release, step by
  step, after which the call that asked for the collection goes on (`then`).
* **TrackerTree** is the life of the trackers: `children` are the weak lists,
  `obj[o].parent` the strong `parent_`, `refs` and `tmp` the shared_ptrs of callers
  and of the call in progress. A reference that was the last makes its thread run
  the destructor (`dying`) before it goes on, which takes the parent's lock.
  FindTrackerInternal copies the list and searches without the lock, LogUsage
  recurses with it. Accounts and tree share no state: a call keeps its tracker
  and so the whole chain of parents alive.

**Operating system**

* **WritableFile** (PosixWritableFile): the file is its length and its durable
  prefix. Close() is three steps, so that a crash can come between them.
  `promised` is what an OK Sync() after an append has vouched for. Process and
  machine crashes at any time; `IOError()` kills the process on EIO by default
  (`suicide_on_eio`), which is one of the crashes.
* **RWFile** (PosixRWFile), with the compare-and-swap of `pending_sync_` and
  fdatasync() as separate steps of threads that share the file. A change is the
  data a thread wrote last, or the file's size and layout; fdatasync() covers what
  was dirty when it began.
* **Subprocess**: the object, the child up to its end, and who holds which
  descriptor. Of the synchronization pipe only the holders of the write end count.
  The child closes the descriptors that a directory opened by the parent before
  fork() lists, so its write end goes before execvp() only if it looks while the
  parent still has its own.

**Security**

* **TokenVerifier** holds the verifier's operations as operators on a set of keys;
  **TokenSigner** composes them with the signer, the maintenance task that the
  class comment of `token_signer.h` prescribes, the system table (external) and
  remote verifiers (external network). One token, made at any moment, is followed:
  signing changes nothing in the signer, so it stands for every token. RSA is the
  identity of the pair. `Crash` loses everything but `stored`.
* **KinitRenewal**: RenewThread with its sleeping times to scale, jitter as a
  choice, and DoRenewal over a cache of at most one ticket. Every call of the
  Kerberos library may fail: most failures make DoRenewal return an error, but one
  of `krb5_cc_next_cred()` ends its loop as the end of the cache does, and it
  returns OK with nothing renewed (`NextCredFails`). A failed login may leave the
  cache empty. The clock moves only in SleepFor().

`MC*` modules give structured constants their values. `MCSync`, `MCMemTracker`,
`MCSecurity` and `MCThread` also put several components in one run: these share
no state, so a variable `subject` picks the one a behaviour is about and the
others stand still. The state space is the sum of theirs, not the product, and a
property of one is trivially true while another is the subject.
The proofs are in modules of their own: `ThreadPoolProofs`, `SyncProofs` (locks,
once, barrier), `QueueProofs` (BlockingQueue), `MemoryProofs` and `TrackerProofs`
(the two halves of MemTracker), `OsProofs` (threads, acceptors, subprocesses,
files), `SecurityProofs` (token keys) and `RenewalProofs` (Kerberos).

## 3. Runs

| Run | Instance | Shows |
|---|---|---|
| `threadpool_safety` | 2 clients, 2 workers, 4 tasks, 4 builder settings, creation may fail; 29k states | counters equal what they count; each accepted task is in one place; capacity is kept; `CHECK(queue_.empty())` cannot fail; no lost wake-up; a waiter is stranded only by Shutdown; nothing left after Shutdown; the pool implements TaskExecutor |
| `threadpool_live` | as above, 2 tasks, creation succeeds, fairness; 28k states | accepted tasks end or are dropped; Shutdown returns; Wait returns unless the pool is shut down |
| `sync` | queue: 3 threads, sizes 1 and 2, capacity 2; 3 threads on the spin lock, the once and the barrier of 2; 3 threads, 2 of them writers, on 2 words; 4 threads on the RWCLock; fairness; 60k states | size accounting with overshoot below one element; FIFO without loss; no lost wake-up; Shutdown wakes and stops everybody (queue). Exclusion, words that agree with who is in, one run of the function; every sleeper has a waker; percpu_rwlock implements RWLock and nobody passes the barrier early; writers, upgrades and Init() return |
| `mem_tracker` | 2 threads, chain of 3 trackers, limits 2 / none / 1, bytes 1; tree of up to 2 trackers; 503k states | consumption balances at every instant; only Consume exceeds a limit; the peak is the true maximum; what is referenced is alive, parents outlive children, lists name only existing children, a global id has one live tracker |
| `security` | signer: rotation 2, validity 3, clock to 6, 3 keys, 1 crash, 1 remote; renewal: clock to 40 for a ticket of 8, renewable for 18; 906k states | numbers identify keys across crashes; verifiers have no gaps; keys are known a rotation interval before use; how far a token can outlive its key; without a failure since the last renewal the next one comes before the ticket expires, and after failures the back-off is bounded by their duration |
| `thread_lifecycle` | 2 joiners, limits around the warning times; 2 acceptors and 2 callers; 2 piped streams, 2 starts; file of 4 blocks; 2 threads on an RWFile; fairness; 427k states | no use after free; pthread released exactly once; what OK and Aborted of Join mean; StartThread and Join return; acceptors do not outlive their pool; a subprocess object leaves no child and no descriptor; a synced prefix survives a crash; Close gives preallocated space back; a complete write is durable, flagged or being synced |
| `blocking_queue_scoped`, `token_expiry`, `tracker_log_usage`, `rwfile_sync`, `subprocess_exec`, `kinit_renewal` (violations) | the smallest that show it | see findings |

Every property of a passing run has a mutant of a mapped definition in
`PROJECT.json` that TLC finds to violate it.

### Bounds and why they are enough

* ThreadPool: two workers make every race between a worker that leaves, one that
  waits and one that runs; two clients make Submit against Shutdown, Wait against
  Shutdown, and two Shutdowns. Four tasks exceed every capacity in `Configs`, so
  refusals happen and a queue of length two forms with both workers busy. The
  number of successful submissions is bounded by `Tasks`. Symmetry (clients,
  workers, tasks) is used only in the safety run. The proofs have no bound.
* BlockingQueue: three threads give two sleepers on a condition variable and one
  that signals; an element of size 2 overshoots the capacity from size 1.
* Locks: three spinners give a holder, a sleeper and a newcomer that takes the word
  between the two; two words make a writer hold one while readers are on the
  other, and a try_lock() that has to undo. Four users of RWCLock are a reader, a
  committer and two waiting writers. `MaxCycles` lets a slow thread of the barrier
  sleep through several cycles.
* MemTracker: a chain of three has an ancestor without a limit between two with
  one, so a roll-back has something to undo and something to leave. `MaxTotal`,
  what threads, caches and calls under way hold in all, lies above every limit, so
  that Consume exceeds limits and TryConsume fails, collects and rolls back. Two
  trackers in the tree can be parent and child, or siblings of which one is global.
* TokenSigner: `MaxTime`, `MaxKeys`, `MaxSeq` and `MaxCrashes` allow a first key, a
  rotation and a restart in between. `MaxGap` is an assumption on the environment:
  a complete maintenance round starts at least that often (the class comment asks
  the caller for it); without it nothing about rotation times holds.
* KinitRenewal: `MaxKinitTime` covers several renewals, the end of the renewal
  window, a re-acquisition and three failures in a row.
* Thread: `MaxWait` bounds the waiting of a Join without a limit; the limits fall
  before, on and after the first warning and on a later one.
* Files: four blocks hold an append beside two preallocations. Two threads on an
  RWFile are a writer against a Sync, and two Syncs; a third multiplies the
  states to 15 million and adds no kind of step.
* AcceptorPool and Subprocess: two callers of Shutdown, two threads of which the
  second may not be created, a second Start() after a failed one.

`CHECK_DEADLOCK FALSE` is set where the system may come to rest: a pool or queue
nobody calls any more, a process aborted by a CHECK, a finished thread, a clock
or key supply at its bound, a destroyed object; and in `mem_tracker`, because the
tree does deadlock, which is the finding of `tracker_log_usage`.

### Fairness

Weak fairness of a thread's next step, where that step is enabled once the thread
is awake: the operating system runs every runnable thread, and mutexes are handed
on. In ThreadPool it includes FinishTask (tasks terminate; a task that does not
makes every promise void) and timeouts of WaitFor, but no call by a client, no
idle timeout and no spurious wake-up. In BlockingQueue it covers threads inside a
call and not asleep (`Continue`), never the start of a call. In Thread it covers
parent, child and joiners but not the functor: CallsReturn distinguishes joins
with a limit from those without one. In the locks it covers steps inside a call
and the end of a section (readers do leave), never the start of a call or a
spurious wake-up; in the once, the function and the timeout of the futex, which
is timed in the code. Nothing fair is assumed of SpinLock, Barrier, files,
processes, the acceptor pool or Kerberos: what is said of them is safety.

## 4. Proofs

Each safety invariant and each action property that a passing run checks, and both
refinements (the thread pool implements TaskExecutor, percpu_rwlock implements
RWLock), is also a theorem: for any numbers of threads, tasks, trackers, keys or
blocks and any settings that the named assumptions on the constants allow. TLC
evaluates these assumptions in the runs:

| Assumption | Says |
|---|---|
| `PoolAssumption` | finite sets of clients and workers; builder settings the workers suffice for |
| `RWAssumption`, `RWCAssumption` | finitely many threads; at least one word |
| `BarrierAssumption` | a count of at least one |
| `QueueAssumption` | finitely many threads; the capacity is positive |
| `TrackerAssumption` | finite sets of threads and trackers; each tracker's path to the root is its own followed by its parent's |
| `TreeAssumption`, `SubprocessAssumption`, `WritableAssumption`, `AcceptorAssumption` | a bound of the model is a natural number; the owner of the pool is one of the callers |
| `ThreadAssumption` | the times of Join are natural numbers, or -1 for no limit; warnings are some time apart |
| `RWFileAssumption` | the model value for the size of a file is not a thread |
| `TokenAssumption`, `KinitAssumption` | the intervals' signs and order; `MaxGap` and the jitter's range (see Bounds) |

In the modules that put several components in one run, the invariants of the
components are proved one by one and combined: a step of one leaves the others'
variables alone.

**Thread pool.** None of the properties is inductive alone. The invariant is
built in layers:

1. `CountInv`: TypeOK with CountersAgree. The counters' types need the agreement:
   `--active_threads_` stays natural only because it counts the running workers, of
   which the one that decrements is one. Lemmas say what one pass of the dispatch
   loop does to the counted sets (`ExitCounts`, `WaitCounts`, `FetchCounts`,
   `CreateCounts`), resting on facts about finite cardinalities.
2. `SafeInv`: CheckNeverFails, WaiterStrandedOnlyByShutdown and CapacityBound, with
   four strengthenings. `ClosedEmpty` (a queue that is not open is empty) is why
   the last worker's CHECK holds: a worker leaves either on a queue it has just
   seen empty or on a pool that is shut down. `FreshEmpty` and `ShutdownCallers`
   place threads and Shutdown callers in the pool's life; `ClosedNoThreads` keeps a
   returned Shutdown final, because no thread is created once the pool is closed.
3. `PlaceInv`: OnePlacePerTask with `HeldTasks` (a running worker's entry is a
   task). A pass over the loop that both ends a task and fetches another is
   split into leaving (`LeavePlace`) and fetching (`FetchPlace`).
4. NoLostWakeup over the first: a step may queue one more task than it awakes
   workers only when nobody waits (`WakeupsKept`), and a pass of the loop either
   takes a task or leaves an empty queue.

QuiescentAfterShutdown follows from the first three. `ExecutorCorrect` maps each
action to its step of TaskExecutor (accept, start, end, close) or to a stutter; one
pass of the loop that ends a task and starts the next is a single abstract step.

**Locks, once, barrier.** An invariant per primitive. SpinLock: exactly one thread
past its exchange while the word is held, and a sleeper leaves its mark in the
word or somebody is about to wake it. percpu_rwlock: a word has one owner exactly
while its flag is up (`OneOwner`), its count is the number of readers on it
(`CountsReaders`), and that is 0 once the owner is through the draining loop
(`WordsDrained`); a writer that is in owns every word. RWLock's steps follow from the
same invariant. RWCLock: `reader_count_` counts, and a committer is alone. Once: the
word says whether a caller is at work on the function. Barrier: cycles that are over
are full, and sleepers belong to the current one.

**BlockingQueue.** `size_` equals the sum of the sizes in the list, which is
defined through the list and changes at both ends; the sums are handled by an
induction over lengths, made from the fact that a non-empty set of naturals has a
least element. FIFO delivery is `sent = received \o list`. The wake-up cover says
that while consumers sleep, elements in the list are no more than the threads on
their way to Signal or back from it.

**MemTracker.** Consumption equals what threads hold on the tracker and below plus
what calls in flight have added up to it. These are sums over finite sets of
threads; every atomic step "settles" bytes, that is, moves the same amount on both
sides (`BalanceMoves`), proved by taking one element off the set. For the peak,
the missing part is always due: where it is behind, a thread's next UpdateMax
carries the highest value. OnlyConsumeExceedsLimit needs only types: the compare
and swap of TryAdd looks at the limit.

**Tracker tree.** TrackersSound is strengthened by `Orders` (a parent is older than
its children, so chains end), `Destructors` (each dying tracker is in one
destructor) and, for every call in progress, `CallOK`: the nodes on the way down of
LogUsage and of a search are held, strictly younger downwards, and a frame's
unvisited children name this node as their parent as long as they are alive.
GlobalIdsUnique rests on what the holder of find_or_create_lock knows: every
living global tracker is among those it holds or has still to look at, although
the root's own lock is free meanwhile, and global ids are only made under
find_or_create_lock. The tree may deadlock (section 5); it stays sound in doing so.

**Threads, acceptors, processes, files.** The references of a Thread match where
parent, child and joiners are (`RefsMatch`), and the handshake over `tid_` orders
them; a Join waits a sum of slices that ends exactly at its limit. Until a call
fails, all that a Subprocess holds is known to its destructor (`HeldIsKnown`). Until a
sync fails, what a WritableFile vouched for lies in the durable prefix, and with
`pending_sync_` down nothing appended is left to sync (`Vouched`); a complete Write()
of an RWFile is durable, flagged, or some thread is about to sync or syncing it.

**Token keys.** The stored keys are, in the order of their numbers, a rotation
interval apart (`Spaced`); the key on its way (`Coming`) is above all stored ones;
after start every living stored key but that one is in the verifier, and none is newer
than the last in the deque (`Loaded`). These survive a crash, because all but `stored` is empty
then and ImportKeys() reloads what lives. No gaps: for the keys that can be offered
again, what a verifier has or is sent is closed downwards. The times: rounds begin
at most `MaxGap` apart, at the end of a round the active key is young enough
(`ActiveYoung`), and from this the overhang of a token and the propagation of the
next key are arithmetic. What is assumed of the environment is `MaxGap` alone.

**Kerberos.** Without a failure since the last renewal the cache's ticket is the one
whose end the thread knows; that a ticket got after failures is good again needs
`Renewable`: what is about to be stored had not reached the end of its renewal
window when MustReacquire() looked at it. With failures, the intervals slept add up
to at least the last power of two less one (`BackedOff`), which bounds the next one
by a multiple of how long the failures have lasted, plus a constant.

What stays with TLC: the liveness properties (AcceptedTaskEnds, ShutdownReturns,
WaitReturns, LockCallsReturn, CallsReturnAfterShutdown, CallsReturn), since
fairness and ENABLED are beyond the prover; and the counterexamples of section 5.
No module with a theorem reaches a RECURSIVE operator: sums and powers are
recursive functions or folds. A theorem is about the model; that definitions say
what the code does is what the map and the mutants are for.

## 5. Findings

Each is a run that TLC ends with a counterexample.

* `BlockingPut(gscoped_ptr<T>*)` (`base/sync/blocking_queue.h:161`) calls Put
  instead of BlockingPut and takes the status for a bool; QUEUE_SUCCESS is 0. Its
  comment promises the opposite of what happens to the pointer.
* `key_validity_seconds_` (`security/token_signer.cc:41`) is rotation + token
  validity; a key stays active for up to two rotation intervals, so a token signed
  late outlives the key. The passing run bounds by how much (OverhangBounded).
* `MemTracker::LogUsage()` (`base/mem_tracker.cc:526`) may drop the last reference
  to a child under `child_trackers_lock_`, which the child's destructor takes: the
  thread waits for itself. FindTrackerInternal avoids exactly this, and says so.
* `PosixRWFile::Sync()` (`base/env_posix.cc:548`) does nothing for Truncate,
  PunchHole and PreAllocate, which never set `pending_sync_`, and a second Sync
  returns while the first is still in fdatasync(); `env.h` promises that all
  previous changes are durable.
* `Subprocess::Start()` (`base/process/subprocess.cc:409`) can return before the
  child has called execvp(): a child that is quick closes the synchronization pipe
  with all other descriptors, not by execvp(). It is a race: the descriptors it
  closes are those the parent has when it reads the directory, and once the parent
  has closed its write end the child keeps its own up to execvp().
* `KinitContext::DoRenewal()` (`security/init.cc:264`) empties the cache before it
  stores the new ticket. If the store fails, every later call finds no ticket,
  returns OK and leaves `ticket_end_timestamp_` in the past: the thread spins
  without a ticket.

Also visible in the models and documented there:

* ThreadPool::Shutdown strands callers of Wait, because it does not broadcast
  `idle_cond_`; CreateThreadUnlocked hides failures, so AcceptedTaskEnds needs
  successful creation (`CreateFails = FALSE`). One Signal in BlockingDrainTo frees
  space for many putters and wakes one.
* Both file classes lower `pending_sync_` before they sync: after a failed sync
  (other than EIO, which kills the process by default) the next Sync() returns OK
  untried. SyncedIsDurable and NoOrphanedWrite therefore end with the first
  failure. The comment in PosixWritableFile::Close ("truncate to the actual size
  of the file and perform Sync()") is not what happens when nothing else is
  pending: the truncation is then not synced. A file reopened after a crash
  counts preallocated zeros as data, and a Sync() with nothing appended does not
  vouch for what an earlier process left.
* A Start() of Subprocess that fails leaves its pipes and perhaps a child behind,
  and the destructor leaves a zombie if waitpid() is interrupted: NothingLeftBehind
  is about objects none of whose calls failed.
* An AcceptorPool started after a Shutdown has threads that no later Shutdown
  joins; and an acceptor thread ends after its first connection (a TODO).
* In DoRenewal (`security/init.cc:207`) an error of `krb5_cc_next_cred()` is taken
  for the end of the cache: it returns OK, RenewThread() forgets the failures so
  far, and a ticket that has expired meanwhile stays (NextCredFails).
  RenewalKeepsUp counts it as a failure all the same and promises nothing from
  there to the next renewal.

## 6. Coverage, what is not modelled, and the plan

Two thirds of the repository's lines are `gbase`, vendored string, callback,
hashing and system-call code with no protocol in it; of the remaining 18,600
lines much is declarations, OpenSSL and Kerberos wrappers, formatting and tests'
helpers. The mapped lines are therefore a small share of the whole although the
classes with concurrent, persistent or failure-handling state of their own are there.
Widening the lines of definitions would not model more.

Not modelled, and why:

* gbase apart from SpinLock and the once (vendored, sequential);
* TLS, certificates and keys: the state is OpenSSL's, the code translates errors;
* Socket and network utilities: a descriptor and a system call per method;
* JSON, Status, Slice, faststring, ObjectPool, time, random, user, debug and path
  utilities: values and containers of one thread, or pure I/O;
* the RPC classes that are declared but not implemented;
* of modelled components: Subprocess::Call (the same operations in a row with a
  poll loop) and GetExitStatus (decoding), the race of PR_SET_PDEATHSIG and forks
  by other threads; LockFile (one fcntl()) and the remaining methods of PosixEnv;
  RWMutex and Semaphore (pthread wrappers); Promise and Synchronizer (the latch of
  Thread beside a value); the read of `all_trackers_` by a thread that finds a
  tracker before its Init() (a data race); two joins of a thread at once;
  InitKerberosForServer; metrics, web pages, logging and tracing.

Theorems worth proving next, all of them stronger than what the runs check:
TaskExecutor's own promises from its specification, to be read through the
refinement; an abstract FIFO that BlockingQueue implements; that the deadlock of
LogUsage is the only way two threads of the tracker tree wait for each other; that
a writer of percpu_rwlock is past the draining loop after finitely many releases
(a variant function in place of fairness).
