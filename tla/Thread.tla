------------------------------- MODULE Thread -------------------------------
(***************************************************************************)
(* The life of one Thread of bboy/base/thread/thread.{h,cc}: StartThread() *)
(* in the parent, SuperviseThread() and FinishThread() in the child, the   *)
(* ThreadMgr's registry, ThreadJoiner::Join() on the CountDownLatch done_  *)
(* and the references that keep the Thread object alive.                   *)
(*                                                                         *)
(* Steps are single accesses to shared state.  tid_ carries the handshake: *)
(* CHILD_WAITING until the parent has set everything up, PARENT_WAITING    *)
(* until the child has taken its own reference, then the system's id.      *)
(***************************************************************************)
EXTENDS Integers, FiniteSets, FiniteSetsExt

CONSTANTS
  Joiners,     \* threads that join, one at a time
  WarnAfter,   \* warn_after_ms_
  WarnEvery,   \* warn_every_ms_
  GiveUpAfter, \* settings of give_up_after_ms_, -1 for never
  MaxWait      \* bound on waited_ms of a join that never gives up

ASSUME ThreadAssumption ==
  /\ WarnAfter \in Nat /\ WarnEvery \in Nat \ {0}
  /\ GiveUpAfter \subseteq Nat \cup {-1}
  /\ MaxWait \in Nat

VARIABLES
  tid,        \* tid_
  joinable,   \* joinable_
  done,       \* done_: the count of the latch
  refs,       \* who holds a scoped_refptr to the Thread
  alive,      \* the Thread object exists
  handle,     \* the pthread: "none", "open", "joined", "detached"
  ppc,        \* where the parent is in StartThread()
  cpc,        \* where the child is in SuperviseThread()
  listed,     \* the ThreadMgr lists the thread
  callbacks,  \* exit_callbacks_: registered and run so far
  join        \* the call of Join() each joiner is in, with its result

vars == <<tid, joinable, done, refs, alive, handle, ppc, cpc, listed, callbacks,
          join>>

NotJoining == [pc |-> "idle", waited |-> 0, giveup |-> -1, result |-> "none"]
ChildPCs == {"none", "started", "handshake", "publish", "register", "functor",
             "callbacks", "deregister", "countdown", "return", "exited"}

TypeOK ==
  /\ tid \in {"CHILD_WAITING", "PARENT_WAITING", "published"}
  /\ joinable \in BOOLEAN /\ done \in 0..1 /\ alive \in BOOLEAN
  /\ refs \subseteq {"parent", "holder", "child"}
  /\ handle \in {"none", "open", "joined", "detached"}
  /\ ppc \in {"create", "publish", "release", "spin", "returned", "failed"}
  /\ cpc \in ChildPCs
  /\ listed \in BOOLEAN
  /\ callbacks \in [added : 0..1, run : 0..1] /\ callbacks.run <= callbacks.added
  /\ join \in [Joiners -> [pc : {"idle", "check", "wait", "pthread_join", "end"},
                           waited : Nat, giveup : GiveUpAfter \cup {-1},
                           result : {"none", "OK", "Aborted"}]]

(* StartThread() has built the Thread and holds it in `t`. *)
Init ==
  /\ tid = "CHILD_WAITING" /\ joinable = FALSE /\ done = 1
  /\ refs = {"parent"} /\ alive = TRUE /\ handle = "none"
  /\ ppc = "create" /\ cpc = "none"
  /\ listed = FALSE /\ callbacks = [added |-> 0, run |-> 0]
  /\ join = [j \in Joiners |-> NotJoining]

-----------------------------------------------------------------------------
(* Release of a scoped_refptr; the last one runs ~Thread(), which detaches *)
(* a pthread nobody joined.                                                *)
DropRef(r, h) ==
  /\ refs' = refs \ {r}
  /\ alive' = (alive /\ refs \ {r} # {})
  /\ handle' = IF refs \ {r} = {} /\ joinable THEN "detached" ELSE h

(* pthread_create() *)
CreatePthread ==
  /\ ppc = "create"
  /\ \/ /\ ppc' = "publish" /\ cpc' = "started" /\ handle' = "open"
        /\ UNCHANGED <<refs, alive>>
     \/ /\ ppc' = "failed" /\ cpc' = cpc
        /\ DropRef("parent", handle)
  /\ UNCHANGED <<tid, joinable, done, listed, callbacks, join>>

(* joinable_ = true; *holder = t, if there is a holder. *)
PublishThread ==
  /\ ppc = "publish"
  /\ ppc' = "release"
  /\ joinable' = TRUE
  /\ refs' \in {refs, refs \cup {"holder"}}
  /\ UNCHANGED <<tid, done, alive, handle, cpc, listed, callbacks, join>>

ReleaseChild ==
  /\ ppc = "release"
  /\ ppc' = "spin"
  /\ tid' = "PARENT_WAITING"
  /\ UNCHANGED <<joinable, done, refs, alive, handle, cpc, listed, callbacks, join>>

(* Fault: the parent does not wait for the child. *)
StartReturns_NoWait ==
  /\ ppc = "spin"
  /\ ppc' = "returned"
  /\ DropRef("parent", handle)
  /\ UNCHANGED <<tid, joinable, done, cpc, listed, callbacks, join>>

(* The spin on tid_ ends; StartThread() returns and drops `t`. *)
StartReturns ==
  /\ ppc = "spin" /\ tid # "PARENT_WAITING"
  /\ ppc' = "returned"
  /\ DropRef("parent", handle)
  /\ UNCHANGED <<tid, joinable, done, cpc, listed, callbacks, join>>

(* The owner gives up its reference, not while it is joining. *)
DropHolder ==
  /\ "holder" \in refs
  /\ ppc = "returned"
  /\ \A j \in Joiners : join[j].pc \in {"idle", "end"}
  /\ DropRef("holder", handle)
  /\ UNCHANGED <<tid, joinable, done, ppc, cpc, listed, callbacks, join>>

-----------------------------------------------------------------------------
ChildStep(from, to) == cpc = from /\ cpc' = to

(* thread_ref = t, tls_ = t *)
TakeReference ==
  /\ ChildStep("started", "handshake")
  /\ refs' = refs \cup {"child"}
  /\ UNCHANGED <<tid, joinable, done, alive, handle, ppc, listed, callbacks, join>>

(* The spin on CHILD_WAITING_TID. *)
SeeParent ==
  /\ ChildStep("handshake", "publish") /\ tid # "CHILD_WAITING"
  /\ UNCHANGED <<tid, joinable, done, refs, alive, handle, ppc, listed, callbacks,
                 join>>

PublishTid ==
  /\ ChildStep("publish", "register")
  /\ tid' = "published"
  /\ UNCHANGED <<joinable, done, refs, alive, handle, ppc, listed, callbacks, join>>

AddThread ==
  /\ ChildStep("register", "functor")
  /\ listed' = TRUE
  /\ UNCHANGED <<tid, joinable, done, refs, alive, handle, ppc, callbacks, join>>

(* CallAtExit(), by the functor. *)
CallAtExit ==
  /\ ChildStep("functor", "functor")
  /\ callbacks.added = 0
  /\ callbacks' = [callbacks EXCEPT !.added = 1]
  /\ UNCHANGED <<tid, joinable, done, refs, alive, handle, ppc, listed, join>>

(* The functor returns or throws: FinishThread() starts. *)
FunctorEnds ==
  /\ ChildStep("functor", "callbacks")
  /\ UNCHANGED <<tid, joinable, done, refs, alive, handle, ppc, listed, callbacks,
                 join>>

RunCallbacks ==
  /\ ChildStep("callbacks", "deregister")
  /\ callbacks' = [callbacks EXCEPT !.run = callbacks.added]
  /\ UNCHANGED <<tid, joinable, done, refs, alive, handle, ppc, listed, join>>

RemoveThread ==
  /\ ChildStep("deregister", "countdown")
  /\ listed' = FALSE
  /\ UNCHANGED <<tid, joinable, done, refs, alive, handle, ppc, callbacks, join>>

(* done_.CountDown() *)
CountDown ==
  /\ ChildStep("countdown", "return")
  /\ done' = 0
  /\ UNCHANGED <<tid, joinable, refs, alive, handle, ppc, listed, callbacks, join>>

(* SuperviseThread() returns: thread_ref goes, then the pthread ends. *)
ChildExits ==
  /\ ChildStep("return", "exited")
  /\ DropRef("child", handle)
  /\ UNCHANGED <<tid, joinable, done, ppc, listed, callbacks, join>>

-----------------------------------------------------------------------------
(* Join() by a thread other than the child; a second join is a no-op. *)
JoinBegins(j) ==
  /\ join[j].pc = "idle"
  /\ \A i \in Joiners \ {j} : join[i].pc \in {"idle", "end"}
  /\ "holder" \in refs /\ ppc = "returned"
  /\ \E g \in GiveUpAfter :
       join' = [join EXCEPT ![j] =
         IF joinable THEN [@ EXCEPT !.pc = "check", !.giveup = g]
         ELSE [@ EXCEPT !.pc = "end", !.result = "OK"]]
  /\ UNCHANGED <<tid, joinable, done, refs, alive, handle, ppc, cpc, listed,
                 callbacks>>

(* How long the next done_.WaitFor() is, and whether it is the last one.   *)
(* An infinite give_up_after_ms_ is larger than any warning interval.      *)
NextWarn(o) == IF o.waited < WarnAfter THEN WarnAfter - o.waited ELSE WarnEvery
LastWait_Never(o) == FALSE
LastWait(o) == o.giveup # -1 /\ o.giveup - o.waited < NextWarn(o)

WaitTime(o) ==
  IF o.giveup = -1 THEN NextWarn(o) ELSE Min({o.giveup - o.waited, NextWarn(o)})

LatchOpen == done = 0

(* WaitFor() finds the latch closed and blocks on its condition. *)
Block(j) ==
  /\ join[j].pc = "check" /\ ~LatchOpen
  /\ join' = [join EXCEPT ![j].pc = "wait"]
  /\ UNCHANGED <<tid, joinable, done, refs, alive, handle, ppc, cpc, listed,
                 callbacks>>

(* WaitFor() returns true, at once or after the broadcast. *)
SeeDone(j) ==
  /\ join[j].pc \in {"check", "wait"}
  /\ LatchOpen
  /\ join' = [join EXCEPT ![j].pc = "pthread_join"]
  /\ UNCHANGED <<tid, joinable, done, refs, alive, handle, ppc, cpc, listed,
                 callbacks>>

(* TimedWait() times out, and WaitFor() returns false without another look *)
(* at the count, which may have reached 0 since.                           *)
WaitTimesOut(j) ==
  /\ join[j].pc = "wait"
  /\ join[j].giveup = -1 => join[j].waited + WaitTime(join[j]) <= MaxWait
  /\ LET o == join[j]
         waited == o.waited + WaitTime(o)
     IN  join' = [join EXCEPT ![j] =
           IF LastWait(o)
           THEN [o EXCEPT !.waited = waited, !.pc = "end", !.result = "Aborted"]
           ELSE [o EXCEPT !.waited = waited, !.pc = "check"]]
  /\ UNCHANGED <<tid, joinable, done, refs, alive, handle, ppc, cpc, listed,
                 callbacks>>

(* Fault: an open latch is enough. *)
PthreadJoin_Skipped(j) ==
  /\ join[j].pc = "pthread_join"
  /\ joinable' = FALSE
  /\ join' = [join EXCEPT ![j].pc = "end", ![j].result = "OK"]
  /\ UNCHANGED <<tid, done, refs, alive, handle, ppc, cpc, listed, callbacks>>

(* Fault: the Thread stays joinable. *)
PthreadJoin_StaysJoinable(j) ==
  /\ join[j].pc = "pthread_join" /\ cpc = "exited"
  /\ handle' = "joined"
  /\ join' = [join EXCEPT ![j].pc = "end", ![j].result = "OK"]
  /\ UNCHANGED <<tid, joinable, done, refs, alive, ppc, cpc, listed, callbacks>>

(* pthread_join() returns, and the Thread is no longer joinable. *)
PthreadJoin(j) ==
  /\ join[j].pc = "pthread_join" /\ cpc = "exited"
  /\ handle' = "joined"
  /\ joinable' = FALSE
  /\ join' = [join EXCEPT ![j].pc = "end", ![j].result = "OK"]
  /\ UNCHANGED <<tid, done, refs, alive, ppc, cpc, listed, callbacks>>

ParentNext == CreatePthread \/ PublishThread \/ ReleaseChild \/ StartReturns
ChildNext ==
  \/ TakeReference \/ SeeParent \/ PublishTid \/ AddThread
  \/ RunCallbacks \/ RemoveThread \/ CountDown \/ ChildExits
JoinNext(j) == Block(j) \/ SeeDone(j) \/ WaitTimesOut(j) \/ PthreadJoin(j)

Next ==
  \/ ParentNext \/ ChildNext \/ DropHolder \/ CallAtExit \/ FunctorEnds
  \/ \E j \in Joiners : JoinBegins(j) \/ JoinNext(j)

Spec == Init /\ [][Next]_vars

-----------------------------------------------------------------------------
(* Nobody touches the Thread object after its destructor: the parent until *)
(* StartThread() returns, the child until SuperviseThread() does, a joiner *)
(* until Join() does.  The child is covered only because the parent waits  *)
(* with its reference until the child has one.                             *)
NoUseAfterFree ==
  /\ TypeOK
  /\ alive <=> refs # {}
  /\ ~alive => /\ ppc \in {"returned", "failed"}
               /\ cpc \in {"none", "exited"}
               /\ \A j \in Joiners : join[j].pc \in {"idle", "end"}

(* The pthread is given up exactly once: never joined after it was         *)
(* detached or joined before, and never left over with the Thread gone.    *)
HandleReleasedOnce ==
  /\ [][(handle \in {"joined", "detached"}) => (handle' = handle)]_vars
  /\ []((~alive) => (handle # "open"))
  /\ [](\A j \in Joiners :
          (join[j].pc \in {"check", "wait", "pthread_join"}) => (handle = "open"))

(* What Join() promises: OK means that the functor and the exit callbacks  *)
(* have run, the registry has forgotten the thread and the pthread is      *)
(* gone; Aborted means that it has waited exactly give_up_after_ms_,       *)
(* however that falls between the warnings.                                *)
JoinContract ==
  \A j \in Joiners :
    /\ join[j].result = "OK" =>
         /\ cpc = "exited" /\ ~listed /\ callbacks.run = callbacks.added
         /\ handle = "joined"
    /\ join[j].result = "Aborted" => join[j].waited = join[j].giveup

FunctorEnded ==
  cpc \in {"callbacks", "deregister", "countdown", "return", "exited"}

(* Once pthread_create() has succeeded StartThread() returns, with a       *)
(* thread that has its id; a Join() with a limit returns whatever the      *)
(* functor does, one without a limit once the functor has ended.           *)
CallsReturn ==
  /\ ppc = "publish" ~> (ppc = "returned" /\ tid = "published")
  /\ \A j \in Joiners :
       (/\ join[j].pc = "check"
        /\ join[j].giveup # -1 \/ FunctorEnded) ~> (join[j].pc = "end")

=============================================================================
