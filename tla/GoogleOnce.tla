----------------------------- MODULE GoogleOnce -----------------------------
(***************************************************************************)
(* GoogleOnceInternalInit() of gbase/once.cc on SpinLockWait() of          *)
(* gbase/spinlock_internal.cc, as BBoyOnceDynamic::Init() of base/sync/    *)
(* once.h uses it: the function runs once, its status is kept, and every   *)
(* caller returns that status.                                             *)
(***************************************************************************)
EXTENDS Naturals

CONSTANT OnceCallers \* threads that call Init(), each at most once

VARIABLES
  control,  \* the once word: "INIT", "RUNNING", "WAITER", "DONE"
  opc,      \* where each caller is
  oldWord,  \* old_control of the caller that ran the function
  runs,     \* how often the function has run; status_ is set by a run
  initted   \* initted_

onceVars == <<control, opc, oldWord, runs, initted>>

OnceTypeOK ==
  /\ control \in {"INIT", "RUNNING", "WAITER", "DONE"}
  /\ opc \in [OnceCallers -> {"idle", "claim", "wait", "futex", "run", "load",
                              "store", "wake", "returned"}]
  /\ oldWord \in {"INIT", "RUNNING", "WAITER"}
  /\ runs \in Nat /\ initted \in BOOLEAN

OnceInit ==
  /\ control = "INIT" /\ oldWord = "INIT"
  /\ opc = [t \in OnceCallers |-> "idle"]
  /\ runs = 0 /\ initted = FALSE

OnceGoto(t, from, to) == opc[t] = from /\ opc' = [opc EXCEPT ![t] = to]

(* The load of GoogleOnceDynamic::Init(). *)
OnceCall(t) ==
  /\ OnceGoto(t, "idle", IF control = "DONE" THEN "returned" ELSE "claim")
  /\ UNCHANGED <<control, oldWord, runs, initted>>

(* The CAS from INIT to RUNNING. *)
Claim(t) ==
  /\ OnceGoto(t, "claim", IF control = "INIT" THEN "run" ELSE "wait")
  /\ control' = IF control = "INIT" THEN "RUNNING" ELSE control
  /\ UNCHANGED <<oldWord, runs, initted>>

(* SpinLockWait() with the table trans[]: mark the word, or return once it *)
(* is DONE, or sleep in the futex while it is WAITER.                      *)
WaitTransition(t) ==
  /\ \/ control = "RUNNING" /\ control' = "WAITER" /\ OnceGoto(t, "wait", "wait")
     \/ control = "WAITER" /\ UNCHANGED control /\ OnceGoto(t, "wait", "futex")
     \/ control = "DONE" /\ UNCHANGED control /\ OnceGoto(t, "wait", "returned")
  /\ UNCHANGED <<oldWord, runs, initted>>

(* The futex is timed. *)
OnceDelayEnds(t) ==
  /\ OnceGoto(t, "futex", "wait")
  /\ UNCHANGED <<control, oldWord, runs, initted>>

(* InitCb(): the function, its status, and set_initted(). *)
RunFunction(t) ==
  /\ OnceGoto(t, "run", "load")
  /\ runs' = runs + 1 /\ initted' = TRUE
  /\ UNCHANGED <<control, oldWord>>

(* old_control is loaded before DONE is stored: a caller that marks the    *)
(* word between the two is not woken and sleeps its time out.              *)
LoadControl(t) ==
  /\ OnceGoto(t, "load", "store")
  /\ oldWord' = control
  /\ UNCHANGED <<control, runs, initted>>

StoreDone(t) ==
  /\ OnceGoto(t, "store", IF oldWord = "WAITER" THEN "wake" ELSE "returned")
  /\ control' = "DONE"
  /\ UNCHANGED <<oldWord, runs, initted>>

WakeAll(t) ==
  /\ opc[t] = "wake"
  /\ opc' = [u \in OnceCallers |-> IF u = t THEN "returned"
                                   ELSE IF opc[u] = "futex" THEN "wait" ELSE opc[u]]
  /\ UNCHANGED <<control, oldWord, runs, initted>>

OnceStep(t) ==
  \/ Claim(t) \/ WaitTransition(t) \/ OnceDelayEnds(t) \/ RunFunction(t)
  \/ LoadControl(t) \/ StoreDone(t) \/ WakeAll(t)

OnceNext == \E t \in OnceCallers : OnceCall(t) \/ OnceStep(t)

(* The function returns, and a thread that is not asleep runs on. *)
OnceFairness == \A t \in OnceCallers : WF_onceVars(OnceStep(t))

-----------------------------------------------------------------------------
(* Init() returns to nobody before the one run of the function is over,    *)
(* and the function never runs twice, however the callers race on the word *)
(* and whoever turns it to WAITER under the caller that runs.              *)
OnceRunsOnce ==
  /\ runs <= 1
  /\ (initted \/ \E t \in OnceCallers : opc[t] = "returned") => runs = 1

(* Every call of Init() returns, also the one that marked the word in the  *)
(* window in which nobody wakes it.                                        *)
OnceCallsReturn ==
  \A t \in OnceCallers : opc[t] # "idle" ~> opc[t] = "returned"

=============================================================================
