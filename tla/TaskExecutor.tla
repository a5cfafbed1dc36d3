---------------------------- MODULE TaskExecutor ----------------------------
(***************************************************************************)
(* What the users of ThreadPool rely on, with no threads, counters, locks  *)
(* or condition variables: tasks are accepted while the executor is open,  *)
(* start in the order in which they were accepted, at most `limit` at a    *)
(* time, each at most once; closing drops exactly those not started.       *)
(***************************************************************************)
EXTENDS Integers, Sequences, FiniteSets, SequencesExt

CONSTANT Tasks

VARIABLES open, limit, pending, running, finished, dropped

vars == <<open, limit, pending, running, finished, dropped>>

Known == ToSet(pending) \cup running \cup finished \cup dropped

Init ==
  /\ open = TRUE
  /\ limit \in Nat
  /\ pending = <<>>
  /\ running = {} /\ finished = {} /\ dropped = {}

Accept(t) ==
  /\ open /\ t \notin Known
  /\ pending' = Append(pending, t)
  /\ UNCHANGED <<open, limit, running, finished, dropped>>

(* The first pending task, if one starts now, and the tasks that end. *)
Begin(ended) ==
  /\ open /\ pending # <<>>
  /\ Cardinality(running \ ended) < limit
  /\ pending' = Tail(pending)
  /\ running' = (running \ ended) \cup {Head(pending)}
  /\ finished' = finished \cup ended
  /\ UNCHANGED <<open, limit, dropped>>

End(t) ==
  /\ t \in running
  /\ running' = running \ {t}
  /\ finished' = finished \cup {t}
  /\ UNCHANGED <<open, limit, pending, dropped>>

Close ==
  /\ open' = FALSE
  /\ dropped' = dropped \cup ToSet(pending)
  /\ pending' = <<>>
  /\ UNCHANGED <<limit, running, finished>>

Next ==
  \/ \E t \in Tasks : Accept(t) \/ End(t)
  \/ Begin({})
  \/ \E t \in running : Begin({t})
  \/ Close

Spec == Init /\ [][Next]_vars

=============================================================================
