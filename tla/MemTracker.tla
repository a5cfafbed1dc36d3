----------------------------- MODULE MemTracker -----------------------------
(***************************************************************************)
(* Consumption accounting of bboy/base/mem_tracker.{h,cc} over the         *)
(* HighWaterMark of bboy/base/high_water_mark.h.                           *)
(*                                                                         *)
(* A call on a tracker visits the tracker and its ancestors one by one,    *)
(* with no lock: each visit is an atomic add to current_value_ and, in a   *)
(* later step, UpdateMax() with the value the add returned.  Consume() and *)
(* Release() go from the tracker up, TryConsume() and its roll-back from   *)
(* the root down.  The build has no tcmalloc: no tracker has a             *)
(* consumption function.                                                   *)
(***************************************************************************)
EXTENDS Integers, Sequences, FiniteSets, SequencesExt, FiniteSetsExt

CONSTANTS
  Threads,
  Trackers,
  AllTrackers,  \* all_trackers_: a tracker, its parent, ..., the root
  Limit,        \* limit_, negative for none
  SoftLimit,    \* soft_limit_
  Amounts,      \* byte counts passed to the calls
  MaxTotal      \* bound: bytes threads, caches and calls hold in all

ASSUME TrackerAssumption ==
  /\ IsFiniteSet(Threads) /\ IsFiniteSet(Trackers)
  /\ AllTrackers \in [Trackers -> Seq(Trackers)]
  /\ \A t \in Trackers :
       /\ Len(AllTrackers[t]) > 0 /\ AllTrackers[t][1] = t
       /\ IsInjective(AllTrackers[t])
       /\ \A i \in 1..Len(AllTrackers[t]) :
            AllTrackers[AllTrackers[t][i]]
              = SubSeq(AllTrackers[t], i, Len(AllTrackers[t]))
  /\ Limit \in [Trackers -> Int] /\ SoftLimit \in [Trackers -> Int]
  /\ Amounts \subseteq Nat \ {0}
  /\ MaxTotal \in Nat

VARIABLES
  consumption,  \* consumption_.current_value()
  peak,         \* consumption_.max_value()
  held,         \* bytes each thread has consumed on each tracker, net
  cache,        \* bytes a tracker's GC function can release
  op,           \* the call each thread is inside of
  highest       \* history: the most consumption there ever was

vars == <<consumption, peak, held, cache, op, highest>>

NoOp == [kind |-> "none"]

(* kind: what the thread is doing; on: the tracker called; bytes; at: the  *)
(* index in AllTrackers[on] of the tracker being visited; do: what comes   *)
(* next there; value: the argument of the UpdateMax() to come; stop: the   *)
(* index at which TryConsume() failed; then: for the Release() a GC        *)
(* function makes ("gc"), the call that goes on after it.                  *)
Calls == [kind : {"Consume", "Release", "TryConsume", "rollback"},
          on : Trackers, bytes : Amounts, at : Nat,
          do : {"add", "max", "gc", "check", "retry"}, value : Int, stop : Nat,
          then : {NoOp}]
GcCalls == [kind : {"gc"}, on : Trackers, bytes : Nat \ {0}, at : Nat,
            do : {"add", "max"}, value : Int, stop : {0}, then : Calls \cup {NoOp}]
Ops == Calls \cup GcCalls

Path(t) == AllTrackers[t]
Visited(o) == Path(o.on)[o.at]
Above(t) == ToSet(Path(t))

TypeOK ==
  /\ consumption \in [Trackers -> Int]
  /\ peak \in [Trackers -> Int]
  /\ held \in [Threads -> [Trackers -> Nat]]
  /\ cache \in [Trackers -> Nat]
  /\ op \in [Threads -> Ops \cup {NoOp}]
  /\ highest \in [Trackers -> Int]

Init ==
  /\ consumption = [t \in Trackers |-> 0]
  /\ peak = [t \in Trackers |-> 0]
  /\ held = [p \in Threads |-> [t \in Trackers |-> 0]]
  /\ cache = [t \in Trackers |-> 0]
  /\ op = [p \in Threads |-> NoOp]
  /\ highest = [t \in Trackers |-> 0]

-----------------------------------------------------------------------------
Call(kind, t, b, at) ==
  [kind |-> kind, on |-> t, bytes |-> b, at |-> at, do |-> "add", value |-> 0,
   stop |-> 0, then |-> NoOp]

(* What threads and caches hold on a tracker, and on those of S. *)
HeldOn(s) == SumFunctionOnSet([p \in Threads |-> held[p][s]], Threads)
Outstanding(S) == SumFunctionOnSet([s \in Trackers |-> cache[s] + HeldOn(s)], S)

(* The same with what calls under way take or give back. *)
Moving(o) == IF o = NoOp THEN 0 ELSE o.bytes
InUse ==
  Outstanding(Trackers)
    + SumFunctionOnSet(
        [p \in Threads |-> Moving(op[p])
           + (IF op[p] = NoOp THEN 0 ELSE Moving(op[p].then))], Threads)

Consume(p, t, b) ==
  /\ op[p] = NoOp
  /\ InUse + b <= MaxTotal
  /\ op' = [op EXCEPT ![p] = Call("Consume", t, b, 1)]
  /\ UNCHANGED <<consumption, peak, held, cache, highest>>

TryConsume(p, t, b) ==
  /\ op[p] = NoOp
  /\ InUse + b <= MaxTotal
  /\ op' = [op EXCEPT ![p] = Call("TryConsume", t, b, Len(Path(t)))]
  /\ UNCHANGED <<consumption, peak, held, cache, highest>>

(* The caller gives back bytes it consumed before. *)
Release(p, t, b) ==
  /\ op[p] = NoOp
  /\ held[p][t] >= b
  /\ held' = [held EXCEPT ![p][t] = @ - b]
  /\ op' = [op EXCEPT ![p] = Call("Release", t, b, 1)]
  /\ UNCHANGED <<consumption, peak, cache, highest>>

(* Bytes change hands to something a GC function can empty. *)
PutInCache(p, t) ==
  /\ op[p] = NoOp
  /\ held[p][t] > 0
  /\ cache' = [cache EXCEPT ![t] = @ + held[p][t]]
  /\ held' = [held EXCEPT ![p][t] = 0]
  /\ UNCHANGED <<consumption, peak, op, highest>>

(* The add of IncrementBy(), or of a TryIncrementBy() whose CAS succeeds. *)
AddTo(p, delta) ==
  LET t == Visited(op[p])
      v == consumption[t] + delta
  IN  /\ consumption' = [consumption EXCEPT ![t] = v]
      /\ highest' = [highest EXCEPT ![t] = Max({@, v})]
      /\ op' = [op EXCEPT ![p].do = "max", ![p].value = v]
      /\ UNCHANGED <<peak, held, cache>>

(* Consume(), Release() and the roll-back: IncrementBy() on one tracker. *)
Increment(p) ==
  /\ op[p].kind \in {"Consume", "Release", "gc", "rollback"}
  /\ op[p].do = "add"
  /\ AddTo(p, IF op[p].kind = "Consume" THEN op[p].bytes ELSE - op[p].bytes)

Fits(t, b) == Limit[t] < 0 \/ consumption[t] + b <= Limit[t]

(* Fault: the tracker that failed is rolled back too. *)
RollBack_OneTooMany(p) ==
  [op EXCEPT ![p] = [@ EXCEPT !.kind = "rollback", !.do = "add",
                              !.stop = op[p].at - 1,
                              !.at = Len(Path(op[p].on))]]

(* TryConsume() gives up: undo the trackers already visited, or return.    *)
RollBack(p) ==
  IF op[p].at = Len(Path(op[p].on))
  THEN [op EXCEPT ![p] = NoOp]
  ELSE [op EXCEPT ![p] = [@ EXCEPT !.kind = "rollback", !.do = "add",
                                   !.stop = op[p].at,
                                   !.at = Len(Path(op[p].on))]]

(* TryConsume(): the first TryIncrementBy() on one tracker. *)
TryIncrement(p) ==
  /\ op[p].kind = "TryConsume" /\ op[p].do = "add"
  /\ \/ Fits(Visited(op[p]), op[p].bytes) /\ AddTo(p, op[p].bytes)
     \/ /\ ~Fits(Visited(op[p]), op[p].bytes)
        /\ op' = [op EXCEPT ![p].do = "gc"]
        /\ UNCHANGED <<consumption, peak, held, cache, highest>>

(* What GcMemory(goal) on t frees: its GC function, external code, empties *)
(* the cache of t, unless somebody has met the goal already.               *)
Freed(t, goal) == IF consumption[t] >= goal THEN cache[t] ELSE 0

(* gc_lock_ of t is held from the test of GcMemory() until its verdict. *)
GcLocked(t) ==
  \E q \in Threads :
    \/ op[q].kind = "gc" /\ op[q].on = t
    \/ op[q].kind = "TryConsume" /\ op[q].do = "check" /\ Visited(op[q]) = t

(* GcMemory(goal), from gc_lock_ on: the GC function gives the bytes back  *)
(* through Release(), a call like any other, and `then` goes on after it.  *)
GcMemory(p, t, goal, then) ==
  /\ ~GcLocked(t)
  /\ cache' = [cache EXCEPT ![t] = @ - Freed(t, goal)]
  /\ op' = [op EXCEPT ![p] =
       IF Freed(t, goal) = 0 THEN then
       ELSE [Call("gc", t, Freed(t, goal), 1) EXCEPT !.then = then]]

(* TryConsume() after a failed TryIncrementBy(): GcMemory(limit - bytes),  *)
(* which gives up on a negative goal.  ExpandLimit() always says no.       *)
TryGc(p) ==
  /\ op[p].kind = "TryConsume" /\ op[p].do = "gc"
  /\ LET t == Visited(op[p])
         goal == Limit[t] - op[p].bytes
     IN  \/ /\ goal < 0
            /\ op' = RollBack(p)
            /\ UNCHANGED cache
         \/ /\ goal >= 0
            /\ GcMemory(p, t, goal,
                 [op[p] EXCEPT !.do = IF consumption[t] < goal THEN "retry"
                                                               ELSE "check"])
  /\ UNCHANGED <<consumption, peak, held, highest>>

(* GcMemory() reads the consumption again to tell whether it has reached   *)
(* its goal.                                                               *)
GcVerdict(p) ==
  /\ op[p].kind = "TryConsume" /\ op[p].do = "check"
  /\ LET t == Visited(op[p])
     IN  op' = IF consumption[t] > Limit[t] - op[p].bytes THEN RollBack(p)
               ELSE [op EXCEPT ![p].do = "retry"]
  /\ UNCHANGED <<consumption, peak, held, cache, highest>>

(* Fault: what GcMemory() found is taken to hold still. *)
TryAgain_Unchecked(p) ==
  /\ op[p].kind = "TryConsume" /\ op[p].do = "retry"
  /\ AddTo(p, op[p].bytes)

(* The second TryIncrementBy(), which others may have got ahead of. *)
TryAgain(p) ==
  /\ op[p].kind = "TryConsume" /\ op[p].do = "retry"
  /\ \/ Fits(Visited(op[p]), op[p].bytes) /\ AddTo(p, op[p].bytes)
     \/ /\ ~Fits(Visited(op[p]), op[p].bytes)
        /\ op' = RollBack(p)
        /\ UNCHANGED <<consumption, peak, held, cache, highest>>

(* On to the next tracker, or the end of the call. *)
NextIndex(o) ==
  IF o.kind \in {"Consume", "Release", "gc"} THEN o.at + 1 ELSE o.at - 1
LastIndex(o) ==
  CASE o.kind \in {"Consume", "Release", "gc"} -> Len(Path(o.on))
    [] o.kind = "TryConsume" -> 1
    [] o.kind = "rollback" -> o.stop + 1

(* Fault: the maximum is overwritten. *)
UpdateMax_Overwrites(p) ==
  /\ op[p] # NoOp /\ op[p].do = "max"
  /\ peak' = [peak EXCEPT ![Visited(op[p])] = op[p].value]
  /\ IF op[p].at # LastIndex(op[p])
     THEN /\ op' = [op EXCEPT ![p].at = NextIndex(op[p]), ![p].do = "add",
                              ![p].value = 0]
          /\ held' = held
     ELSE /\ op' = [op EXCEPT ![p] = op[p].then]
          /\ held' = IF op[p].kind \in {"Consume", "TryConsume"}
                     THEN [held EXCEPT ![p][op[p].on] = @ + op[p].bytes]
                     ELSE held
  /\ UNCHANGED <<consumption, cache, highest>>

(* UpdateMax(), which ends the visit to a tracker. *)
UpdateMax(p) ==
  /\ op[p] # NoOp /\ op[p].do = "max"
  /\ peak' = [peak EXCEPT ![Visited(op[p])] = Max({@, op[p].value})]
  /\ IF op[p].at # LastIndex(op[p])
     THEN /\ op' = [op EXCEPT ![p].at = NextIndex(op[p]), ![p].do = "add",
                              ![p].value = 0]
          /\ held' = held
     ELSE /\ op' = [op EXCEPT ![p] = op[p].then]
          /\ held' = IF op[p].kind \in {"Consume", "TryConsume"}
                     THEN [held EXCEPT ![p][op[p].on] = @ + op[p].bytes]
                     ELSE held
  /\ UNCHANGED <<consumption, cache, highest>>

(* LimitExceeded() and SoftLimitExceeded() of t: garbage is collected down *)
(* to the limit when it is exceeded, down to the soft limit when that is   *)
(* reached and the draw, larger with larger usage, says so.                *)
LimitExceeded(p, t) ==
  /\ op[p] = NoOp
  /\ Limit[t] >= 0
  /\ \/ Limit[t] < consumption[t] /\ GcMemory(p, t, Limit[t], NoOp)
     \/ /\ consumption[t] <= Limit[t] /\ Limit[t] # SoftLimit[t]
        /\ consumption[t] >= SoftLimit[t]
        /\ \E draw \in 0..(Limit[t] - SoftLimit[t] - 1) :
             consumption[t] + draw > Limit[t]
        /\ GcMemory(p, t, SoftLimit[t], NoOp)
  /\ UNCHANGED <<consumption, peak, held, highest>>

Next ==
  \E p \in Threads :
    \/ \E t \in Trackers :
         \/ \E b \in Amounts : Consume(p, t, b) \/ TryConsume(p, t, b)
                               \/ Release(p, t, b)
         \/ PutInCache(p, t) \/ LimitExceeded(p, t)
    \/ Increment(p) \/ TryIncrement(p) \/ TryGc(p) \/ GcVerdict(p) \/ TryAgain(p)
    \/ UpdateMax(p)

Spec == Init /\ [][Next]_vars

-----------------------------------------------------------------------------
(* What a call under way has added to t and not yet accounted for. *)
Pending(o, t) ==
  IF o = NoOp \/ t \notin Above(o.on) THEN 0
  ELSE LET i == CHOOSE j \in 1..Len(Path(o.on)) : Path(o.on)[j] = t
           done == o.do = "max"
       IN  CASE o.kind = "Consume" ->
                  IF i < o.at \/ (i = o.at /\ done) THEN o.bytes ELSE 0
             [] o.kind = "TryConsume" ->
                  IF i > o.at \/ (i = o.at /\ done) THEN o.bytes ELSE 0
             [] o.kind \in {"Release", "gc"} ->
                  IF i > o.at \/ (i = o.at /\ ~done) THEN o.bytes ELSE 0
             [] o.kind = "rollback" ->
                  IF i > o.stop /\ (i < o.at \/ (i = o.at /\ ~done))
                  THEN o.bytes ELSE 0

InFlight(p, t) ==
  Pending(op[p], t) + (IF op[p] = NoOp THEN 0 ELSE Pending(op[p].then, t))

Below(t) == {s \in Trackers : t \in Above(s)}

(* At any moment a tracker's consumption is exactly what is held on it and *)
(* on its descendants, by threads and caches, plus what calls under way    *)
(* have added: a failed TryConsume() takes back what it added, and nothing *)
(* else, however it interleaves with other calls and collections.          *)
ConsumptionBalances ==
  /\ TypeOK
  /\ \A t \in Trackers :
       consumption[t] =
         Outstanding(Below(t))
           + SumFunctionOnSet([p \in Threads |-> InFlight(p, t)], Threads)

(* Only Consume() takes a tracker over its limit: no interleaving of calls *)
(* of TryConsume(), with the collection and second try in the middle, does.*)
OnlyConsumeExceedsLimit ==
  [][\A t \in Trackers :
       (Limit[t] >= 0 /\ consumption[t] <= Limit[t]
          /\ consumption'[t] > Limit[t]) =>
         \E p \in Threads : op[p] # NoOp /\ op[p].kind = "Consume"
                            /\ op'[p] # op[p]]_vars

(* peak_consumption() is never more than was ever consumed, and, when no   *)
(* call is under way, exactly the most that ever was, although each update *)
(* of the maximum comes a step after the add it belongs to.                *)
PeakIsHighWater ==
  /\ \A t \in Trackers : peak[t] <= highest[t]
  /\ (\A p \in Threads : op[p] = NoOp) =>
       \A t \in Trackers : peak[t] = highest[t]

=============================================================================
