---------------------------- MODULE TrackerTree ----------------------------
(***************************************************************************)
(* The tree of MemTrackers of base/mem_tracker.cc and the life of the      *)
(* trackers in it.  A parent lists its children by weak_ptr under its      *)
(* child_trackers_lock_, a child keeps its parent_ alive by shared_ptr,    *)
(* and the thread that drops the last reference runs ~MemTracker(), which  *)
(* takes the parent's lock.  MemTracker models the consumption.            *)
(*                                                                         *)
(* A step is a critical section of that lock, a weak_ptr::lock(), or the   *)
(* end of a reference; LogUsage() keeps the lock over many steps.  The     *)
(* order of a list of children is left open.                               *)
(***************************************************************************)
EXTENDS Naturals, Sequences, FiniteSets

CONSTANTS
  MaxTrackers, \* bound on the trackers that can be made
  TreeThreads  \* threads

ASSUME TreeAssumption == MaxTrackers \in Nat

Made == 1 .. MaxTrackers  \* in the order of their creation
Root == 0
Nodes == Made \cup {Root}
Global == "global" \* an id made by FindOrCreateGlobalTracker() only
Local == "local"   \* any other id

VARIABLES
  obj,       \* each tracker: its stage, parent_ and id_
  children,  \* child_trackers_ of each node
  treeLock,  \* who holds the child_trackers_lock_ of each node, as a set
  refs,      \* the trackers the callers of a thread hold
  tmp,       \* the trackers the call in progress holds
  dying,     \* the tracker whose destructor the thread is in, as a set
  tpc,       \* where the thread is in its call
  frames,    \* the nodes it works on, innermost first
  want,      \* the id it looks for
  critical   \* who holds find_or_create_lock, as a set

treeVars == <<obj, children, treeLock, refs, tmp, dying, tpc, frames, want, critical>>

Frame(n, todo) == [node |-> n, todo |-> todo]

TreeTypeOK ==
  /\ obj \in [Made -> [stage : {"none", "live", "dying", "gone"},
                           parent : Nodes, id : {Global, Local}]]
  /\ children \in [Nodes -> SUBSET Made]
  /\ treeLock \in [Nodes -> SUBSET TreeThreads]
  /\ refs \in [TreeThreads -> SUBSET Made] /\ tmp \in [TreeThreads -> SUBSET Made]
  /\ dying \in [TreeThreads -> SUBSET Made]
  /\ tpc \in [TreeThreads -> {"idle", "snapshot", "find", "judge", "add", "enter", "log",
                             "list", "drop"}]
  /\ \A t \in TreeThreads : \A i \in DOMAIN frames[t] :
       frames[t][i] \in [node : Nodes, todo : SUBSET Nodes]
  /\ want \in [TreeThreads -> {Global, Local}] /\ critical \subseteq TreeThreads

TreeInit ==
  /\ obj = [o \in Made |-> [stage |-> "none", parent |-> Root, id |-> Local]]
  /\ children = [n \in Nodes |-> {}] /\ treeLock = [n \in Nodes |-> {}]
  /\ refs = [t \in TreeThreads |-> {}] /\ tmp = [t \in TreeThreads |-> {}]
  /\ dying = [t \in TreeThreads |-> {}]
  /\ tpc = [t \in TreeThreads |-> "idle"] /\ frames = [t \in TreeThreads |-> <<>>]
  /\ want = [t \in TreeThreads |-> Local] /\ critical = {}

-----------------------------------------------------------------------------
(* weak_ptr::lock() succeeds: the reference count is not yet 0. *)
Live(o) == obj[o].stage = "live"

(* Thread t runs this call, is not inside a destructor, and goes on to pc. *)
Op(t, from, to) == tpc[t] = from /\ dying[t] = {} /\ tpc' = [tpc EXCEPT ![t] = to]

Top(t) == Head(frames[t])
Visit(t, stack) == frames' = [frames EXCEPT ![t] = stack]
(* The frames of t when the innermost one has only `todo` left to do. *)
Left(t, todo) == <<Frame(Top(t).node, todo)>> \o Tail(frames[t])

(* Only the variables of the call change. *)
Quiet == UNCHANGED <<obj, children, treeLock, refs, dying>>

(* Thread t's references become r and m.  If that was the last one to o,   *)
(* t runs its destructor next.                                             *)
Unref(t, o, r, m) ==
  /\ refs' = r /\ tmp' = m
  /\ IF \/ \E u \in TreeThreads : o \in r[u] \cup m[u]
        \/ \E c \in Made : obj[c].stage \in {"live", "dying"} /\ obj[c].parent = o
     THEN UNCHANGED <<obj, dying>>
     ELSE /\ obj' = [obj EXCEPT ![o].stage = "dying"]
          /\ dying' = [dying EXCEPT ![t] = {o}]

(* A caller lets go of a tracker. *)
ReleaseTracker(t, o) ==
  /\ Op(t, "idle", "idle") /\ o \in refs[t]
  /\ Unref(t, o, [refs EXCEPT ![t] = @ \ {o}], tmp)
  /\ UNCHANGED <<children, treeLock, frames, want, critical>>

Gone == [stage |-> "gone", parent |-> Root, id |-> Local]

(* ~MemTracker(): erased under the parent's lock; then parent_ is dropped, *)
(* which may have been the last reference to the parent.                   *)
Destroy(t, o) ==
  LET p == obj[o].parent IN
  /\ o \in dying[t] /\ treeLock[p] = {}
  /\ children' = [children EXCEPT ![p] = @ \ {o}]
  /\ IF p # Root /\ (\A u \in TreeThreads : p \notin refs[u] \cup tmp[u])
        /\ (\A c \in Made \ {o} :
              obj[c].stage \in {"live", "dying"} => obj[c].parent # p)
     THEN /\ obj' = [obj EXCEPT ![o] = Gone, ![p].stage = "dying"]
          /\ dying' = [dying EXCEPT ![t] = {p}]
     ELSE /\ obj' = [obj EXCEPT ![o] = Gone]
          /\ dying' = [dying EXCEPT ![t] = {}]
  /\ UNCHANGED <<treeLock, refs, tmp, tpc, frames, want, critical>>

-----------------------------------------------------------------------------
(* CreateTracker(): the new tracker, which only this call refers to. *)
Create(t, o, p, id) ==
  /\ \A n \in Made : obj[n].stage = "none" <=> n >= o
  /\ obj' = [obj EXCEPT ![o] = [stage |-> "live", parent |-> p, id |-> id]]
  /\ tmp' = [tmp EXCEPT ![t] = {o}]
  /\ UNCHANGED <<children, treeLock, refs, dying, critical>>

CreateTracker(t) ==
  /\ Op(t, "idle", "add")
  /\ \E o \in Made, p \in refs[t] \cup {Root} : Create(t, o, p, Local)
  /\ UNCHANGED <<frames, want>>

(* AddChildTracker() publishes it; CreateTracker() returns it. *)
AddChildTracker(t) ==
  /\ Op(t, "add", "idle")
  /\ \E o \in tmp[t] :
       /\ treeLock[obj[o].parent] = {}
       /\ children' = [children EXCEPT ![obj[o].parent] = @ \cup {o}]
       /\ refs' = [refs EXCEPT ![t] = @ \cup {o}]
  /\ tmp' = [tmp EXCEPT ![t] = {}] /\ critical' = critical \ {t}
  /\ UNCHANGED <<obj, treeLock, dying, frames, want>>

(* FindTrackerInternal() copies the list of weak_ptrs under the lock ... *)
Snapshot(t, from, n, id) ==
  /\ Op(t, from, "find") /\ treeLock[n] = {}
  /\ Visit(t, <<Frame(n, children[n])>>)
  /\ want' = [want EXCEPT ![t] = id]
  /\ Quiet /\ UNCHANGED <<tmp, critical>>

FindTracker(t) ==
  \E n \in refs[t] \cup {Root}, id \in {Global, Local} : Snapshot(t, "idle", n, id)

(* Fault: find_or_create_lock is free to everybody. *)
CanFindOrCreate_Always == TRUE
CanFindOrCreate == critical = {}

(* FindOrCreateGlobalTracker() takes find_or_create_lock first. *)
FindOrCreateGlobalTracker(t) ==
  /\ Op(t, "idle", "snapshot")
  /\ CanFindOrCreate /\ critical' = critical \cup {t}
  /\ Quiet /\ UNCHANGED <<tmp, frames, want>>

FindGlobal(t) == Snapshot(t, "snapshot", Root, Global)

(* ... and looks at them without it. *)
LookAt(t) ==
  /\ tpc[t] = "find"
  /\ \E o \in Top(t).todo :
       LET rest == Left(t, Top(t).todo \ {o}) IN
       /\ tmp' = [tmp EXCEPT ![t] = IF Live(o) THEN @ \cup {o} ELSE @]
       /\ IF Live(o) /\ obj[o].id # want[t]
          THEN Op(t, "find", "judge") /\ Visit(t, <<Frame(o, {})>> \o rest)
          ELSE Op(t, "find", "find") /\ Visit(t, rest)
  /\ Quiet /\ UNCHANGED <<want, critical>>

(* One that is not wanted is dropped: perhaps the last reference to it. *)
Unwanted(t) ==
  /\ Op(t, "judge", "find") /\ Visit(t, Tail(frames[t]))
  /\ Unref(t, Top(t).node, refs, [tmp EXCEPT ![t] = @ \ {Top(t).node}])
  /\ UNCHANGED <<children, treeLock, want, critical>>

(* The caller gets found[0]; a second one (LOG(DFATAL)) is dropped.  With  *)
(* nothing found, FindOrCreateGlobalTracker() creates the tracker.         *)
Found(t) ==
  /\ tpc[t] = "find" /\ Top(t).todo = {} /\ tmp[t] # {}
  /\ Op(t, "find", "drop") /\ Visit(t, <<>>)
  /\ \E o \in tmp[t] : /\ refs' = [refs EXCEPT ![t] = @ \cup {o}]
                      /\ tmp' = [tmp EXCEPT ![t] = @ \ {o}]
  /\ want' = [want EXCEPT ![t] = Local] /\ critical' = critical \ {t}
  /\ UNCHANGED <<obj, children, treeLock, dying>>

NotFound(t) ==
  /\ tpc[t] = "find" /\ Top(t).todo = {} /\ tmp[t] = {}
  /\ Visit(t, <<>>)
  /\ IF t \in critical
     THEN /\ Op(t, "find", "add")
          /\ \E o \in Made : Create(t, o, Root, Global)
     ELSE Op(t, "find", "idle") /\ Quiet /\ UNCHANGED <<tmp, critical>>
  /\ want' = [want EXCEPT ![t] = Local]

-----------------------------------------------------------------------------
(* LogUsage() of a tracker the caller holds: it takes the lock of the      *)
(* node, and with it held calls itself for each child it can lock.         *)
LogUsage(t) ==
  \E n \in Nodes :
    /\ \/ n \in refs[t] \cup {Root} /\ Op(t, "idle", "log")
       \/ tpc[t] = "enter" /\ n = Top(t).node /\ Op(t, "enter", "log")
    /\ treeLock[n] = {} /\ treeLock' = [treeLock EXCEPT ![n] = {t}]
    /\ Visit(t, <<Frame(n, children[n])>> \o
                (IF tpc[t] = "idle" THEN <<>> ELSE Tail(frames[t])))
    /\ UNCHANGED <<obj, children, refs, tmp, dying, want, critical>>

LogChild(t) ==
  /\ tpc[t] = "log"
  /\ \E o \in Top(t).todo :
       LET rest == Left(t, Top(t).todo \ {o}) IN
       IF Live(o)
       THEN /\ Op(t, "log", "enter") /\ Visit(t, <<Frame(o, {})>> \o rest)
            /\ tmp' = [tmp EXCEPT ![t] = @ \cup {o}]
       ELSE Op(t, "log", "log") /\ Visit(t, rest) /\ UNCHANGED tmp
  /\ Quiet /\ UNCHANGED <<want, critical>>

(* The node is done.  Back in the parent, whose lock is still held, the    *)
(* reference to the child ends.                                            *)
LogLeave(t) ==
  LET n == Top(t).node IN
  /\ tpc[t] = "log" /\ Top(t).todo = {} /\ Visit(t, Tail(frames[t]))
  /\ treeLock' = [treeLock EXCEPT ![n] = {}]
  /\ IF Len(frames[t]) = 1
     THEN Op(t, "log", "idle") /\ UNCHANGED <<obj, refs, tmp, dying>>
     ELSE Op(t, "log", "log") /\ Unref(t, n, refs, [tmp EXCEPT ![t] = @ \ {n}])
  /\ UNCHANGED <<children, want, critical>>

(* ListTrackers(): breadth first, keeping a reference to every child.  The *)
(* caller drops the list.                                                  *)
ListTrackers(t) ==
  /\ Op(t, "idle", "list") /\ Visit(t, <<Frame(Root, {Root})>>)
  /\ Quiet /\ UNCHANGED <<tmp, want, critical>>

ListOne(t) ==
  /\ tpc[t] = "list"
  /\ \E n \in Top(t).todo :
       LET found == {o \in children[n] : Live(o)}
           todo == (Top(t).todo \ {n}) \cup found IN
       /\ treeLock[n] = {}
       /\ Op(t, "list", IF todo = {} THEN "drop" ELSE "list")
       /\ Visit(t, IF todo = {} THEN <<>> ELSE Left(t, todo))
       /\ tmp' = [tmp EXCEPT ![t] = @ \cup found]
  /\ Quiet /\ UNCHANGED <<want, critical>>

DropOne(t) ==
  /\ IF tmp[t] = {}
     THEN Op(t, "drop", "idle") /\ Quiet /\ UNCHANGED tmp
     ELSE /\ Op(t, "drop", "drop")
          /\ \E o \in tmp[t] : Unref(t, o, refs, [tmp EXCEPT ![t] = @ \ {o}])
          /\ UNCHANGED <<children, treeLock>>
  /\ UNCHANGED <<frames, want, critical>>

TreeStep(t) ==
  \/ \E o \in Made : ReleaseTracker(t, o) \/ Destroy(t, o)
  \/ CreateTracker(t) \/ AddChildTracker(t)
  \/ FindTracker(t) \/ FindOrCreateGlobalTracker(t) \/ FindGlobal(t) \/ LookAt(t)
  \/ Unwanted(t) \/ Found(t) \/ NotFound(t)
  \/ LogUsage(t) \/ LogChild(t) \/ LogLeave(t)
  \/ ListTrackers(t) \/ ListOne(t) \/ DropOne(t)

TreeNext == \E t \in TreeThreads : TreeStep(t)

TreeSpec == TreeInit /\ [][TreeNext]_treeVars

-----------------------------------------------------------------------------
(* Whatever a thread holds is alive, the parent of a tracker outlives it,  *)
(* and a list names only trackers that still exist: a weak_ptr is never    *)
(* locked after the count was 0, and child_tracker_it_ is erased before    *)
(* its list can go.                                                        *)
TreeSound ==
  /\ \A t \in TreeThreads : \A o \in refs[t] \cup tmp[t] : Live(o)
  /\ \A o \in Made : obj[o].stage \in {"live", "dying"} =>
       obj[o].parent = Root \/ Live(obj[o].parent)
  /\ \A n \in Nodes : \A o \in children[n] :
       obj[o].stage \in {"live", "dying"} /\ obj[o].parent = n

(* FindOrCreateGlobalTracker() never makes a second live tracker of an id, *)
(* though it must let go of the root's lock while it searches.             *)
GlobalIdsUnique ==
  Cardinality({o \in Made : Live(o) /\ obj[o].id = Global}) <= 1

(* The tree stays sound, whoever runs the destructor of a tracker.         *)
TrackersSound == TreeTypeOK /\ TreeSound /\ GlobalIdsUnique

(* The comment at the search of FindTrackerInternal(): a destructor must   *)
(* not run under the lock of its parent, which it takes itself.            *)
NoRecursiveAcquisition ==
  \A t \in TreeThreads : \A o \in dying[t] : t \notin treeLock[obj[o].parent]

=============================================================================
