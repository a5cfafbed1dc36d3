--------------------------- MODULE TrackerProofs ---------------------------
(***************************************************************************)
(* Proofs about the tree of MemTrackers and the life of the trackers in    *)
(* it, for any number of threads and of trackers.                          *)
(***************************************************************************)
EXTENDS MCMemTracker, FiniteSetTheorems, TLAPS

Objects == [Made -> [stage : {"none", "live", "dying", "gone"}, parent : Nodes,
                     id : {Global, Local}]]
Frames == [node : Nodes, todo : SUBSET Nodes]
PCs == {"idle", "snapshot", "find", "judge", "add", "enter", "log", "list", "drop"}
Types ==
  /\ obj \in Objects /\ children \in [Nodes -> SUBSET Made]
  /\ treeLock \in [Nodes -> SUBSET TreeThreads]
  /\ refs \in [TreeThreads -> SUBSET Made] /\ tmp \in [TreeThreads -> SUBSET Made]
  /\ dying \in [TreeThreads -> SUBSET Made] /\ tpc \in [TreeThreads -> PCs]
  /\ frames \in [TreeThreads -> Seq(Frames)]
  /\ want \in [TreeThreads -> {Global, Local}] /\ critical \in SUBSET TreeThreads

(* The parent of a tracker is older than the tracker; a global one hangs   *)
(* from the root.                                                          *)
Exists(ob, o) == ob[o].stage \in {"live", "dying"}
Orders ==
  \A o \in Made : Exists(obj, o) =>
    obj[o].parent < o /\ (obj[o].id = Global => obj[o].parent = Root)

(* Each tracker is in the destructor of one thread.                        *)
Destructors ==
  /\ \A t \in TreeThreads : \A o \in dying[t] : obj[o].stage = "dying"
  /\ \A t, u \in TreeThreads : t # u => dying[t] \cap dying[u] = {}

(* What is left to do in a frame has or had the node of it for a parent:   *)
(* a call that walks the tree goes down, and holds the nodes on its way.   *)
Walking == {"find", "judge", "enter", "log"}
OfNode(ob, f) ==
  \A o \in f.todo : /\ o \in Made /\ ob[o].stage # "none"
                    /\ (ob[o].stage = "live" => ob[o].parent = f.node)
Stack(ob, s, m) ==
  /\ \A i \in 1..Len(s) : OfNode(ob, s[i])
  /\ \A i \in 1..(Len(s) - 1) : s[i].node \in m
  /\ \A i, j \in 1..Len(s) : i < j => s[j].node < s[i].node

(* A thread that holds find_or_create_lock has seen every global tracker   *)
(* that is alive, or has it still before it.                               *)
LiveGlobal(ob, o) == ob[o].stage = "live" /\ ob[o].id = Global
CallOK(ob, t, pc, s, m, w, c) ==
  /\ pc \in Walking => s # <<>> /\ Stack(ob, s, m)
  /\ pc = "list" => s # <<>>
  /\ pc = "find" => Len(s) = 1
  /\ pc = "judge" => Len(s) = 2
  /\ pc = "enter" => Len(s) >= 2
  /\ t \in c => pc \in {"snapshot", "find", "judge", "add"}
  /\ pc = "snapshot" => t \in c
  /\ t \in c /\ pc \in {"find", "judge"} =>
       /\ w = Global
       /\ \A o \in Made : LiveGlobal(ob, o) => o \in m \/ o \in s[Len(s)].todo
  /\ t \in c /\ pc = "judge" => ob[s[1].node].id # Global
  /\ pc = "add" => \E o \in Made : m = {o}

InCall(t) == CallOK(obj, t, tpc[t], frames[t], tmp[t], want[t], critical)

(* One thread at a time is in FindOrCreateGlobalTracker(), and a global    *)
(* tracker is listed, or about to be by this thread.                       *)
OneCritical == \A t, u \in critical : t = u
GlobalsListed ==
  \A o \in Made : LiveGlobal(obj, o) =>
    o \in children[Root] \/ \E t \in critical : tpc[t] = "add" /\ o \in tmp[t]
OneGlobal == \A o, n \in Made : LiveGlobal(obj, o) /\ LiveGlobal(obj, n) => o = n

TreeInv ==
  /\ Types /\ TreeSound /\ Orders /\ Destructors
  /\ OneCritical /\ GlobalsListed /\ OneGlobal
  /\ \A t \in TreeThreads : InCall(t)

-----------------------------------------------------------------------------
(* The stack of a call: a new innermost frame, one on top, one off.        *)
LEMMA NodesAre ==
  /\ Made \subseteq Nat \ {0} /\ Root \in Nodes /\ Made \subseteq Nodes /\ Nodes \subseteq Nat
  /\ Root \notin Made /\ \A n \in Nodes : n \in Made \/ n = Root
BY TreeAssumption DEF Made, Nodes, Root

LEMMA FrameIs ==
  ASSUME NEW n \in Nodes, NEW d \in SUBSET Nodes
  PROVE  Frame(n, d) \in Frames /\ Frame(n, d).node = n /\ Frame(n, d).todo = d
BY DEF Frame, Frames

LEMMA SwapIs ==
  ASSUME NEW s \in Seq(Frames), s # <<>>, NEW f \in Frames, NEW r, r = <<f>> \o Tail(s)
  PROVE  /\ r \in Seq(Frames) /\ r # <<>> /\ Len(r) = Len(s) /\ r[1] = f
         /\ \A i \in 2..Len(s) : r[i] = s[i]
         /\ Len(s) \in Nat \ {0} /\ Head(s) = s[1] /\ s[1] \in Frames
<1>1. /\ Tail(s) \in Seq(Frames) /\ Len(Tail(s)) = Len(s) - 1 /\ Len(s) \in Nat \ {0}
      /\ \A i \in 1..Len(Tail(s)) : Tail(s)[i] = s[i + 1]
  OBVIOUS
<1>2. <<f>> \in Seq(Frames) /\ Len(<<f>>) = 1 /\ <<f>>[1] = f
  OBVIOUS
<1>3. /\ r \in Seq(Frames) /\ Len(r) = Len(s) /\ r[1] = f
      /\ \A i \in 2..Len(s) : r[i] = Tail(s)[i - 1]
  BY <1>1, <1>2
<1>4. ASSUME NEW i \in 2..Len(s) PROVE r[i] = s[i]
  <2>1. i - 1 \in 1..Len(Tail(s)) /\ (i - 1) + 1 = i
    BY <1>1
  <2>. QED  BY <1>1, <1>3, <2>1
<1>5. r # <<>>
  BY <1>1, <1>3
<1>. QED  BY <1>1, <1>3, <1>4, <1>5

LEMMA PushIs ==
  ASSUME NEW s \in Seq(Frames), NEW f \in Frames, NEW r, r = <<f>> \o s
  PROVE  /\ r \in Seq(Frames) /\ r # <<>> /\ Len(r) = Len(s) + 1 /\ r[1] = f
         /\ \A i \in 2..Len(r) : r[i] = s[i - 1]
         /\ Len(s) \in Nat
<1>2. <<f>> \in Seq(Frames) /\ Len(<<f>>) = 1 /\ <<f>>[1] = f
  OBVIOUS
<1>3. /\ r \in Seq(Frames) /\ Len(r) = Len(s) + 1 /\ r[1] = f
      /\ \A i \in 2..Len(r) : r[i] = s[i - 1]
  BY <1>2
<1>. QED  BY <1>3

LEMMA PopIs ==
  ASSUME NEW s \in Seq(Frames), s # <<>>, NEW r, r = Tail(s)
  PROVE  /\ r \in Seq(Frames) /\ Len(r) = Len(s) - 1 /\ Len(s) \in Nat \ {0}
         /\ \A i \in 1..Len(r) : r[i] = s[i + 1]
OBVIOUS

LEMMA StackOne ==
  ASSUME NEW ob, NEW f \in Frames, OfNode(ob, f), NEW m, NEW s, s = <<f>>
  PROVE  s \in Seq(Frames) /\ Len(s) = 1 /\ s # <<>> /\ s[1] = f /\ Stack(ob, s, m)
<1>1. s \in Seq(Frames) /\ Len(s) = 1 /\ s # <<>> /\ s[1] = f
  OBVIOUS
<1>2. \A i \in 1..1 : i = 1
  OBVIOUS
<1>3. \A i \in 1..0 : FALSE
  OBVIOUS
<1>4. \A i \in 1..Len(s) : OfNode(ob, s[i])
  BY <1>1, <1>2
<1>5. \A i \in 1..(Len(s) - 1) : FALSE
  BY <1>1, <1>3
<1>6. \A i, j \in 1..Len(s) : ~(i < j)
  BY <1>1, <1>2
<1>. QED  BY <1>1, <1>4, <1>5, <1>6 DEF Stack

LEMMA StackMore ==
  ASSUME NEW ob, NEW s, NEW m, NEW k, m \subseteq k, Stack(ob, s, m)
  PROVE  Stack(ob, s, k)
BY DEF Stack

LEMMA StackSwap ==
  ASSUME NEW ob, NEW s \in Seq(Frames), s # <<>>, NEW m, NEW k, m \subseteq k,
         Stack(ob, s, m), NEW f \in Frames, f.node = s[1].node, OfNode(ob, f),
         NEW r, r = <<f>> \o Tail(s)
  PROVE  Stack(ob, r, k)
<1>1. /\ Len(r) = Len(s) /\ r[1] = f /\ \A i \in 2..Len(s) : r[i] = s[i]
      /\ Len(s) \in Nat
  BY SwapIs
<1>2. \A i \in 1..Len(s) : i = 1 \/ i \in 2..Len(s)
  BY <1>1
<1>3. \A i \in 1..Len(s) : r[i].node = s[i].node
  BY <1>1, <1>2
<1>4. \A i \in 1..Len(r) : OfNode(ob, r[i])
  BY <1>1, <1>2 DEF Stack
<1>5. \A i \in 1..(Len(s) - 1) : i \in 1..Len(s)
  BY <1>1
<1>6. \A i \in 1..(Len(r) - 1) : r[i].node \in k
  BY <1>1, <1>3, <1>5 DEF Stack
<1>7. \A i, j \in 1..Len(r) : i < j => r[j].node < r[i].node
  BY <1>1, <1>3 DEF Stack
<1>. QED  BY <1>4, <1>6, <1>7 DEF Stack

LEMMA StackPush ==
  ASSUME NEW ob, NEW s \in Seq(Frames), s # <<>>, NEW m, NEW k, m \subseteq k,
         Stack(ob, s, m), NEW f \in Frames, s[1].node < f.node, OfNode(ob, f),
         f.node \in k, NEW r, r = <<f>> \o s
  PROVE  Stack(ob, r, k)
<1>1. /\ Len(r) = Len(s) + 1 /\ r[1] = f /\ \A i \in 2..Len(r) : r[i] = s[i - 1]
      /\ Len(s) \in Nat
  BY PushIs
<1>2. Len(s) # 0
  OBVIOUS
<1>3. \A i \in 1..Len(r) : i = 1 \/ i \in 2..Len(r)
  BY <1>1
<1>4. \A i \in 2..Len(r) : i - 1 \in 1..Len(s)
  BY <1>1
<1>5. \A i \in 1..Len(r) : OfNode(ob, r[i])
  BY <1>1, <1>3, <1>4 DEF Stack
<1>6. ASSUME NEW i \in 1..(Len(r) - 1) PROVE r[i].node \in k
  <2>1. CASE i = 1
    BY <1>1, <2>1
  <2>2. CASE i # 1
    <3>1. i \in 2..Len(r) /\ i - 1 \in 1..(Len(s) - 1)
      BY <1>1, <2>2
    <3>. QED  BY <1>1, <3>1 DEF Stack
  <2>. QED  BY <2>1, <2>2
<1>7. ASSUME NEW i \in 1..Len(s) PROVE s[i].node \in Nat /\ s[i].node <= s[1].node
  <2>0. s[i] \in Frames /\ s[1] \in Frames /\ 1 \in 1..Len(s)
    BY <1>1, <1>2
  <2>1. s[i].node \in Nat /\ s[1].node \in Nat
    BY <2>0, NodesAre DEF Frames
  <2>2. i # 1 => 1 < i
    BY <1>1
  <2>3. i # 1 => s[i].node < s[1].node
    BY <2>0, <2>2 DEF Stack
  <2>. QED  BY <2>1, <2>3
<1>8. ASSUME NEW i \in 1..Len(r), NEW j \in 1..Len(r), i < j
      PROVE  r[j].node < r[i].node
  <2>0. j \in 2..Len(r)
    BY <1>1, <1>8
  <2>1. PICK b \in 1..Len(s) : b = j - 1
    BY <1>4, <2>0
  <2>2. r[j] = s[b]
    BY <1>1, <2>0, <2>1
  <2>3. CASE i = 1
    <3>1. f.node \in Nat
      BY NodesAre DEF Frames
    <3>2. 1 \in 1..Len(s)
      BY <1>1, <1>2
    <3>3. s[1].node \in Nat
      BY <1>7, <3>2
    <3>. QED  BY <1>1, <1>7, <2>2, <2>3, <3>1, <3>3
  <2>4. CASE i # 1
    <3>0. i \in 2..Len(r)
      BY <1>3, <2>4
    <3>1. PICK a \in 1..Len(s) : a = i - 1
      BY <1>4, <3>0
    <3>2. a < b /\ r[i] = s[a]
      BY <1>1, <1>8, <2>1, <3>0, <3>1
    <3>. QED  BY <2>2, <3>2 DEF Stack
  <2>. QED  BY <2>3, <2>4
<1>. QED  BY <1>5, <1>6, <1>8 DEF Stack

LEMMA StackPop ==
  ASSUME NEW ob, NEW s \in Seq(Frames), s # <<>>, NEW m, Stack(ob, s, m),
         NEW r, r = Tail(s)
  PROVE  Stack(ob, r, m \ {s[1].node})
<1>1. Len(r) = Len(s) - 1 /\ Len(s) \in Nat \ {0} /\ \A i \in 1..Len(r) : r[i] = s[i + 1]
  BY PopIs
<1>2. \A i \in 1..Len(r) : i + 1 \in 1..Len(s)
  BY <1>1
<1>3. \A i \in 1..Len(r) : OfNode(ob, r[i])
  BY <1>1, <1>2 DEF Stack
<1>4. ASSUME NEW i \in 1..(Len(r) - 1) PROVE r[i].node \in m \ {s[1].node}
  <2>1. i \in 1..Len(r) /\ i + 1 \in 1..(Len(s) - 1) /\ i + 1 \in 1..Len(s)
        /\ 1 \in 1..Len(s) /\ 1 < i + 1
    BY <1>1
  <2>2. PICK a \in 1..(Len(s) - 1) : a = i + 1
    BY <2>1
  <2>3. r[i] = s[a] /\ a \in 1..Len(s) /\ 1 < a
    BY <1>1, <2>1, <2>2
  <2>4. s[a].node \in m /\ s[a].node < s[1].node
    BY <2>1, <2>3 DEF Stack
  <2>5. s[a] \in Frames /\ s[1] \in Frames
    BY <2>1, <2>3
  <2>6. s[a].node \in Nat /\ s[1].node \in Nat
    BY <2>5, NodesAre DEF Frames
  <2>. QED  BY <2>3, <2>4, <2>6
<1>5. ASSUME NEW i \in 1..Len(r), NEW j \in 1..Len(r), i < j
      PROVE  r[j].node < r[i].node
  <2>1. PICK a \in 1..Len(s) : a = i + 1
    BY <1>2
  <2>2. PICK b \in 1..Len(s) : b = j + 1
    BY <1>2
  <2>3. a < b /\ r[i] = s[a] /\ r[j] = s[b]
    BY <1>1, <1>5, <2>1, <2>2
  <2>. QED  BY <2>3 DEF Stack
<1>. QED  BY <1>3, <1>4, <1>5 DEF Stack

-----------------------------------------------------------------------------
(* How trackers change: one is born, dies with its last reference, or is   *)
(* gone after its destructor.                                              *)
Moves(a, b) ==
  \A o \in Made :
    \/ b[o] = a[o]
    \/ /\ a[o].stage = "live" /\ b[o].stage = "dying"
       /\ b[o].parent = a[o].parent /\ b[o].id = a[o].id
    \/ a[o].stage = "dying" /\ b[o].stage = "gone"
    \/ a[o].stage = "none" /\ b[o].stage = "live"

NoNewGlobal(a, b) == \A o \in Made : LiveGlobal(b, o) => LiveGlobal(a, o)

LEMMA OfNodeKept ==
  ASSUME NEW a, NEW b, Moves(a, b), NEW f, OfNode(a, f)
  PROVE  OfNode(b, f)
<1>. SUFFICES ASSUME NEW o \in f.todo
              PROVE  /\ o \in Made /\ b[o].stage # "none"
                     /\ (b[o].stage = "live" => b[o].parent = f.node)
  BY DEF OfNode
<1>1. /\ o \in Made /\ a[o].stage # "none"
      /\ (a[o].stage = "live" => a[o].parent = f.node)
  BY DEF OfNode
<1>. QED  BY <1>1 DEF Moves

(* What a thread knows stays true while others move.                       *)
LEMMA CallKept ==
  ASSUME NEW a, NEW b, Moves(a, b), NEW t, NEW pc, NEW s \in Seq(Frames),
         NEW m \in SUBSET Made, NEW w, NEW c, CallOK(a, t, pc, s, m, w, c),
         \A o \in m : a[o].stage = "live", t \in c => NoNewGlobal(a, b)
  PROVE  CallOK(b, t, pc, s, m, w, c)
<1>1. pc \in Walking => s # <<>> /\ Stack(b, s, m)
  BY OfNodeKept DEF CallOK, Stack
<1>2. t \in c /\ pc = "judge" => b[s[1].node].id # Global
  <2>. SUFFICES ASSUME t \in c, pc = "judge" PROVE b[s[1].node].id # Global
    OBVIOUS
  <2>1. Len(s) = 2 /\ Stack(a, s, m) /\ a[s[1].node].id # Global
    BY DEF CallOK, Walking
  <2>2. 1 \in 1..(Len(s) - 1)
    BY <2>1
  <2>3. s[1].node \in m
    BY <2>1, <2>2 DEF Stack
  <2>. QED  BY <2>1, <2>3 DEF Moves
<1>3. t \in c /\ pc \in {"find", "judge"} =>
        /\ w = Global
        /\ \A o \in Made : LiveGlobal(b, o) => o \in m \/ o \in s[Len(s)].todo
  BY DEF CallOK, NoNewGlobal
<1>. QED  BY <1>1, <1>2, <1>3 DEF CallOK

(* A step of t, seen by the others.                                        *)
OthersStay(t) ==
  \A u \in TreeThreads \ {t} :
    /\ tpc'[u] = tpc[u] /\ frames'[u] = frames[u] /\ tmp'[u] = tmp[u]
    /\ want'[u] = want[u] /\ (u \in critical' <=> u \in critical)

LEMMA OthersKept ==
  ASSUME TreeInv, NEW t \in TreeThreads, OthersStay(t), Moves(obj, obj'),
         NoNewGlobal(obj, obj') \/ t \in critical, NEW u \in TreeThreads, u # t
  PROVE  InCall(u)'
<1>1. InCall(u)
  BY DEF TreeInv
<1>2. u \in critical => NoNewGlobal(obj, obj')
  BY DEF TreeInv, OneCritical
<1>3. frames[u] \in Seq(Frames) /\ tmp[u] \in SUBSET Made /\ \A o \in tmp[u] : obj[o].stage = "live"
  BY DEF TreeInv, Types, TreeSound, Live
<1>4. CallOK(obj', u, tpc[u], frames[u], tmp[u], want[u], critical)
  BY <1>1, <1>2, <1>3, CallKept DEF InCall
<1>5. CallOK(obj', u, tpc'[u], frames'[u], tmp'[u], want'[u], critical)
  BY <1>4 DEF OthersStay
<1>6. u \in critical' <=> u \in critical
  BY DEF OthersStay
<1>. QED  BY <1>5, <1>6 DEF InCall, CallOK

(* What is left to show of the trackers that are global, when none is new. *)
LEMMA GlobalsKept ==
  ASSUME TreeInv, NEW t \in TreeThreads, OthersStay(t), NoNewGlobal(obj, obj'),
         tpc[t] # "add",
         \A o \in children[Root] : LiveGlobal(obj', o) => o \in children'[Root]
  PROVE  GlobalsListed' /\ OneGlobal'
<1>1. OneGlobal'
  BY DEF TreeInv, OneGlobal, NoNewGlobal
<1>2. ASSUME NEW o \in Made, LiveGlobal(obj', o)
      PROVE  o \in children'[Root] \/ \E u \in critical' : tpc'[u] = "add" /\ o \in tmp'[u]
  <2>1. LiveGlobal(obj, o)
    BY <1>2 DEF NoNewGlobal
  <2>2. CASE o \in children[Root]
    BY <1>2, <2>2
  <2>3. CASE \E u \in critical : tpc[u] = "add" /\ o \in tmp[u]
    <3>1. PICK u \in critical : tpc[u] = "add" /\ o \in tmp[u]
      BY <2>3
    <3>2. u \in TreeThreads \ {t}
      BY <3>1 DEF TreeInv, Types
    <3>. QED  BY <3>1, <3>2 DEF OthersStay
  <2>. QED  BY <2>1, <2>2, <2>3 DEF TreeInv, GlobalsListed
<1>. QED  BY <1>1, <1>2 DEF GlobalsListed

(* A step of t that only goes on with its call.                            *)
Goes(t, pc, s, m, r, w, c) ==
  /\ pc \in PCs /\ s \in Seq(Frames) /\ m \in SUBSET Made /\ r \in SUBSET Made
  /\ w \in {Global, Local} /\ c \in SUBSET TreeThreads
  /\ tpc' = [tpc EXCEPT ![t] = pc] /\ frames' = [frames EXCEPT ![t] = s]
  /\ tmp' = [tmp EXCEPT ![t] = m] /\ refs' = [refs EXCEPT ![t] = r]
  /\ want' = [want EXCEPT ![t] = w] /\ critical' = c
  /\ treeLock' \in [Nodes -> SUBSET TreeThreads]
  /\ tpc[t] # "add" /\ \A o \in r \cup m : obj[o].stage = "live"
  /\ c = critical \/ c = critical \ {t} \/ (critical = {} /\ c = {t})
  /\ CallOK(obj, t, pc, s, m, w, c)

LEMMA CallOnly ==
  ASSUME TreeInv, NEW t \in TreeThreads, NEW pc, NEW s, NEW m, NEW r, NEW w, NEW c,
         Goes(t, pc, s, m, r, w, c), UNCHANGED <<obj, dying, children>>
  PROVE  TreeInv'
<1>0. /\ pc \in PCs /\ s \in Seq(Frames) /\ m \in SUBSET Made /\ r \in SUBSET Made
      /\ w \in {Global, Local} /\ c \in SUBSET TreeThreads
      /\ tpc' = [tpc EXCEPT ![t] = pc] /\ frames' = [frames EXCEPT ![t] = s]
      /\ tmp' = [tmp EXCEPT ![t] = m] /\ refs' = [refs EXCEPT ![t] = r]
      /\ want' = [want EXCEPT ![t] = w] /\ critical' = c
      /\ treeLock' \in [Nodes -> SUBSET TreeThreads]
      /\ tpc[t] # "add" /\ \A o \in r \cup m : obj[o].stage = "live"
      /\ c = critical \/ c = critical \ {t} \/ (critical = {} /\ c = {t})
      /\ CallOK(obj, t, pc, s, m, w, c)
  BY DEF Goes
<1>1. Types'
  BY <1>0 DEF TreeInv, Types
<1>2. /\ tpc'[t] = pc /\ frames'[t] = s /\ tmp'[t] = m /\ refs'[t] = r /\ want'[t] = w
      /\ \A u \in TreeThreads \ {t} :
           /\ tpc'[u] = tpc[u] /\ frames'[u] = frames[u] /\ tmp'[u] = tmp[u]
           /\ refs'[u] = refs[u] /\ want'[u] = want[u]
  BY <1>0 DEF TreeInv, Types
<1>3. OthersStay(t)
  BY <1>0, <1>2 DEF OthersStay
<1>4. Moves(obj, obj') /\ NoNewGlobal(obj, obj')
  BY DEF Moves, NoNewGlobal
<1>5. \A u \in TreeThreads : InCall(u)'
  <2>1. InCall(t)'
    BY <1>0, <1>2 DEF InCall
  <2>2. ASSUME NEW u \in TreeThreads, u # t PROVE InCall(u)'
    BY <1>3, <1>4, <2>2, OthersKept
  <2>. QED  BY <2>1, <2>2
<1>6. GlobalsListed' /\ OneGlobal'
  BY <1>0, <1>3, <1>4, GlobalsKept
<1>7. OneCritical'
  BY <1>0 DEF TreeInv, OneCritical
<1>8. TreeSound'
  <2>1. \A u \in TreeThreads : \A o \in refs'[u] \cup tmp'[u] : Live(o)'
    <3>1. ASSUME NEW u \in TreeThreads, NEW o \in refs'[u] \cup tmp'[u]
          PROVE  obj[o].stage = "live"
      <4>1. CASE u = t
        BY <1>0, <1>2, <4>1
      <4>2. CASE u # t
        BY <1>0, <1>2, <4>2 DEF TreeInv, TreeSound, Live
      <4>. QED  BY <4>1, <4>2
    <3>. QED  BY <3>1 DEF Live
  <2>2. \A o \in Made : obj'[o].stage \in {"live", "dying"} =>
          obj'[o].parent = Root \/ obj'[obj'[o].parent].stage = "live"
    BY DEF TreeInv, TreeSound, Live
  <2>3. \A n \in Nodes : \A o \in children'[n] :
          obj'[o].stage \in {"live", "dying"} /\ obj'[o].parent = n
    BY DEF TreeInv, TreeSound
  <2>. QED  BY <2>1, <2>2, <2>3 DEF TreeSound, Live
<1>9. Orders' /\ Destructors'
  BY DEF TreeInv, Orders, Exists, Destructors
<1>. QED  BY <1>1, <1>5, <1>6, <1>7, <1>8, <1>9 DEF TreeInv

-----------------------------------------------------------------------------
(* What a step of t starts from.                                           *)
LEMMA Starts ==
  ASSUME TreeInv, NEW t \in TreeThreads
  PROVE  /\ tpc[t] \in PCs /\ frames[t] \in Seq(Frames) /\ tmp[t] \in SUBSET Made
         /\ refs[t] \in SUBSET Made /\ want[t] \in {Global, Local}
         /\ critical \in SUBSET TreeThreads /\ treeLock \in [Nodes -> SUBSET TreeThreads]
         /\ tpc = [tpc EXCEPT ![t] = tpc[t]] /\ frames = [frames EXCEPT ![t] = frames[t]]
         /\ tmp = [tmp EXCEPT ![t] = tmp[t]] /\ refs = [refs EXCEPT ![t] = refs[t]]
         /\ want = [want EXCEPT ![t] = want[t]]
         /\ \A o \in refs[t] \cup tmp[t] : obj[o].stage = "live"
         /\ CallOK(obj, t, tpc[t], frames[t], tmp[t], want[t], critical)
         /\ \A n \in Nodes : children[n] \in SUBSET Made
BY DEF TreeInv, Types, TreeSound, Live, InCall

(* The frame of a walk that starts at a node.                              *)
LEMMA ListedFrame ==
  ASSUME TreeInv, NEW n \in Nodes
  PROVE  /\ Frame(n, children[n]) \in Frames /\ Frame(n, children[n]).node = n
         /\ Frame(n, children[n]).todo = children[n]
         /\ OfNode(obj, Frame(n, children[n]))
<1>1. children[n] \in SUBSET Made /\ children[n] \in SUBSET Nodes
  BY NodesAre DEF TreeInv, Types
<1>2. /\ Frame(n, children[n]) \in Frames /\ Frame(n, children[n]).node = n
      /\ Frame(n, children[n]).todo = children[n]
  BY <1>1, FrameIs
<1>3. \A o \in children[n] : obj[o].stage \in {"live", "dying"} /\ obj[o].parent = n
  BY DEF TreeInv, TreeSound
<1>. QED  BY <1>1, <1>2, <1>3 DEF OfNode

LEMMA FindTrackerKeeps ==
  ASSUME TreeInv, NEW t \in TreeThreads, FindTracker(t)
  PROVE  TreeInv'
<1>1. PICK n \in refs[t] \cup {Root}, id \in {Global, Local} : Snapshot(t, "idle", n, id)
  BY DEF FindTracker
<1>2. n \in Nodes
  BY Starts, NodesAre
<1>3. PICK s : s = <<Frame(n, children[n])>>
  OBVIOUS
<1>4. /\ tpc[t] = "idle" /\ tpc' = [tpc EXCEPT ![t] = "find"]
      /\ frames' = [frames EXCEPT ![t] = s] /\ want' = [want EXCEPT ![t] = id]
      /\ UNCHANGED <<obj, children, treeLock, refs, dying, tmp, critical>>
  BY <1>1, <1>3 DEF Snapshot, Op, Visit, Quiet
<1>5. s \in Seq(Frames) /\ Len(s) = 1 /\ s # <<>> /\ Stack(obj, s, tmp[t])
  BY <1>2, <1>3, ListedFrame, StackOne
<1>6. t \notin critical
  BY <1>4, Starts DEF CallOK
<1>7. CallOK(obj, t, "find", s, tmp[t], id, critical)
  BY <1>5, <1>6 DEF CallOK, Walking
<1>8. "find" \in PCs
  BY DEF PCs
<1>g. Goes(t, "find", s, tmp[t], refs[t], id, critical)
  BY <1>4, <1>5, <1>7, <1>8, Starts DEF Goes
<1>. QED  BY <1>g, <1>4, CallOnly

LEMMA FindOrCreateKeeps ==
  ASSUME TreeInv, NEW t \in TreeThreads, FindOrCreateGlobalTracker(t)
  PROVE  TreeInv'
<1>4. /\ tpc[t] = "idle" /\ tpc' = [tpc EXCEPT ![t] = "snapshot"]
      /\ critical = {} /\ critical' = {t}
      /\ UNCHANGED <<obj, children, treeLock, refs, dying, tmp, frames, want>>
  BY DEF FindOrCreateGlobalTracker, Op, Quiet, CanFindOrCreate
<1>7. CallOK(obj, t, "snapshot", frames[t], tmp[t], want[t], {t})
  BY DEF CallOK, Walking
<1>8. "snapshot" \in PCs /\ {t} \in SUBSET TreeThreads
  BY DEF PCs
<1>g. Goes(t, "snapshot", frames[t], tmp[t], refs[t], want[t], {t})
  BY <1>4, <1>7, <1>8, Starts DEF Goes
<1>. QED  BY <1>g, <1>4, CallOnly

LEMMA FindGlobalKeeps ==
  ASSUME TreeInv, NEW t \in TreeThreads, FindGlobal(t)
  PROVE  TreeInv'
<1>2. Root \in Nodes
  BY NodesAre
<1>3. PICK s : s = <<Frame(Root, children[Root])>>
  OBVIOUS
<1>4. /\ tpc[t] = "snapshot" /\ tpc' = [tpc EXCEPT ![t] = "find"]
      /\ frames' = [frames EXCEPT ![t] = s] /\ want' = [want EXCEPT ![t] = Global]
      /\ UNCHANGED <<obj, children, treeLock, refs, dying, tmp, critical>>
  BY <1>3 DEF FindGlobal, Snapshot, Op, Visit, Quiet
<1>5. /\ s \in Seq(Frames) /\ Len(s) = 1 /\ s # <<>> /\ Stack(obj, s, tmp[t])
      /\ s[1] = Frame(Root, children[Root])
  BY <1>2, <1>3, ListedFrame, StackOne
<1>6. t \in critical
  BY <1>4, Starts DEF CallOK
<1>7. \A o \in Made : LiveGlobal(obj, o) => o \in children[Root]
  BY <1>4, <1>6 DEF TreeInv, GlobalsListed, OneCritical
<1>8. s[Len(s)].todo = children[Root]
  BY <1>2, <1>5, ListedFrame
<1>9. CallOK(obj, t, "find", s, tmp[t], Global, critical)
  BY <1>5, <1>7, <1>8 DEF CallOK, Walking
<1>10. "find" \in PCs /\ Global \in {Global, Local}
  BY DEF PCs
<1>g. Goes(t, "find", s, tmp[t], refs[t], Global, critical)
  BY <1>4, <1>5, <1>9, <1>10, Starts DEF Goes
<1>. QED  BY <1>g, <1>4, CallOnly

(* ListTrackers() keeps what it finds, and only that.                      *)
LEMMA ListTrackersKeeps ==
  ASSUME TreeInv, NEW t \in TreeThreads, ListTrackers(t)
  PROVE  TreeInv'
<1>2. Frame(Root, {Root}) \in Frames
  BY NodesAre, FrameIs
<1>3. PICK s : s = <<Frame(Root, {Root})>>
  OBVIOUS
<1>4. /\ tpc[t] = "idle" /\ tpc' = [tpc EXCEPT ![t] = "list"]
      /\ frames' = [frames EXCEPT ![t] = s]
      /\ UNCHANGED <<obj, children, treeLock, refs, dying, tmp, want, critical>>
  BY <1>3 DEF ListTrackers, Op, Visit, Quiet
<1>5. s \in Seq(Frames) /\ s # <<>>
  BY <1>2, <1>3
<1>6. t \notin critical
  BY <1>4, Starts DEF CallOK
<1>7. CallOK(obj, t, "list", s, tmp[t], want[t], critical)
  BY <1>5, <1>6 DEF CallOK, Walking
<1>8. "list" \in PCs
  BY DEF PCs
<1>g. Goes(t, "list", s, tmp[t], refs[t], want[t], critical)
  BY <1>4, <1>5, <1>7, <1>8, Starts DEF Goes
<1>. QED  BY <1>g, <1>4, CallOnly

LEMMA ListOneKeeps ==
  ASSUME TreeInv, NEW t \in TreeThreads, ListOne(t)
  PROVE  TreeInv'
<1>1. PICK n, found, todo :
        /\ n \in Top(t).todo
        /\ found = {o \in children[n] : Live(o)} /\ todo = (Top(t).todo \ {n}) \cup found
        /\ Op(t, "list", IF todo = {} THEN "drop" ELSE "list")
        /\ Visit(t, IF todo = {} THEN <<>> ELSE Left(t, todo))
        /\ tmp' = [tmp EXCEPT ![t] = @ \cup found]
  BY DEF ListOne
<1>2. /\ tpc[t] = "list" /\ UNCHANGED <<obj, children, treeLock, refs, dying, want, critical>>
  BY DEF ListOne, Quiet
<1>3. frames[t] # <<>> /\ frames[t] \in Seq(Frames)
  BY <1>2, Starts DEF CallOK
<1>4. Top(t) = frames[t][1] /\ Top(t) \in Frames
  BY <1>3, SwapIs DEF Top
<1>5. n \in Nodes /\ Top(t).todo \in SUBSET Nodes /\ Top(t).node \in Nodes
  BY <1>1, <1>4 DEF Frames
<1>6. found \in SUBSET Made /\ todo \in SUBSET Nodes /\ \A o \in found : obj[o].stage = "live"
  BY <1>1, <1>5, Starts, NodesAre DEF Live
<1>7. Frame(Top(t).node, todo) \in Frames
  BY <1>5, <1>6, FrameIs
<1>8. Left(t, todo) \in Seq(Frames) /\ Left(t, todo) # <<>>
  BY <1>3, <1>7, SwapIs DEF Left
<1>9. PICK s : s = IF todo = {} THEN <<>> ELSE Left(t, todo)
  OBVIOUS
<1>10. PICK pc : pc = IF todo = {} THEN "drop" ELSE "list"
  OBVIOUS
<1>11. /\ tpc' = [tpc EXCEPT ![t] = pc] /\ frames' = [frames EXCEPT ![t] = s]
       /\ tmp' = [tmp EXCEPT ![t] = tmp[t] \cup found]
  BY <1>1, <1>9, <1>10 DEF Op, Visit
<1>12. s \in Seq(Frames) /\ pc \in {"drop", "list"} /\ (pc = "list" => s # <<>>)
  BY <1>8, <1>9, <1>10
<1>13. t \notin critical
  BY <1>2, Starts DEF CallOK
<1>14. CallOK(obj, t, pc, s, tmp[t] \cup found, want[t], critical)
  BY <1>12, <1>13 DEF CallOK, Walking
<1>15. pc \in PCs /\ tmp[t] \cup found \in SUBSET Made
       /\ \A o \in refs[t] \cup (tmp[t] \cup found) : obj[o].stage = "live"
  BY <1>6, <1>12, Starts DEF PCs
<1>g. Goes(t, pc, s, tmp[t] \cup found, refs[t], want[t], critical)
  BY <1>2, <1>11, <1>12, <1>14, <1>15, Starts DEF Goes
<1>. QED  BY <1>g, <1>2, CallOnly


-----------------------------------------------------------------------------
(* The innermost frame of a walk.                                          *)
LEMMA Innermost ==
  ASSUME TreeInv, NEW t \in TreeThreads, frames[t] # <<>>
  PROVE  /\ frames[t] \in Seq(Frames) /\ Top(t) = frames[t][1] /\ Top(t) \in Frames
         /\ Top(t).node \in Nodes /\ Top(t).todo \in SUBSET Nodes
         /\ Len(frames[t]) \in Nat \ {0} /\ 1 \in 1..Len(frames[t])
<1>1. frames[t] \in Seq(Frames)
  BY Starts
<1>2. /\ Head(frames[t]) = frames[t][1] /\ frames[t][1] \in Frames
      /\ Len(frames[t]) \in Nat \ {0}
  BY <1>1
<1>3. 1 \in 1..Len(frames[t])
  BY <1>2
<1>. QED  BY <1>1, <1>2, <1>3 DEF Top, Frames

(* One of them is taken out of what is left to do.                         *)
LeftOK(t, d, r) ==
  /\ r \in Seq(Frames) /\ r # <<>> /\ Len(r) = Len(frames[t])
  /\ r[1].node = Top(t).node /\ r[1].todo = d /\ r[1] \in Frames
  /\ \A i \in 2..Len(frames[t]) : r[i] = frames[t][i]
  /\ Stack(obj, r, tmp[t])

LEMMA LeftIs ==
  ASSUME TreeInv, NEW t \in TreeThreads, frames[t] # <<>>, NEW d, d \subseteq Top(t).todo,
         Stack(obj, frames[t], tmp[t])
  PROVE  LeftOK(t, d, Left(t, d))
<1>1. /\ frames[t] \in Seq(Frames) /\ Top(t) = frames[t][1] /\ Top(t) \in Frames
      /\ Top(t).node \in Nodes /\ Top(t).todo \in SUBSET Nodes /\ 1 \in 1..Len(frames[t])
  BY Innermost
<1>2. d \in SUBSET Nodes
  BY <1>1
<1>0. PICK r : r = Left(t, d)
  OBVIOUS
<1>3. PICK f : f = Frame(Top(t).node, d)
  OBVIOUS
<1>4. f \in Frames /\ f.node = Top(t).node /\ f.todo = d
  BY <1>1, <1>2, <1>3, FrameIs
<1>5. r = <<f>> \o Tail(frames[t])
  BY <1>0, <1>3 DEF Left
<1>6. OfNode(obj, Top(t))
  BY <1>1 DEF Stack
<1>7. OfNode(obj, f)
  BY <1>4, <1>6 DEF OfNode
<1>8. /\ r \in Seq(Frames) /\ r # <<>> /\ Len(r) = Len(frames[t]) /\ r[1] = f
      /\ \A i \in 2..Len(frames[t]) : r[i] = frames[t][i]
  BY <1>1, <1>4, <1>5, SwapIs
<1>9. f.node = frames[t][1].node
  BY <1>1, <1>4
<1>10. Stack(obj, r, tmp[t])
  BY <1>1, <1>4, <1>5, <1>7, <1>9, StackSwap
<1>. QED  BY <1>0, <1>4, <1>8, <1>10 DEF LeftOK

(* One of them that could be locked is the next node of the walk.          *)
NextOK(t, o, r) ==
  /\ o \in Made /\ r \in Seq(Frames) /\ r # <<>> /\ Len(r) = Len(frames[t]) + 1
  /\ r[1].node = o /\ r[2].node = Top(t).node /\ r[2].todo = Top(t).todo \ {o}
  /\ \A i \in 3..Len(r) : r[i] = frames[t][i - 1]
  /\ Stack(obj, r, tmp[t] \cup {o})

LEMMA NextNode ==
  ASSUME TreeInv, NEW t \in TreeThreads, frames[t] # <<>>, NEW o, o \in Top(t).todo,
         Stack(obj, frames[t], tmp[t]), Live(o)
  PROVE  NextOK(t, o, <<Frame(o, {})>> \o Left(t, Top(t).todo \ {o}))
<1>0. PICK r : r = <<Frame(o, {})>> \o Left(t, Top(t).todo \ {o})
  OBVIOUS
<1>1. PICK d \in SUBSET Top(t).todo : d = Top(t).todo \ {o}
  OBVIOUS
<1>2. PICK m : m = tmp[t] \cup {o}
  OBVIOUS
<1>3. PICK s : s = Left(t, d)
  OBVIOUS
<1>4. tmp[t] \subseteq m
  BY <1>2
<1>4a. d \subseteq Top(t).todo
  OBVIOUS
<1>5. /\ s \in Seq(Frames) /\ s # <<>> /\ Len(s) = Len(frames[t])
      /\ s[1].node = Top(t).node /\ s[1].todo = d /\ s[1] \in Frames
      /\ \A i \in 2..Len(frames[t]) : s[i] = frames[t][i]
      /\ Stack(obj, s, m)
  <2>1. LeftOK(t, d, s)
    BY <1>3, <1>4a, LeftIs
  <2>2. /\ s \in Seq(Frames) /\ s # <<>> /\ Len(s) = Len(frames[t])
        /\ s[1].node = Top(t).node /\ s[1].todo = d /\ s[1] \in Frames
        /\ \A i \in 2..Len(frames[t]) : s[i] = frames[t][i]
        /\ Stack(obj, s, tmp[t])
    BY <2>1 DEF LeftOK
  <2>3. Stack(obj, s, m)
    BY <1>4, <2>2, StackMore
  <2>. QED  BY <2>2, <2>3
<1>6. Top(t) = frames[t][1] /\ 1 \in 1..Len(frames[t]) /\ Len(frames[t]) \in Nat \ {0}
      /\ Top(t).node \in Nodes
  BY Innermost
<1>7. OfNode(obj, Top(t))
  BY <1>6 DEF Stack
<1>8. o \in Made /\ obj[o].parent = Top(t).node
  BY <1>7 DEF OfNode, Live
<1>9. Top(t).node < o
  BY <1>8 DEF TreeInv, Orders, Exists, Live
<1>10. PICK f : f = Frame(o, {})
  OBVIOUS
<1>11. f \in Frames /\ f.node = o /\ f.todo = {}
  BY <1>8, <1>10, FrameIs, NodesAre
<1>12. OfNode(obj, f)
  BY <1>11 DEF OfNode
<1>13. r = <<f>> \o s
  BY <1>0, <1>1, <1>3, <1>10
<1>14. s[1].node < f.node /\ f.node \in m
  BY <1>2, <1>5, <1>9, <1>11
<1>15. Stack(obj, r, m)
  BY <1>5, <1>11, <1>12, <1>13, <1>14, StackPush
<1>16. /\ r \in Seq(Frames) /\ r # <<>> /\ Len(r) = Len(s) + 1 /\ r[1] = f
       /\ \A i \in 2..Len(r) : r[i] = s[i - 1]
  <2>1. s \in Seq(Frames) /\ f \in Frames
    BY <1>5, <1>11
  <2>2. \A q : q = <<f>> \o s =>
          /\ q \in Seq(Frames) /\ q # <<>> /\ Len(q) = Len(s) + 1 /\ q[1] = f
          /\ \A i \in 2..Len(q) : q[i] = s[i - 1]
    BY <2>1, PushIs
  <2>. QED  BY <1>13, <2>2
<1>17. 2 \in 2..Len(r) /\ 2 - 1 = 1
  BY <1>5, <1>6, <1>16
<1>18. r[2] = s[1]
  BY <1>16, <1>17
<1>19. ASSUME NEW i \in 3..Len(r) PROVE r[i] = frames[t][i - 1]
  <2>1. i \in 2..Len(r) /\ i - 1 \in 2..Len(frames[t])
    BY <1>5, <1>6, <1>16
  <2>. QED  BY <1>5, <1>16, <2>1
<1>. QED
  BY <1>0, <1>1, <1>2, <1>5, <1>8, <1>11, <1>15, <1>16, <1>18, <1>19 DEF NextOK

LEMMA LookAtKeeps ==
  ASSUME TreeInv, NEW t \in TreeThreads, LookAt(t)
  PROVE  TreeInv'
<1>1. PICK o, rest :
        /\ o \in Top(t).todo /\ rest = Left(t, Top(t).todo \ {o})
        /\ tmp' = [tmp EXCEPT ![t] = IF Live(o) THEN @ \cup {o} ELSE @]
        /\ IF Live(o) /\ obj[o].id # want[t]
           THEN Op(t, "find", "judge") /\ Visit(t, <<Frame(o, {})>> \o rest)
           ELSE Op(t, "find", "find") /\ Visit(t, rest)
  BY DEF LookAt
<1>2. /\ tpc[t] = "find" /\ UNCHANGED <<obj, children, treeLock, refs, dying, want, critical>>
  BY DEF LookAt, Quiet
<1>3. /\ frames[t] # <<>> /\ Stack(obj, frames[t], tmp[t]) /\ Len(frames[t]) = 1
      /\ t \in critical => /\ want[t] = Global
                           /\ \A n \in Made : LiveGlobal(obj, n) =>
                                n \in tmp[t] \/ n \in frames[t][Len(frames[t])].todo
  BY <1>2, Starts DEF CallOK, Walking
<1>4. PICK d \in SUBSET Top(t).todo : d = Top(t).todo \ {o}
  OBVIOUS
<1>5. PICK m : m = IF Live(o) THEN tmp[t] \cup {o} ELSE tmp[t]
  OBVIOUS
<1>6. Top(t) = frames[t][1] /\ OfNode(obj, Top(t))
  BY <1>3, Innermost DEF Stack
<1>7. o \in Made
  BY <1>1, <1>6 DEF OfNode
<1>8. /\ tmp[t] \subseteq m /\ m \in SUBSET Made /\ tmp' = [tmp EXCEPT ![t] = m]
      /\ \A n \in refs[t] \cup m : obj[n].stage = "live"
  BY <1>1, <1>5, <1>7, Starts DEF Live
<1>9. t \in critical => \A n \in Made : LiveGlobal(obj, n) => n \in m \/ n \in d
  BY <1>3, <1>4, <1>5, <1>6 DEF LiveGlobal, Live
<1>10. CASE Live(o) /\ obj[o].id # want[t]
  <2>1. PICK r : r = <<Frame(o, {})>> \o Left(t, Top(t).todo \ {o})
    OBVIOUS
  <2>2. /\ r \in Seq(Frames) /\ r # <<>> /\ Len(r) = Len(frames[t]) + 1
        /\ r[1].node = o /\ r[2].todo = Top(t).todo \ {o}
        /\ Stack(obj, r, tmp[t] \cup {o})
    <3>1. frames[t] # <<>> /\ Stack(obj, frames[t], tmp[t]) /\ o \in Top(t).todo /\ Live(o)
      BY <1>1, <1>3, <1>10
    <3>2. NextOK(t, o, r)
      BY <2>1, <3>1, NextNode
    <3>. QED  BY <3>2 DEF NextOK
  <2>3. Len(r) = 2 /\ r[2].todo = d /\ Stack(obj, r, m)
    BY <1>3, <1>4, <1>5, <1>10, <2>2
  <2>4. r[Len(r)].todo = d
    BY <2>3
  <2>5. tpc' = [tpc EXCEPT ![t] = "judge"] /\ frames' = [frames EXCEPT ![t] = r]
    BY <1>1, <1>10, <2>1 DEF Op, Visit
  <2>6. CallOK(obj, t, "judge", r, m, want[t], critical)
    BY <1>3, <1>9, <1>10, <2>2, <2>3, <2>4 DEF CallOK, Walking
  <2>g. Goes(t, "judge", r, m, refs[t], want[t], critical)
    BY <1>2, <1>8, <2>2, <2>5, <2>6, Starts DEF Goes, PCs
  <2>. QED  BY <1>2, <2>g, CallOnly
<1>11. CASE ~(Live(o) /\ obj[o].id # want[t])
  <2>1. PICK r : r = Left(t, d)
    OBVIOUS
  <2>2. /\ r \in Seq(Frames) /\ r # <<>> /\ Len(r) = Len(frames[t])
        /\ r[1].todo = d /\ Stack(obj, r, m)
    <3>1. frames[t] # <<>> /\ Stack(obj, frames[t], tmp[t]) /\ d \subseteq Top(t).todo
          /\ tmp[t] \subseteq m
      BY <1>3, <1>8
    <3>2. LeftOK(t, d, r)
      BY <2>1, <3>1, LeftIs
    <3>. QED  BY <3>1, <3>2, StackMore DEF LeftOK
  <2>4. Len(r) = 1 /\ r[Len(r)].todo = d
    BY <1>3, <2>2
  <2>5. tpc' = [tpc EXCEPT ![t] = "find"] /\ frames' = [frames EXCEPT ![t] = r]
    BY <1>1, <1>4, <1>11, <2>1 DEF Op, Visit
  <2>6. CallOK(obj, t, "find", r, m, want[t], critical)
    BY <1>3, <1>9, <2>2, <2>4 DEF CallOK, Walking
  <2>g. Goes(t, "find", r, m, refs[t], want[t], critical)
    BY <1>2, <1>8, <2>2, <2>5, <2>6, Starts DEF Goes, PCs
  <2>. QED  BY <1>2, <2>g, CallOnly
<1>. QED  BY <1>10, <1>11

LEMMA FoundKeeps ==
  ASSUME TreeInv, NEW t \in TreeThreads, Found(t)
  PROVE  TreeInv'
<1>1. PICK o \in tmp[t] : /\ refs' = [refs EXCEPT ![t] = @ \cup {o}]
                          /\ tmp' = [tmp EXCEPT ![t] = @ \ {o}]
  BY DEF Found
<1>2. /\ tpc[t] = "find" /\ tpc' = [tpc EXCEPT ![t] = "drop"]
      /\ frames' = [frames EXCEPT ![t] = <<>>] /\ want' = [want EXCEPT ![t] = Local]
      /\ critical' = critical \ {t} /\ UNCHANGED <<obj, children, treeLock, dying>>
  BY DEF Found, Op, Visit
<1>3. CallOK(obj, t, "drop", <<>>, tmp[t] \ {o}, Local, critical \ {t})
  BY DEF CallOK, Walking
<1>g. Goes(t, "drop", <<>>, tmp[t] \ {o}, refs[t] \cup {o}, Local, critical \ {t})
  BY <1>1, <1>2, <1>3, Starts DEF Goes, PCs
<1>. QED  BY <1>2, <1>g, CallOnly

LEMMA NothingFoundKeeps ==
  ASSUME TreeInv, NEW t \in TreeThreads, NotFound(t), t \notin critical
  PROVE  TreeInv'
<1>2. /\ tpc[t] = "find" /\ tpc' = [tpc EXCEPT ![t] = "idle"]
      /\ frames' = [frames EXCEPT ![t] = <<>>] /\ want' = [want EXCEPT ![t] = Local]
      /\ UNCHANGED <<obj, children, treeLock, refs, tmp, dying, critical>>
  BY DEF NotFound, Op, Visit, Quiet
<1>3. CallOK(obj, t, "idle", <<>>, tmp[t], Local, critical)
  BY DEF CallOK, Walking
<1>g. Goes(t, "idle", <<>>, tmp[t], refs[t], Local, critical)
  BY <1>2, <1>3, Starts DEF Goes, PCs
<1>. QED  BY <1>2, <1>g, CallOnly

LEMMA LogUsageKeeps ==
  ASSUME TreeInv, NEW t \in TreeThreads, LogUsage(t)
  PROVE  TreeInv'
<1>1. PICK n \in Nodes :
        /\ \/ tpc[t] = "idle"
           \/ tpc[t] = "enter" /\ n = Top(t).node
        /\ tpc' = [tpc EXCEPT ![t] = "log"]
        /\ treeLock' = [treeLock EXCEPT ![n] = {t}]
        /\ Visit(t, <<Frame(n, children[n])>> \o
                    (IF tpc[t] = "idle" THEN <<>> ELSE Tail(frames[t])))
        /\ UNCHANGED <<obj, children, refs, tmp, dying, want, critical>>
  BY DEF LogUsage, Op
<1>2. PICK f : f = Frame(n, children[n])
  OBVIOUS
<1>3. f \in Frames /\ f.node = n /\ OfNode(obj, f)
  BY <1>2, ListedFrame
<1>4. PICK s : s = <<f>> \o (IF tpc[t] = "idle" THEN <<>> ELSE Tail(frames[t]))
  OBVIOUS
<1>5. frames' = [frames EXCEPT ![t] = s]
  BY <1>1, <1>2, <1>4 DEF Visit
<1>6. s \in Seq(Frames) /\ s # <<>> /\ Stack(obj, s, tmp[t])
  <2>1. CASE tpc[t] = "idle"
    <3>1. s = <<f>>
      BY <1>4, <2>1
    <3>. QED  BY <1>3, <3>1, StackOne
  <2>2. CASE tpc[t] = "enter" /\ n = Top(t).node
    <3>1. s = <<f>> \o Tail(frames[t])
      BY <1>4, <2>2
    <3>2. frames[t] # <<>> /\ Stack(obj, frames[t], tmp[t])
      BY <2>2, Starts DEF CallOK, Walking
    <3>3. frames[t] \in Seq(Frames) /\ f.node = frames[t][1].node
      BY <1>3, <2>2, <3>2, Innermost
    <3>4. s \in Seq(Frames) /\ s # <<>>
      BY <1>3, <3>1, <3>2, <3>3, SwapIs
    <3>. QED  BY <1>3, <3>1, <3>2, <3>3, <3>4, StackSwap
  <2>. QED  BY <1>1, <2>1, <2>2
<1>7. t \notin critical
  BY <1>1, Starts DEF CallOK
<1>8. CallOK(obj, t, "log", s, tmp[t], want[t], critical)
  BY <1>6, <1>7 DEF CallOK, Walking
<1>9. treeLock' \in [Nodes -> SUBSET TreeThreads]
  BY <1>1, Starts
<1>10. tpc[t] # "add"
  BY <1>1
<1>g. Goes(t, "log", s, tmp[t], refs[t], want[t], critical)
  BY <1>1, <1>5, <1>6, <1>8, <1>9, <1>10, Starts DEF Goes, PCs
<1>. QED  BY <1>1, <1>g, CallOnly

LEMMA LogChildKeeps ==
  ASSUME TreeInv, NEW t \in TreeThreads, LogChild(t)
  PROVE  TreeInv'
<1>1. PICK o, rest :
       /\ o \in Top(t).todo /\ rest = Left(t, Top(t).todo \ {o})
       /\ IF Live(o)
          THEN /\ Op(t, "log", "enter") /\ Visit(t, <<Frame(o, {})>> \o rest)
               /\ tmp' = [tmp EXCEPT ![t] = @ \cup {o}]
          ELSE Op(t, "log", "log") /\ Visit(t, rest) /\ UNCHANGED tmp
  BY DEF LogChild
<1>2. /\ tpc[t] = "log" /\ UNCHANGED <<obj, children, treeLock, refs, dying, want, critical>>
  BY DEF LogChild, Quiet
<1>3. /\ frames[t] # <<>> /\ Stack(obj, frames[t], tmp[t]) /\ t \notin critical
  BY <1>2, Starts DEF CallOK, Walking
<1>4. Len(frames[t]) \in Nat \ {0}
  BY <1>3, Innermost
<1>5. CASE Live(o)
  <2>1. PICK r : r = <<Frame(o, {})>> \o Left(t, Top(t).todo \ {o})
    OBVIOUS
  <2>2. /\ r \in Seq(Frames) /\ r # <<>> /\ Len(r) = Len(frames[t]) + 1 /\ o \in Made
        /\ Stack(obj, r, tmp[t] \cup {o})
    <3>1. frames[t] # <<>> /\ Stack(obj, frames[t], tmp[t]) /\ o \in Top(t).todo
      BY <1>1, <1>3
    <3>2. NextOK(t, o, r)
      BY <1>5, <2>1, <3>1, NextNode
    <3>. QED  BY <3>2 DEF NextOK
  <2>3. Len(r) >= 2
    BY <1>4, <2>2
  <2>5. tpc' = [tpc EXCEPT ![t] = "enter"] /\ frames' = [frames EXCEPT ![t] = r]
        /\ tmp' = [tmp EXCEPT ![t] = tmp[t] \cup {o}]
    BY <1>1, <1>5, <2>1 DEF Op, Visit
  <2>6. CallOK(obj, t, "enter", r, tmp[t] \cup {o}, want[t], critical)
    BY <1>3, <2>2, <2>3 DEF CallOK, Walking
  <2>7. tmp[t] \cup {o} \in SUBSET Made
        /\ \A n \in refs[t] \cup (tmp[t] \cup {o}) : obj[n].stage = "live"
    BY <1>5, <2>2, Starts DEF Live
  <2>g. Goes(t, "enter", r, tmp[t] \cup {o}, refs[t], want[t], critical)
    BY <1>2, <2>2, <2>5, <2>6, <2>7, Starts DEF Goes, PCs
  <2>. QED  BY <1>2, <2>g, CallOnly
<1>6. CASE ~Live(o)
  <2>0. PICK d \in SUBSET Top(t).todo : d = Top(t).todo \ {o}
    OBVIOUS
  <2>1. PICK r : r = Left(t, d)
    OBVIOUS
  <2>2. /\ r \in Seq(Frames) /\ r # <<>> /\ Stack(obj, r, tmp[t])
    <3>1. d \subseteq Top(t).todo
      OBVIOUS
    <3>2. LeftOK(t, d, r)
      BY <1>3, <2>1, <3>1, LeftIs
    <3>. QED  BY <3>2 DEF LeftOK
  <2>5. tpc' = [tpc EXCEPT ![t] = "log"] /\ frames' = [frames EXCEPT ![t] = r]
        /\ UNCHANGED tmp
    BY <1>1, <1>6, <2>0, <2>1 DEF Op, Visit
  <2>6. CallOK(obj, t, "log", r, tmp[t], want[t], critical)
    BY <1>3, <2>2 DEF CallOK, Walking
  <2>g. Goes(t, "log", r, tmp[t], refs[t], want[t], critical)
    BY <1>2, <2>2, <2>5, <2>6, Starts DEF Goes, PCs
  <2>. QED  BY <1>2, <2>g, CallOnly
<1>. QED  BY <1>5, <1>6

(* The last node of LogUsage() is done; the last tracker of the list gone. *)
LEMMA LogEndKeeps ==
  ASSUME TreeInv, NEW t \in TreeThreads, LogLeave(t), Len(frames[t]) = 1
  PROVE  TreeInv'
<1>1. /\ tpc[t] = "log" /\ tpc' = [tpc EXCEPT ![t] = "idle"]
      /\ frames' = [frames EXCEPT ![t] = Tail(frames[t])]
      /\ treeLock' = [treeLock EXCEPT ![Top(t).node] = {}]
      /\ UNCHANGED <<obj, refs, tmp, dying, children, want, critical>>
  BY DEF LogLeave, Op, Visit
<1>2. frames[t] # <<>> /\ t \notin critical
  BY <1>1, Starts DEF CallOK, Walking
<1>3. PICK s : s = Tail(frames[t])
  OBVIOUS
<1>4. s \in Seq(Frames)
  BY <1>2, <1>3, Starts, PopIs
<1>5. CallOK(obj, t, "idle", s, tmp[t], want[t], critical)
  BY <1>2 DEF CallOK, Walking
<1>6. treeLock' \in [Nodes -> SUBSET TreeThreads]
  BY <1>1, Starts
<1>g. Goes(t, "idle", s, tmp[t], refs[t], want[t], critical)
  BY <1>1, <1>3, <1>4, <1>5, <1>6, Starts DEF Goes, PCs
<1>. QED  BY <1>1, <1>g, CallOnly

LEMMA DropEndKeeps ==
  ASSUME TreeInv, NEW t \in TreeThreads, DropOne(t), tmp[t] = {}
  PROVE  TreeInv'
<1>1. /\ tpc[t] = "drop" /\ tpc' = [tpc EXCEPT ![t] = "idle"]
      /\ UNCHANGED <<obj, children, treeLock, refs, dying, tmp, frames, want, critical>>
  BY DEF DropOne, Op, Quiet
<1>2. t \notin critical
  BY <1>1, Starts DEF CallOK
<1>3. CallOK(obj, t, "idle", frames[t], tmp[t], want[t], critical)
  BY <1>2 DEF CallOK, Walking
<1>g. Goes(t, "idle", frames[t], tmp[t], refs[t], want[t], critical)
  BY <1>1, <1>3, Starts DEF Goes, PCs
<1>. QED  BY <1>1, <1>g, CallOnly


-----------------------------------------------------------------------------
(* The end of a reference, perhaps of the last one.                        *)
Dies(o) ==
  /\ obj' \in Objects /\ \A n \in Made \ {o} : obj'[n] = obj[n]
  /\ obj'[o].stage = "dying" /\ obj'[o].parent = obj[o].parent /\ obj'[o].id = obj[o].id

LEMMA DiesIs ==
  ASSUME obj \in Objects, NEW o \in Made, obj' = [obj EXCEPT ![o].stage = "dying"]
  PROVE  Dies(o)
<1>1. PICK r : r = [obj[o] EXCEPT !.stage = "dying"]
  OBVIOUS
<1>2. obj[o] \in [stage : {"none", "live", "dying", "gone"}, parent : Nodes,
                  id : {Global, Local}]
  BY DEF Objects
<1>3. /\ r \in [stage : {"none", "live", "dying", "gone"}, parent : Nodes, id : {Global, Local}]
      /\ r.stage = "dying" /\ r.parent = obj[o].parent /\ r.id = obj[o].id
  BY <1>1, <1>2
<1>4. obj' = [obj EXCEPT ![o] = r]
  BY <1>1
<1>. QED  BY <1>3, <1>4 DEF Dies, Objects

LEMMA EndsKeeps ==
  ASSUME TreeInv, NEW t \in TreeThreads, NEW pc, NEW s, NEW m, NEW r,
         Goes(t, pc, s, m, r, want[t], critical), NEW o \in Made, Live(o),
         m \subseteq tmp[t], UNCHANGED children, dying[t] = {},
         Unref(t, o, refs', tmp')
  PROVE  TreeInv'
<1>0. /\ pc \in PCs /\ s \in Seq(Frames) /\ m \in SUBSET Made /\ r \in SUBSET Made
      /\ want[t] \in {Global, Local} /\ critical \in SUBSET TreeThreads
      /\ tpc' = [tpc EXCEPT ![t] = pc] /\ frames' = [frames EXCEPT ![t] = s]
      /\ tmp' = [tmp EXCEPT ![t] = m] /\ refs' = [refs EXCEPT ![t] = r]
      /\ want' = [want EXCEPT ![t] = want[t]] /\ critical' = critical
      /\ treeLock' \in [Nodes -> SUBSET TreeThreads]
      /\ tpc[t] # "add" /\ \A n \in r \cup m : obj[n].stage = "live"
      /\ CallOK(obj, t, pc, s, m, want[t], critical)
  BY DEF Goes
<1>1. CASE UNCHANGED <<obj, dying>>
  BY <1>1, CallOnly
<1>2. CASE /\ ~\E u \in TreeThreads : o \in refs'[u] \cup tmp'[u]
           /\ ~\E c \in Made : obj[c].stage \in {"live", "dying"} /\ obj[c].parent = o
           /\ obj' = [obj EXCEPT ![o].stage = "dying"]
           /\ dying' = [dying EXCEPT ![t] = {o}]
  <2>1. Dies(o)
    BY <1>2, DiesIs DEF TreeInv, Types
  <2>2. /\ tpc'[t] = pc /\ frames'[t] = s /\ tmp'[t] = m /\ refs'[t] = r
        /\ want'[t] = want[t] /\ dying'[t] = {o}
        /\ \A u \in TreeThreads \ {t} :
             /\ tpc'[u] = tpc[u] /\ frames'[u] = frames[u] /\ tmp'[u] = tmp[u]
             /\ refs'[u] = refs[u] /\ want'[u] = want[u] /\ dying'[u] = dying[u]
    BY <1>0, <1>2 DEF TreeInv, Types
  <2>3. Types'
    BY <1>0, <1>2, <2>1 DEF TreeInv, Types, Dies
  <2>4. OthersStay(t)
    BY <1>0, <2>2 DEF OthersStay
  <2>5. obj[o].stage = "live"
    BY DEF Live
  <2>6. Moves(obj, obj') /\ NoNewGlobal(obj, obj')
    BY <2>1, <2>5 DEF Moves, NoNewGlobal, LiveGlobal, Dies
  <2>7. \A u \in TreeThreads : InCall(u)'
    <3>1. CallOK(obj', t, pc, s, m, want[t], critical)
      BY <1>0, <2>6, CallKept
    <3>2. InCall(t)'
      BY <1>0, <2>2, <3>1 DEF InCall
    <3>3. ASSUME NEW u \in TreeThreads, u # t PROVE InCall(u)'
      BY <2>4, <2>6, <3>3, OthersKept
    <3>. QED  BY <3>2, <3>3
  <2>8. GlobalsListed' /\ OneGlobal'
    BY <1>0, <2>4, <2>6, GlobalsKept
  <2>9. OneCritical'
    BY <1>0 DEF TreeInv, OneCritical
  <2>10. TreeSound'
    <3>1. ASSUME NEW u \in TreeThreads, NEW n \in refs'[u] \cup tmp'[u]
          PROVE  obj'[n].stage = "live"
      <4>1. n # o /\ n \in Made
        BY <1>2, <2>3 DEF Types
      <4>2. CASE u = t
        BY <1>0, <2>1, <2>2, <4>1, <4>2 DEF Dies
      <4>3. CASE u # t
        BY <2>1, <2>2, <4>1, <4>3 DEF TreeInv, TreeSound, Live, Dies
      <4>. QED  BY <4>2, <4>3
    <3>2. ASSUME NEW c \in Made, obj'[c].stage \in {"live", "dying"}
          PROVE  obj'[c].parent = Root \/ obj'[obj'[c].parent].stage = "live"
      <4>1. obj[c].stage \in {"live", "dying"} /\ obj'[c].parent = obj[c].parent
        BY <2>1, <2>5, <3>2 DEF Dies
      <4>2. obj[c].parent # o
        BY <1>2, <4>1
      <4>3. obj[c].parent = Root \/ obj[obj[c].parent].stage = "live"
        BY <4>1 DEF TreeInv, TreeSound, Live
      <4>4. obj[c].parent \in Nodes
        BY DEF TreeInv, Types, Objects
      <4>. QED  BY <2>1, <4>1, <4>2, <4>3, <4>4, NodesAre DEF Dies
    <3>3. ASSUME NEW n \in Nodes, NEW c \in children'[n]
          PROVE  obj'[c].stage \in {"live", "dying"} /\ obj'[c].parent = n
      <4>1. c \in Made /\ obj[c].stage \in {"live", "dying"} /\ obj[c].parent = n
        BY DEF TreeInv, TreeSound, Types
      <4>. QED  BY <2>1, <4>1 DEF Dies
    <3>. QED  BY <3>1, <3>2, <3>3 DEF TreeSound, Live
  <2>11. Orders'
    BY <2>1, <2>5 DEF TreeInv, Orders, Exists, Dies
  <2>12. Destructors'
    <3>1. \A u \in TreeThreads : o \notin dying[u]
      BY <2>5 DEF TreeInv, Destructors
    <3>2. ASSUME NEW u \in TreeThreads, NEW n \in dying'[u] PROVE obj'[n].stage = "dying"
      <4>1. CASE u = t
        BY <2>1, <2>2, <3>2, <4>1 DEF Dies
      <4>2. CASE u # t
        <5>1. n \in dying[u] /\ n # o /\ n \in Made
          BY <2>2, <2>3, <3>1, <3>2, <4>2 DEF Types
        <5>. QED  BY <2>1, <5>1 DEF TreeInv, Destructors, Dies
      <4>. QED  BY <4>1, <4>2
    <3>3. \A u, v \in TreeThreads : u # v => dying'[u] \cap dying'[v] = {}
      BY <2>2, <3>1 DEF TreeInv, Destructors
    <3>. QED  BY <3>2, <3>3 DEF Destructors
  <2>. QED  BY <2>3, <2>7, <2>8, <2>9, <2>10, <2>11, <2>12 DEF TreeInv
<1>. QED  BY <1>1, <1>2 DEF Unref

LEMMA ReleaseKeeps ==
  ASSUME TreeInv, NEW t \in TreeThreads, NEW o \in Made, ReleaseTracker(t, o)
  PROVE  TreeInv'
<1>1. /\ tpc[t] = "idle" /\ tpc' = [tpc EXCEPT ![t] = "idle"] /\ dying[t] = {} /\ o \in refs[t]
      /\ refs' = [refs EXCEPT ![t] = refs[t] \ {o}] /\ tmp' = tmp
      /\ Unref(t, o, refs', tmp')
      /\ UNCHANGED <<children, treeLock, frames, want, critical>>
  BY DEF ReleaseTracker, Op, Unref
<1>2. Live(o)
  BY <1>1, Starts DEF Live
<1>3. CallOK(obj, t, "idle", frames[t], tmp[t], want[t], critical)
  BY <1>1, Starts
<1>g. Goes(t, "idle", frames[t], tmp[t], refs[t] \ {o}, want[t], critical)
  BY <1>1, <1>3, Starts DEF Goes
<1>. QED  BY <1>1, <1>2, <1>g, EndsKeeps

LEMMA UnwantedKeeps ==
  ASSUME TreeInv, NEW t \in TreeThreads, Unwanted(t)
  PROVE  TreeInv'
<1>1. PICK o : o = Top(t).node
  OBVIOUS
<1>2. /\ tpc[t] = "judge" /\ tpc' = [tpc EXCEPT ![t] = "find"] /\ dying[t] = {}
      /\ frames' = [frames EXCEPT ![t] = Tail(frames[t])]
      /\ refs' = refs /\ tmp' = [tmp EXCEPT ![t] = tmp[t] \ {o}]
      /\ Unref(t, o, refs', tmp')
      /\ UNCHANGED <<children, treeLock, want, critical>>
  BY <1>1 DEF Unwanted, Op, Visit, Unref
<1>3. /\ frames[t] # <<>> /\ Stack(obj, frames[t], tmp[t]) /\ Len(frames[t]) = 2
      /\ t \in critical => obj[frames[t][1].node].id # Global
      /\ t \in critical =>
           /\ want[t] = Global
           /\ \A n \in Made : LiveGlobal(obj, n) =>
                n \in tmp[t] \/ n \in frames[t][Len(frames[t])].todo
  BY <1>2, Starts DEF CallOK, Walking
<1>4. o = frames[t][1].node
  BY <1>1, <1>3, Innermost
<1>5. 1 \in 1..(Len(frames[t]) - 1)
  BY <1>3
<1>6. o \in tmp[t]
  BY <1>3, <1>4, <1>5 DEF Stack
<1>7. Live(o) /\ o \in Made
  BY <1>6, Starts DEF Live
<1>8. PICK s : s = Tail(frames[t])
  OBVIOUS
<1>9. frames[t] \in Seq(Frames)
  BY Starts
<1>10. s \in Seq(Frames) /\ Len(s) = 1 /\ s # <<>> /\ s[1] = frames[t][2]
  <2>1. /\ s \in Seq(Frames) /\ Len(s) = Len(frames[t]) - 1
        /\ \A i \in 1..Len(s) : s[i] = frames[t][i + 1]
    BY <1>3, <1>8, <1>9, PopIs
  <2>2. Len(s) = 1 /\ 1 \in 1..Len(s) /\ 1 + 1 = 2
    BY <1>3, <2>1
  <2>3. s # <<>>
    BY <2>2
  <2>. QED  BY <2>1, <2>2, <2>3
<1>11. Stack(obj, s, tmp[t] \ {o})
  BY <1>3, <1>4, <1>8, <1>9, StackPop
<1>12. t \in critical => \A n \in Made : LiveGlobal(obj, n) => n \in tmp[t] \ {o} \/ n \in s[Len(s)].todo
  BY <1>3, <1>4, <1>10 DEF LiveGlobal
<1>13. CallOK(obj, t, "find", s, tmp[t] \ {o}, want[t], critical)
  BY <1>3, <1>10, <1>11, <1>12 DEF CallOK, Walking
<1>g. Goes(t, "find", s, tmp[t] \ {o}, refs[t], want[t], critical)
  BY <1>2, <1>8, <1>10, <1>13, Starts DEF Goes, PCs
<1>14. /\ dying[t] = {} /\ UNCHANGED children /\ tmp[t] \ {o} \subseteq tmp[t]
       /\ Unref(t, o, refs', tmp')
  BY <1>2
<1>. QED  BY <1>7, <1>14, <1>g, EndsKeeps

LEMMA LogLeaveKeeps ==
  ASSUME TreeInv, NEW t \in TreeThreads, LogLeave(t)
  PROVE  TreeInv'
<1>0. CASE Len(frames[t]) = 1
  BY <1>0, LogEndKeeps
<1>c. CASE Len(frames[t]) # 1
  <2>1. PICK o : o = Top(t).node
    OBVIOUS
  <2>2. /\ tpc[t] = "log" /\ tpc' = [tpc EXCEPT ![t] = "log"] /\ dying[t] = {}
        /\ frames' = [frames EXCEPT ![t] = Tail(frames[t])]
        /\ treeLock' = [treeLock EXCEPT ![o] = {}]
        /\ refs' = refs /\ tmp' = [tmp EXCEPT ![t] = tmp[t] \ {o}]
        /\ Unref(t, o, refs', tmp')
        /\ UNCHANGED <<children, want, critical>>
    BY <1>c, <2>1 DEF LogLeave, Op, Visit, Unref
  <2>3. frames[t] # <<>> /\ Stack(obj, frames[t], tmp[t]) /\ t \notin critical
    BY <2>2, Starts DEF CallOK, Walking
  <2>4. o = frames[t][1].node /\ Len(frames[t]) \in Nat \ {0}
    BY <2>1, <2>3, Innermost
  <2>4a. PICK l \in Nat \ {0} : l = Len(frames[t])
    BY <2>4
  <2>4c. l # 1
    BY <1>c, <2>4a
  <2>4b. l - 1 # 0 /\ 1 \in 1..(l - 1)
    BY <2>4c
  <2>5. 1 \in 1..(Len(frames[t]) - 1)
    BY <2>4a, <2>4b
  <2>6. o \in tmp[t]
    BY <2>3, <2>4, <2>5 DEF Stack
  <2>7. Live(o) /\ o \in Made
    BY <2>6, Starts DEF Live
  <2>8. PICK s : s = Tail(frames[t])
    OBVIOUS
  <2>9. frames[t] \in Seq(Frames)
    BY Starts
  <2>10. s \in Seq(Frames) /\ Len(s) = Len(frames[t]) - 1
    BY <2>3, <2>8, <2>9, PopIs
  <2>11. s # <<>>
    <3>1. Len(s) # 0
      BY <2>4a, <2>4b, <2>10
    <3>. QED  BY <3>1
  <2>12. Stack(obj, s, tmp[t] \ {o})
    BY <2>3, <2>4, <2>8, <2>9, StackPop
  <2>13. CallOK(obj, t, "log", s, tmp[t] \ {o}, want[t], critical)
    BY <2>3, <2>11, <2>12 DEF CallOK, Walking
  <2>14. treeLock' \in [Nodes -> SUBSET TreeThreads]
    BY <2>2, Starts
  <2>g. Goes(t, "log", s, tmp[t] \ {o}, refs[t], want[t], critical)
    BY <2>2, <2>8, <2>10, <2>13, <2>14, Starts DEF Goes, PCs
  <2>15. /\ dying[t] = {} /\ UNCHANGED children /\ tmp[t] \ {o} \subseteq tmp[t]
         /\ Unref(t, o, refs', tmp')
    BY <2>2
  <2>. QED  BY <2>7, <2>15, <2>g, EndsKeeps
<1>. QED  BY <1>0, <1>c

LEMMA DropOneKeeps ==
  ASSUME TreeInv, NEW t \in TreeThreads, DropOne(t)
  PROVE  TreeInv'
<1>0. CASE tmp[t] = {}
  BY <1>0, DropEndKeeps
<1>c. CASE tmp[t] # {}
  <2>1. PICK o \in tmp[t] : Unref(t, o, refs, [tmp EXCEPT ![t] = @ \ {o}])
    BY <1>c DEF DropOne
  <2>2. /\ tpc[t] = "drop" /\ tpc' = [tpc EXCEPT ![t] = "drop"] /\ dying[t] = {}
        /\ refs' = refs /\ tmp' = [tmp EXCEPT ![t] = tmp[t] \ {o}]
        /\ Unref(t, o, refs', tmp')
        /\ UNCHANGED <<children, treeLock, frames, want, critical>>
    BY <1>c, <2>1 DEF DropOne, Op, Unref
  <2>3. Live(o) /\ o \in Made
    BY Starts DEF Live
  <2>4. t \notin critical
    BY <2>2, Starts DEF CallOK
  <2>5. CallOK(obj, t, "drop", frames[t], tmp[t] \ {o}, want[t], critical)
    BY <2>4 DEF CallOK, Walking
  <2>g. Goes(t, "drop", frames[t], tmp[t] \ {o}, refs[t], want[t], critical)
    BY <2>2, <2>5, Starts DEF Goes, PCs
  <2>. QED  BY <2>2, <2>3, <2>g, EndsKeeps
<1>. QED  BY <1>0, <1>c


-----------------------------------------------------------------------------
(* ~MemTracker(): o is gone, and D is empty or holds the parent p, which   *)
(* then dies of it.                                                        *)
Destroyed(t, o, p, D) ==
  /\ D \subseteq {p} \ {Root} /\ dying' = [dying EXCEPT ![t] = D]
  /\ obj' \in Objects /\ obj'[o].stage = "gone"
  /\ \A n \in Made \ {o} : n \notin D => obj'[n] = obj[n]
  /\ \A n \in D :
       /\ obj'[n].stage = "dying" /\ obj'[n].parent = obj[n].parent /\ obj'[n].id = obj[n].id
       /\ \A u \in TreeThreads : n \notin refs[u] \cup tmp[u]
       /\ \A c \in Made \ {o} : Exists(obj, c) => obj[c].parent # n

LEMMA DestroyedIs ==
  ASSUME TreeInv, NEW t \in TreeThreads, NEW o \in Made, NEW p, p = obj[o].parent,
         p = Root \/ p \in Made \ {o}, Destroy(t, o)
  PROVE  \E D : Destroyed(t, o, p, D)
<1>. DEFINE Rec == [stage : {"none", "live", "dying", "gone"}, parent : Nodes,
                    id : {Global, Local}]
<1>1. obj \in [Made -> Rec]
  BY DEF TreeInv, Types, Objects
<1>2. Gone \in Rec /\ Gone.stage = "gone"
  BY NodesAre DEF Gone
<1>3. PICK g : g = [obj EXCEPT ![o] = Gone]
  OBVIOUS
<1>4. g \in [Made -> Rec] /\ g[o] = Gone /\ \A n \in Made \ {o} : g[n] = obj[n]
  BY <1>1, <1>2, <1>3
<1>5. CASE /\ p # Root /\ (\A u \in TreeThreads : p \notin refs[u] \cup tmp[u])
           /\ (\A c \in Made \ {o} :
                 obj[c].stage \in {"live", "dying"} => obj[c].parent # p)
           /\ obj' = [obj EXCEPT ![o] = Gone, ![p].stage = "dying"]
           /\ dying' = [dying EXCEPT ![t] = {p}]
  <2>1. p \in Made /\ p # o
    BY <1>5
  <2>2. PICK r : r = [obj[p] EXCEPT !.stage = "dying"]
    OBVIOUS
  <2>3. obj[p] \in Rec
    BY <1>1, <2>1
  <2>4. r \in Rec /\ r.stage = "dying" /\ r.parent = obj[p].parent /\ r.id = obj[p].id
    BY <2>2, <2>3
  <2>5. obj' = [g EXCEPT ![p] = r]
    <3>1. g[p] = obj[p]
      BY <1>4, <2>1
    <3>2. obj' = [g EXCEPT ![p].stage = "dying"]
      BY <1>3, <1>5
    <3>. QED  BY <2>2, <3>1, <3>2
  <2>6. /\ obj' \in [Made -> Rec] /\ obj'[o] = Gone /\ obj'[p] = r
        /\ \A n \in Made \ {o} : n # p => obj'[n] = obj[n]
    BY <1>4, <2>1, <2>4, <2>5
  <2>7. obj' \in Objects /\ obj'[o].stage = "gone"
    BY <1>2, <2>6 DEF Objects
  <2>8. \A n \in {p} :
          /\ obj'[n].stage = "dying" /\ obj'[n].parent = obj[n].parent
          /\ obj'[n].id = obj[n].id
    BY <2>4, <2>6
  <2>9. \A n \in {p} :
          /\ \A u \in TreeThreads : n \notin refs[u] \cup tmp[u]
          /\ \A c \in Made \ {o} : Exists(obj, c) => obj[c].parent # n
    BY <1>5 DEF Exists
  <2>10. {p} \subseteq {p} \ {Root} /\ \A n \in Made \ {o} : n \notin {p} => obj'[n] = obj[n]
    BY <1>5, <2>6
  <2>11. Destroyed(t, o, p, {p})
    BY <1>5, <2>7, <2>8, <2>9, <2>10 DEF Destroyed
  <2>. QED  BY <2>11
<1>6. CASE obj' = [obj EXCEPT ![o] = Gone] /\ dying' = [dying EXCEPT ![t] = {}]
  <2>1. obj' = g
    BY <1>3, <1>6
  <2>2. Destroyed(t, o, p, {})
    BY <1>2, <1>4, <1>6, <2>1 DEF Destroyed, Objects
  <2>. QED  BY <2>2
<1>. QED  BY <1>5, <1>6 DEF Destroy

LEMMA DestroyKeeps ==
  ASSUME TreeInv, NEW t \in TreeThreads, NEW o \in Made, Destroy(t, o)
  PROVE  TreeInv'
<1>0. PICK p : p = obj[o].parent
  OBVIOUS
<1>1. /\ o \in dying[t] /\ children' = [children EXCEPT ![p] = @ \ {o}]
      /\ UNCHANGED <<treeLock, refs, tmp, tpc, frames, want, critical>>
  BY <1>0 DEF Destroy
<1>2. obj[o].stage = "dying"
  BY <1>1 DEF TreeInv, Destructors
<1>3. p \in Nodes /\ p < o
  BY <1>0, <1>2 DEF TreeInv, Types, Objects, Orders, Exists
<1>4. p = Root \/ obj[p].stage = "live"
  BY <1>0, <1>2 DEF TreeInv, TreeSound, Live
<1>5. p = Root \/ p \in Made \ {o}
  BY <1>2, <1>3, <1>4, NodesAre
<1>6. PICK D : Destroyed(t, o, p, D)
  BY <1>0, <1>5, DestroyedIs
<1>7. /\ D \subseteq {p} \ {Root} /\ dying' = [dying EXCEPT ![t] = D]
      /\ obj' \in Objects /\ obj'[o].stage = "gone"
      /\ \A n \in Made \ {o} : n \notin D => obj'[n] = obj[n]
      /\ \A n \in D :
          /\ obj'[n].stage = "dying" /\ obj'[n].parent = obj[n].parent /\ obj'[n].id = obj[n].id
          /\ \A u \in TreeThreads : n \notin refs[u] \cup tmp[u]
          /\ \A c \in Made \ {o} : Exists(obj, c) => obj[c].parent # n
  BY <1>6 DEF Destroyed
<1>8. /\ D \in SUBSET Made /\ \A n \in D : obj[n].stage = "live" /\ n # o
  BY <1>4, <1>5, <1>7
<1>9. Types'
  BY <1>1, <1>7, <1>8 DEF TreeInv, Types
<1>10. Moves(obj, obj')
  <2>. SUFFICES ASSUME NEW n \in Made
                PROVE  \/ obj'[n] = obj[n]
                       \/ /\ obj[n].stage = "live" /\ obj'[n].stage = "dying"
                          /\ obj'[n].parent = obj[n].parent /\ obj'[n].id = obj[n].id
                       \/ obj[n].stage = "dying" /\ obj'[n].stage = "gone"
    BY DEF Moves
  <2>. QED  BY <1>2, <1>7, <1>8
<1>11. NoNewGlobal(obj, obj')
  BY <1>2, <1>7, <1>8 DEF NoNewGlobal, LiveGlobal
<1>12. ASSUME NEW u \in TreeThreads PROVE InCall(u)'
  <2>1. CallOK(obj, u, tpc[u], frames[u], tmp[u], want[u], critical)
        /\ frames[u] \in Seq(Frames) /\ tmp[u] \in SUBSET Made
        /\ \A n \in tmp[u] : obj[n].stage = "live"
    BY Starts
  <2>2. CallOK(obj', u, tpc[u], frames[u], tmp[u], want[u], critical)
    BY <1>10, <1>11, <2>1, CallKept
  <2>. QED  BY <1>1, <2>2 DEF InCall
<1>13. /\ \A n \in Nodes \ {p} : children'[n] = children[n]
       /\ children'[p] = children[p] \ {o}
  BY <1>1, <1>3 DEF TreeInv, Types
<1>14. ASSUME NEW n \in Nodes, NEW c \in children'[n] PROVE c \in children[n] /\ c # o
  <2>1. c \in children[n]
    BY <1>13
  <2>2. obj[c].parent = n
    BY <2>1 DEF TreeInv, TreeSound
  <2>. QED  BY <1>0, <1>13, <2>1, <2>2
<1>15. ASSUME NEW c \in Made, Exists(obj', c)
       PROVE  Exists(obj, c) /\ c # o /\ obj'[c].parent = obj[c].parent /\ obj'[c].id = obj[c].id
  BY <1>2, <1>7, <1>8, <1>15 DEF Exists
<1>16. TreeSound'
  <2>1. ASSUME NEW u \in TreeThreads, NEW n \in refs'[u] \cup tmp'[u]
        PROVE  obj'[n].stage = "live"
    <3>1. n \in refs[u] \cup tmp[u] /\ n \in Made
      BY <1>1 DEF TreeInv, Types
    <3>2. obj[n].stage = "live"
      BY <3>1 DEF TreeInv, TreeSound, Live
    <3>. QED  BY <1>2, <1>7, <3>1, <3>2
  <2>2. ASSUME NEW c \in Made, obj'[c].stage \in {"live", "dying"}
        PROVE  obj'[c].parent = Root \/ obj'[obj'[c].parent].stage = "live"
    <3>1. Exists(obj, c) /\ c # o /\ obj'[c].parent = obj[c].parent
      BY <1>15, <2>2 DEF Exists
    <3>2. PICK q : q = obj[c].parent
      OBVIOUS
    <3>3. q \in Nodes /\ (q = Root \/ obj[q].stage = "live")
      BY <3>1, <3>2 DEF TreeInv, TreeSound, Live, Types, Objects, Exists
    <3>4. q \notin D
      BY <1>7, <3>1, <3>2
    <3>5. q = Root \/ (q \in Made \ {o} /\ obj'[q] = obj[q])
      BY <1>2, <1>7, <3>3, <3>4, NodesAre
    <3>. QED  BY <3>1, <3>2, <3>3, <3>5
  <2>3. ASSUME NEW n \in Nodes, NEW c \in children'[n]
        PROVE  obj'[c].stage \in {"live", "dying"} /\ obj'[c].parent = n
    <3>1. c \in children[n] /\ c # o
      BY <1>14
    <3>2. c \in Made /\ obj[c].stage \in {"live", "dying"} /\ obj[c].parent = n
      BY <3>1 DEF TreeInv, TreeSound, Types
    <3>. QED  BY <1>7, <3>1, <3>2
  <2>. QED  BY <2>1, <2>2, <2>3 DEF TreeSound, Live
<1>17. Orders'
  BY <1>15 DEF TreeInv, Orders
<1>18. Destructors'
  <2>0. dying'[t] = D /\ \A u \in TreeThreads \ {t} : dying'[u] = dying[u]
    BY <1>7 DEF TreeInv, Types
  <2>1. ASSUME NEW u \in TreeThreads, u # t, NEW n \in dying[u]
        PROVE  n \in Made /\ n # o /\ n \notin D /\ obj[n].stage = "dying"
    <3>1. n \in Made /\ obj[n].stage = "dying"
      BY DEF TreeInv, Types, Destructors
    <3>2. n # o
      BY <1>1, <2>1 DEF TreeInv, Destructors
    <3>. QED  BY <1>8, <3>1, <3>2
  <2>2. ASSUME NEW u \in TreeThreads, NEW n \in dying'[u] PROVE obj'[n].stage = "dying"
    <3>1. CASE u = t
      BY <1>7, <2>0, <2>2, <3>1
    <3>2. CASE u # t
      <4>1. n \in Made /\ n # o /\ n \notin D /\ obj[n].stage = "dying"
        BY <2>0, <2>1, <2>2, <3>2
      <4>. QED  BY <1>7, <4>1
    <3>. QED  BY <3>1, <3>2
  <2>3. ASSUME NEW u \in TreeThreads, NEW v \in TreeThreads, u # v
        PROVE  dying'[u] \cap dying'[v] = {}
    <3>1. CASE u = t
      BY <2>0, <2>1, <2>3, <3>1
    <3>2. CASE v = t
      BY <2>0, <2>1, <2>3, <3>2
    <3>3. CASE u # t /\ v # t
      BY <2>0, <2>3, <3>3 DEF TreeInv, Destructors
    <3>. QED  BY <3>1, <3>2, <3>3
  <2>. QED  BY <2>2, <2>3 DEF Destructors
<1>19. OneCritical'
  BY <1>1 DEF TreeInv, OneCritical
<1>20. OneGlobal'
  BY <1>11 DEF TreeInv, OneGlobal, NoNewGlobal
<1>21. GlobalsListed'
  <2>. SUFFICES ASSUME NEW n \in Made, LiveGlobal(obj', n)
                PROVE  n \in children'[Root] \/ \E u \in critical : tpc[u] = "add" /\ n \in tmp[u]
    BY <1>1 DEF GlobalsListed
  <2>1. LiveGlobal(obj, n) /\ n # o
    BY <1>7, <1>11 DEF NoNewGlobal, LiveGlobal
  <2>2. n \in children[Root] => n \in children'[Root]
    BY <1>13, <2>1, NodesAre
  <2>. QED  BY <2>1, <2>2 DEF TreeInv, GlobalsListed
<1>. QED  BY <1>9, <1>12, <1>16, <1>17, <1>18, <1>19, <1>20, <1>21 DEF TreeInv


-----------------------------------------------------------------------------
(* A new tracker: younger than all there are, known to its maker only.     *)
Creates(t, o, p, id, s, w) ==
  /\ o \in Made /\ p \in refs[t] \cup {Root} /\ id \in {Global, Local}
  /\ Create(t, o, p, id) /\ s \in Seq(Frames) /\ w \in {Global, Local}
  /\ tpc' = [tpc EXCEPT ![t] = "add"] /\ frames' = [frames EXCEPT ![t] = s]
  /\ want' = [want EXCEPT ![t] = w] /\ tpc[t] # "add"
  /\ id = Global => /\ p = Root /\ t \in critical
                    /\ \A n \in Made : ~LiveGlobal(obj, n)

LEMMA CreateKeeps ==
  ASSUME TreeInv, NEW t \in TreeThreads, NEW o, NEW p, NEW id, NEW s, NEW w,
         Creates(t, o, p, id, s, w)
  PROVE  TreeInv'
<1>0. /\ o \in Made /\ p \in refs[t] \cup {Root} /\ id \in {Global, Local}
      /\ Create(t, o, p, id) /\ s \in Seq(Frames) /\ w \in {Global, Local}
      /\ tpc' = [tpc EXCEPT ![t] = "add"] /\ frames' = [frames EXCEPT ![t] = s]
      /\ want' = [want EXCEPT ![t] = w] /\ tpc[t] # "add"
      /\ id = Global => /\ p = Root /\ t \in critical
                        /\ \A n \in Made : ~LiveGlobal(obj, n)
  BY DEF Creates
<1>. DEFINE Rec == [stage : {"none", "live", "dying", "gone"}, parent : Nodes,
                    id : {Global, Local}]
<1>1. /\ \A n \in Made : obj[n].stage = "none" <=> n >= o
      /\ obj' = [obj EXCEPT ![o] = [stage |-> "live", parent |-> p, id |-> id]]
      /\ tmp' = [tmp EXCEPT ![t] = {o}]
      /\ UNCHANGED <<children, treeLock, refs, dying, critical>>
  BY <1>0 DEF Create
<1>2. PICK r : r = [stage |-> "live", parent |-> p, id |-> id]
  OBVIOUS
<1>3. o \in Nat \ {0} /\ p \in Nodes
  BY <1>0, Starts, NodesAre
<1>4. r \in Rec /\ r.stage = "live" /\ r.parent = p /\ r.id = id
  BY <1>0, <1>2, <1>3
<1>5. obj \in [Made -> Rec]
  BY DEF TreeInv, Types, Objects
<1>6. /\ obj' \in Objects /\ obj'[o] = r /\ \A n \in Made \ {o} : obj'[n] = obj[n]
  BY <1>0, <1>1, <1>2, <1>4, <1>5 DEF Objects
<1>7. obj[o].stage = "none"
  BY <1>0, <1>1, <1>3
<1>8. p < o /\ (p = Root \/ (p \in Made \ {o} /\ obj[p].stage = "live"))
  <2>1. CASE p = Root
    BY <1>0, <1>3, <2>1 DEF Root
  <2>2. CASE p # Root
    <3>1. p \in Made /\ obj[p].stage = "live"
      BY <1>0, <2>2, Starts
    <3>2. ~(p >= o)
      BY <1>1, <3>1
    <3>. QED  BY <1>0, <1>3, <1>7, <3>1, <3>2, NodesAre
  <2>. QED  BY <1>0, <2>1, <2>2
<1>9. /\ tpc'[t] = "add" /\ frames'[t] = s /\ tmp'[t] = {o} /\ want'[t] = w
      /\ \A u \in TreeThreads \ {t} :
           /\ tpc'[u] = tpc[u] /\ frames'[u] = frames[u] /\ tmp'[u] = tmp[u]
           /\ want'[u] = want[u]
  BY <1>0, <1>1 DEF TreeInv, Types
<1>10. Types'
  BY <1>0, <1>1, <1>6 DEF TreeInv, Types, PCs
<1>11. OthersStay(t)
  BY <1>1, <1>9 DEF OthersStay
<1>12. Moves(obj, obj')
  <2>. SUFFICES ASSUME NEW n \in Made
                PROVE  \/ obj'[n] = obj[n]
                       \/ obj[n].stage = "none" /\ obj'[n].stage = "live"
    BY DEF Moves
  <2>. QED  BY <1>0, <1>4, <1>6, <1>7
<1>13. NoNewGlobal(obj, obj') \/ t \in critical
  <2>1. CASE id = Global
    BY <1>0, <2>1
  <2>2. CASE id = Local
    BY <1>4, <1>6, <2>2 DEF NoNewGlobal, LiveGlobal, Global, Local
  <2>. QED  BY <1>0, <2>1, <2>2
<1>14. \A u \in TreeThreads : InCall(u)'
  <2>1. CallOK(obj', t, "add", s, {o}, w, critical)
    BY <1>0 DEF CallOK, Walking
  <2>2. InCall(t)'
    BY <1>1, <1>9, <2>1 DEF InCall
  <2>3. ASSUME NEW u \in TreeThreads, u # t PROVE InCall(u)'
    BY <1>11, <1>12, <1>13, <2>3, OthersKept
  <2>. QED  BY <2>2, <2>3
<1>15. ASSUME NEW c \in Made, Exists(obj, c)
       PROVE  c # o /\ obj'[c] = obj[c]
  BY <1>0, <1>6, <1>7, <1>15 DEF Exists
<1>16. TreeSound'
  <2>1. ASSUME NEW u \in TreeThreads, NEW n \in refs'[u] \cup tmp'[u]
        PROVE  obj'[n].stage = "live"
    <3>1. CASE n \in refs[u]
      <4>1. n \in Made /\ obj[n].stage = "live"
        BY <3>1, Starts
      <4>. QED  BY <1>15, <4>1 DEF Exists
    <3>2. CASE u = t /\ n \in tmp'[u]
      BY <1>4, <1>6, <1>9, <3>2
    <3>3. CASE u # t /\ n \in tmp'[u]
      <4>1. n \in Made /\ obj[n].stage = "live"
        BY <1>9, <3>3, Starts
      <4>. QED  BY <1>15, <4>1 DEF Exists
    <3>. QED  BY <1>1, <3>1, <3>2, <3>3
  <2>2. ASSUME NEW c \in Made, obj'[c].stage \in {"live", "dying"}
        PROVE  obj'[c].parent = Root \/ obj'[obj'[c].parent].stage = "live"
    <3>1. CASE c = o
      BY <1>4, <1>6, <1>8, <3>1
    <3>2. CASE c # o
      <4>1. obj'[c] = obj[c] /\ Exists(obj, c)
        BY <1>6, <2>2, <3>2 DEF Exists
      <4>2. PICK q : q = obj[c].parent
        OBVIOUS
      <4>3. q \in Nodes /\ (q = Root \/ obj[q].stage = "live")
        BY <4>1, <4>2 DEF TreeInv, TreeSound, Live, Types, Objects, Exists
      <4>4. q = Root \/ (q \in Made /\ obj'[q] = obj[q])
        BY <1>15, <4>3, NodesAre DEF Exists
      <4>. QED  BY <4>1, <4>2, <4>3, <4>4
    <3>. QED  BY <3>1, <3>2
  <2>3. ASSUME NEW n \in Nodes, NEW c \in children'[n]
        PROVE  obj'[c].stage \in {"live", "dying"} /\ obj'[c].parent = n
    <3>1. c \in Made /\ obj[c].stage \in {"live", "dying"} /\ obj[c].parent = n
      BY <1>1 DEF TreeInv, TreeSound, Types
    <3>. QED  BY <1>15, <3>1 DEF Exists
  <2>. QED  BY <2>1, <2>2, <2>3 DEF TreeSound, Live
<1>17. Orders'
  <2>. SUFFICES ASSUME NEW c \in Made, Exists(obj', c)
                PROVE  obj'[c].parent < c /\ (obj'[c].id = Global => obj'[c].parent = Root)
    BY DEF Orders
  <2>1. CASE c = o
    BY <1>0, <1>4, <1>6, <1>8, <2>1
  <2>2. CASE c # o
    <3>1. obj'[c] = obj[c] /\ Exists(obj, c)
      BY <1>6, <2>2 DEF Exists
    <3>. QED  BY <3>1 DEF TreeInv, Orders
  <2>. QED  BY <1>0, <2>1, <2>2
<1>18. Destructors'
  <2>1. ASSUME NEW u \in TreeThreads, NEW n \in dying[u] PROVE obj'[n].stage = "dying"
    <3>1. n \in Made /\ obj[n].stage = "dying"
      BY DEF TreeInv, Types, Destructors
    <3>. QED  BY <1>15, <3>1 DEF Exists
  <2>. QED  BY <1>1, <2>1 DEF TreeInv, Destructors
<1>19. OneCritical'
  BY <1>1 DEF TreeInv, OneCritical
<1>20. OneGlobal'
  <2>. SUFFICES ASSUME NEW a \in Made, NEW b \in Made,
                       LiveGlobal(obj', a), LiveGlobal(obj', b)
                PROVE  a = b
    BY DEF OneGlobal
  <2>1. CASE id = Global
    BY <1>0, <1>6, <2>1 DEF LiveGlobal
  <2>2. CASE id = Local
    <3>1. LiveGlobal(obj, a) /\ LiveGlobal(obj, b)
      BY <1>4, <1>6, <2>2 DEF LiveGlobal, Global, Local
    <3>. QED  BY <3>1 DEF TreeInv, OneGlobal
  <2>. QED  BY <1>0, <2>1, <2>2
<1>21. GlobalsListed'
  <2>. SUFFICES ASSUME NEW n \in Made, LiveGlobal(obj', n)
                PROVE  n \in children[Root] \/ \E u \in critical : tpc'[u] = "add" /\ n \in tmp'[u]
    BY <1>1 DEF GlobalsListed
  <2>1. CASE n = o
    <3>1. id = Global
      BY <1>4, <1>6, <2>1 DEF LiveGlobal
    <3>. QED  BY <1>0, <1>9, <2>1, <3>1
  <2>2. CASE n # o
    <3>1. LiveGlobal(obj, n)
      BY <1>0, <1>6, <2>2 DEF LiveGlobal
    <3>2. CASE \E u \in critical : tpc[u] = "add" /\ n \in tmp[u]
      <4>1. PICK u \in critical : tpc[u] = "add" /\ n \in tmp[u]
        BY <3>2
      <4>2. u \in TreeThreads \ {t}
        BY <1>0, <4>1 DEF TreeInv, Types
      <4>. QED  BY <1>9, <4>1, <4>2
    <3>. QED  BY <3>1, <3>2 DEF TreeInv, GlobalsListed
  <2>. QED  BY <1>0, <2>1, <2>2
<1>. QED
  BY <1>10, <1>14, <1>16, <1>17, <1>18, <1>19, <1>20, <1>21 DEF TreeInv

LEMMA CreateTrackerKeeps ==
  ASSUME TreeInv, NEW t \in TreeThreads, CreateTracker(t)
  PROVE  TreeInv'
<1>1. PICK o \in Made, p \in refs[t] \cup {Root} : Create(t, o, p, Local)
  BY DEF CreateTracker
<1>2. /\ tpc[t] # "add" /\ tpc' = [tpc EXCEPT ![t] = "add"] /\ UNCHANGED <<frames, want>>
  BY DEF CreateTracker, Op
<1>3. PICK id \in {Global, Local} : id = Local
  OBVIOUS
<1>4. id # Global
  BY <1>3 DEF Global, Local
<1>5. /\ frames[t] \in Seq(Frames) /\ want[t] \in {Global, Local}
      /\ frames' = [frames EXCEPT ![t] = frames[t]] /\ want' = [want EXCEPT ![t] = want[t]]
  BY <1>2, Starts
<1>6. Create(t, o, p, id)
  BY <1>1, <1>3
<1>7. Creates(t, o, p, id, frames[t], want[t])
  BY <1>2, <1>3, <1>4, <1>5, <1>6 DEF Creates
<1>. QED  BY <1>7, CreateKeeps

(* With find_or_create_lock held, nothing found means that there is none.  *)
LEMMA NotFoundKeeps ==
  ASSUME TreeInv, NEW t \in TreeThreads, NotFound(t)
  PROVE  TreeInv'
<1>0. CASE t \notin critical
  BY <1>0, NothingFoundKeeps
<1>c. CASE t \in critical
  <2>1. PICK o \in Made : Create(t, o, Root, Global)
    BY <1>c DEF NotFound
  <2>2. /\ tpc[t] = "find" /\ tpc' = [tpc EXCEPT ![t] = "add"] /\ tmp[t] = {}
        /\ Top(t).todo = {} /\ frames' = [frames EXCEPT ![t] = <<>>]
        /\ want' = [want EXCEPT ![t] = Local]
    BY <1>c DEF NotFound, Op, Visit
  <2>3. /\ frames[t] # <<>> /\ Len(frames[t]) = 1
        /\ \A n \in Made : LiveGlobal(obj, n) =>
             n \in tmp[t] \/ n \in frames[t][Len(frames[t])].todo
    BY <1>c, <2>2, Starts DEF CallOK, Walking
  <2>4. Top(t) = frames[t][1]
    BY <2>3, Innermost
  <2>5. \A n \in Made : ~LiveGlobal(obj, n)
    BY <2>2, <2>3, <2>4
  <2>6. <<>> \in Seq(Frames)
    OBVIOUS
  <2>7. Creates(t, o, Root, Global, <<>>, Local)
    BY <1>c, <2>1, <2>2, <2>5, <2>6 DEF Creates
  <2>. QED  BY <2>7, CreateKeeps
<1>. QED  BY <1>0, <1>c


(* The new tracker is listed, and its maker's caller has it.               *)
LEMMA AddChildKeeps ==
  ASSUME TreeInv, NEW t \in TreeThreads, AddChildTracker(t)
  PROVE  TreeInv'
<1>1. PICK o \in tmp[t] :
        /\ children' = [children EXCEPT ![obj[o].parent] = @ \cup {o}]
        /\ refs' = [refs EXCEPT ![t] = refs[t] \cup {o}]
  BY DEF AddChildTracker
<1>2. /\ tpc[t] = "add" /\ tpc' = [tpc EXCEPT ![t] = "idle"]
      /\ tmp' = [tmp EXCEPT ![t] = {}] /\ critical' = critical \ {t}
      /\ UNCHANGED <<obj, treeLock, dying, frames, want>>
  BY DEF AddChildTracker, Op
<1>3. tmp[t] = {o}
  BY <1>2, Starts DEF CallOK
<1>4. o \in Made /\ obj[o].stage = "live"
  BY Starts
<1>5. PICK p \in Nodes : p = obj[o].parent
  BY <1>4 DEF TreeInv, Types, Objects
<1>6. /\ children'[p] = children[p] \cup {o}
      /\ \A n \in Nodes \ {p} : children'[n] = children[n]
      /\ children' \in [Nodes -> SUBSET Made]
  BY <1>1, <1>4, <1>5 DEF TreeInv, Types
<1>7. Types'
  BY <1>1, <1>2, <1>4, <1>6 DEF TreeInv, Types, PCs
<1>8. /\ tpc'[t] = "idle" /\ tmp'[t] = {} /\ refs'[t] = refs[t] \cup {o}
      /\ \A u \in TreeThreads \ {t} :
           /\ tpc'[u] = tpc[u] /\ frames'[u] = frames[u] /\ tmp'[u] = tmp[u]
           /\ refs'[u] = refs[u] /\ want'[u] = want[u]
  BY <1>1, <1>2 DEF TreeInv, Types
<1>9. OthersStay(t)
  BY <1>2, <1>8 DEF OthersStay
<1>10. Moves(obj, obj') /\ NoNewGlobal(obj, obj')
  BY <1>2 DEF Moves, NoNewGlobal
<1>11. \A u \in TreeThreads : InCall(u)'
  <2>1. CallOK(obj', t, "idle", frames'[t], {}, want'[t], critical')
    BY <1>2 DEF CallOK, Walking
  <2>2. InCall(t)'
    BY <1>8, <2>1 DEF InCall
  <2>3. ASSUME NEW u \in TreeThreads, u # t PROVE InCall(u)'
    BY <1>9, <1>10, <2>3, OthersKept
  <2>. QED  BY <2>2, <2>3
<1>12. TreeSound'
  <2>1. ASSUME NEW u \in TreeThreads, NEW n \in refs'[u] \cup tmp'[u]
        PROVE  obj[n].stage = "live"
    <3>1. CASE u = t
      BY <1>4, <1>8, <3>1, Starts
    <3>2. CASE u # t
      BY <1>8, <3>2, Starts
    <3>. QED  BY <3>1, <3>2
  <2>2. \A c \in Made : obj[c].stage \in {"live", "dying"} =>
          obj[c].parent = Root \/ obj[obj[c].parent].stage = "live"
    BY DEF TreeInv, TreeSound, Live
  <2>3. ASSUME NEW n \in Nodes, NEW c \in children'[n]
        PROVE  obj[c].stage \in {"live", "dying"} /\ obj[c].parent = n
    <3>1. CASE c \in children[n]
      BY <3>1 DEF TreeInv, TreeSound
    <3>2. CASE n = p /\ c = o
      BY <1>4, <1>5, <3>2
    <3>. QED  BY <1>6, <3>1, <3>2
  <2>. QED  BY <1>2, <2>1, <2>2, <2>3 DEF TreeSound, Live
<1>13. Orders' /\ Destructors'
  BY <1>2 DEF TreeInv, Orders, Exists, Destructors
<1>14. OneCritical' /\ OneGlobal'
  BY <1>2 DEF TreeInv, OneCritical, OneGlobal
<1>15. GlobalsListed'
  <2>. SUFFICES ASSUME NEW n \in Made, LiveGlobal(obj, n)
                PROVE  n \in children'[Root] \/ \E u \in critical' : tpc'[u] = "add" /\ n \in tmp'[u]
    BY <1>2 DEF GlobalsListed
  <2>1. CASE n \in children[Root]
    BY <1>6, <2>1, NodesAre
  <2>2. CASE \E u \in critical : tpc[u] = "add" /\ n \in tmp[u]
    <3>1. PICK u \in critical : tpc[u] = "add" /\ n \in tmp[u]
      BY <2>2
    <3>2. CASE u = t
      <4>1. n = o /\ obj[o].parent = Root
        BY <1>3, <3>1, <3>2 DEF TreeInv, Orders, Exists, LiveGlobal
      <4>. QED  BY <1>5, <1>6, <4>1
    <3>3. CASE u # t
      <4>1. u \in TreeThreads \ {t} /\ u \in critical'
        BY <1>2, <3>3 DEF TreeInv, Types
      <4>. QED  BY <1>8, <3>1, <4>1
    <3>. QED  BY <3>2, <3>3
  <2>. QED  BY <2>1, <2>2 DEF TreeInv, GlobalsListed
<1>. QED  BY <1>7, <1>11, <1>12, <1>13, <1>14, <1>15 DEF TreeInv

-----------------------------------------------------------------------------
LEMMA TreeInitial == TreeInit => TreeInv
<1>. SUFFICES ASSUME TreeInit PROVE TreeInv
  OBVIOUS
<1>. USE DEF TreeInit
<1>1. Types
  <2>1. obj \in Objects
    BY NodesAre DEF Objects
  <2>2. <<>> \in Seq(Frames)
    OBVIOUS
  <2>. QED  BY <2>1, <2>2 DEF Types, PCs
<1>2. \A o \in Made : obj[o].stage = "none"
  OBVIOUS
<1>3. TreeSound
  BY <1>2 DEF TreeSound
<1>4. Orders /\ GlobalsListed /\ OneGlobal
  BY <1>2 DEF Orders, Exists, GlobalsListed, OneGlobal, LiveGlobal
<1>5. Destructors /\ OneCritical
  BY DEF Destructors, OneCritical
<1>6. ASSUME NEW t \in TreeThreads PROVE InCall(t)
  BY DEF InCall, CallOK, Walking
<1>. QED  BY <1>1, <1>3, <1>4, <1>5, <1>6 DEF TreeInv

LEMMA TreeStutters == TreeInv /\ UNCHANGED treeVars => TreeInv'
<1>. SUFFICES ASSUME TreeInv, UNCHANGED treeVars PROVE TreeInv'
  OBVIOUS
<1>. USE DEF TreeInv, treeVars
<1>1. Types' /\ TreeSound' /\ Orders' /\ Destructors'
  BY DEF Types, TreeSound, Live, Orders, Exists, Destructors
<1>2. OneCritical' /\ GlobalsListed' /\ OneGlobal'
  BY DEF OneCritical, GlobalsListed, OneGlobal, LiveGlobal
<1>3. \A t \in TreeThreads : InCall(t)'
  BY DEF InCall
<1>. QED  BY <1>1, <1>2, <1>3

LEMMA TreeInvariant == TreeInv /\ TreeNext => TreeInv'
<1>. SUFFICES ASSUME TreeInv, NEW t \in TreeThreads, TreeStep(t) PROVE TreeInv'
  BY DEF TreeNext
<1>1. ASSUME NEW o \in Made, ReleaseTracker(t, o) \/ Destroy(t, o) PROVE TreeInv'
  BY <1>1, ReleaseKeeps, DestroyKeeps
<1>2. CASE CreateTracker(t) \/ AddChildTracker(t)
  BY <1>2, CreateTrackerKeeps, AddChildKeeps
<1>3. CASE FindTracker(t) \/ FindOrCreateGlobalTracker(t) \/ FindGlobal(t) \/ LookAt(t)
  BY <1>3, FindTrackerKeeps, FindOrCreateKeeps, FindGlobalKeeps, LookAtKeeps
<1>4. CASE Unwanted(t) \/ Found(t) \/ NotFound(t)
  BY <1>4, UnwantedKeeps, FoundKeeps, NotFoundKeeps
<1>5. CASE LogUsage(t) \/ LogChild(t) \/ LogLeave(t)
  BY <1>5, LogUsageKeeps, LogChildKeeps, LogLeaveKeeps
<1>6. CASE ListTrackers(t) \/ ListOne(t) \/ DropOne(t)
  BY <1>6, ListTrackersKeeps, ListOneKeeps, DropOneKeeps
<1>. QED  BY <1>1, <1>2, <1>3, <1>4, <1>5, <1>6 DEF TreeStep

LEMMA TreeInvSound == TreeInv => TrackersSound
<1>. SUFFICES ASSUME TreeInv PROVE TrackersSound
  OBVIOUS
<1>1. TreeTypeOK
  <2>1. ASSUME NEW t \in TreeThreads, NEW i \in DOMAIN frames[t]
        PROVE  frames[t][i] \in [node : Nodes, todo : SUBSET Nodes]
    <3>1. frames[t] \in Seq(Frames)
      BY Starts
    <3>2. frames[t][i] \in Frames
      BY <3>1
    <3>. QED  BY <3>2 DEF Frames
  <2>. QED  BY <2>1 DEF TreeInv, Types, TreeTypeOK, Objects, PCs
<1>2. GlobalIdsUnique
  <2>1. PICK G : G = {o \in Made : Live(o) /\ obj[o].id = Global}
    OBVIOUS
  <2>2. \A a, b \in G : a = b
    BY <2>1 DEF TreeInv, OneGlobal, LiveGlobal, Live
  <2>3. Cardinality(G) <= 1
    <3>1. CASE G = {}
      <4>1. Cardinality(G) = 0
        BY <3>1, FS_EmptySet
      <4>. QED  BY <4>1
    <3>2. CASE G # {}
      <4>1. PICK a : G = {a}
        BY <2>2, <3>2
      <4>2. Cardinality(G) = 1
        BY <4>1, FS_Singleton
      <4>. QED  BY <4>2
    <3>. QED  BY <3>1, <3>2
  <2>. QED  BY <2>1, <2>3 DEF GlobalIdsUnique
<1>. QED  BY <1>1, <1>2 DEF TreeInv, TrackersSound

(* Whatever a thread holds is alive, the parent of a tracker outlives it,  *)
(* child_trackers_ names only trackers that still exist, and               *)
(* FindOrCreateGlobalTracker() never makes a second live tracker of an id: *)
(* for any number of threads and of trackers.                              *)
THEOREM TreeCorrect == MCSpec => []TrackersSound
<1>1. MCInit => TreeInv
  BY TreeInitial DEF MCInit
<1>2. TreeInv /\ [MCNext]_<<subject, vars, treeVars>> => TreeInv'
  BY TreeInvariant, TreeStutters DEF MCNext
<1>. QED  BY <1>1, <1>2, TreeInvSound, PTL DEF MCSpec

=============================================================================
