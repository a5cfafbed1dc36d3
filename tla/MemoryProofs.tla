---------------------------- MODULE MemoryProofs ----------------------------
(***************************************************************************)
(* Proofs about the accounts of the MemTracker and the life of trackers in *)
(* the tree, for any threads, trackers, limits and amounts.                *)
(***************************************************************************)
EXTENDS MCMemTracker, FiniteSetTheorems, WellFoundedInduction, TLAPS

(* Every non-empty set of natural numbers has a least element: what the    *)
(* inductions over the size of a set rest on.                              *)
LEMMA LeastNat ==
  ASSUME NEW T, T \subseteq Nat, T # {}
  PROVE  \E x \in T : \A y \in T : x <= y
<1>1. PICK R : R = OpToRel(<, Nat)
  OBVIOUS
<1>2. IsWellFoundedOn(R, Nat)
  BY <1>1, NatLessThanWellFounded
<1>3. \A x, y \in Nat : <<x, y>> \in R <=> x < y
  BY <1>1 DEF OpToRel
<1>4. PICK x \in T : \A y \in T : <<y, x>> \notin R
  BY <1>2, WFMin
<1>5. ASSUME NEW y \in T PROVE x <= y
  <2>1. x \in Nat /\ y \in Nat /\ <<y, x>> \notin R
    BY <1>4
  <2>2. ~(y < x)
    BY <1>3, <2>1
  <2>. QED  BY <2>1, <2>2
<1>. QED  BY <1>5

-----------------------------------------------------------------------------
(* Sums over the subsets of S, one element taken off at a time.            *)
Pick(s) == CHOOSE x \in s : TRUE
Small(S, n) == {s \in SUBSET S : Cardinality(s) <= n}
AddsUp(f, g, s) == f[s] = IF s = {} THEN 0 ELSE g[Pick(s)] + f[s \ {Pick(s)}]

LEMMA TakeOff ==
  ASSUME NEW S, IsFiniteSet(S), NEW s \in SUBSET S, s # {}
  PROVE  /\ Pick(s) \in s /\ s \ {Pick(s)} \in SUBSET S
         /\ Cardinality(s) \in Nat /\ Cardinality(s) # 0
         /\ Cardinality(s \ {Pick(s)}) = Cardinality(s) - 1
<1>1. Pick(s) \in s
  BY DEF Pick
<1>2. IsFiniteSet(s)
  BY FS_Subset
<1>3. Cardinality(s) \in Nat /\ Cardinality(s) # 0
  BY <1>2, FS_CardinalityType, FS_EmptySet
<1>. QED  BY <1>1, <1>2, <1>3, FS_RemoveElement

(* What holds of a set if it holds of the set without one element holds of *)
(* every subset of S.                                                      *)
LEMMA OneByOne ==
  ASSUME NEW S, IsFiniteSet(S), NEW Bad \in SUBSET (SUBSET S),
         \A s \in Bad : s # {} /\ s \ {Pick(s)} \in Bad
  PROVE  Bad = {}
<1>. SUFFICES ASSUME Bad # {} PROVE FALSE
  OBVIOUS
<1> DEFINE Sizes == {Cardinality(s) : s \in Bad}
<1>1. PICK n \in Sizes : \A m \in Sizes : n <= m
  <2>1. Sizes \subseteq Nat /\ Sizes # {}
    <3>1. ASSUME NEW s \in Bad PROVE Cardinality(s) \in Nat
      BY TakeOff
    <3>. QED  BY <3>1
  <2>. HIDE DEF Sizes
  <2>. QED  BY <2>1, LeastNat
<1>2. PICK s \in Bad : n = Cardinality(s)
  BY <1>1
<1>3. /\ Cardinality(s) \in Nat
      /\ Cardinality(s \ {Pick(s)}) = Cardinality(s) - 1 /\ s \ {Pick(s)} \in Bad
  BY TakeOff
<1>4. n <= Cardinality(s) - 1
  BY <1>1, <1>3
<1>. QED  BY <1>2, <1>3, <1>4

LEMMA SumsExist ==
  ASSUME NEW S, IsFiniteSet(S), NEW g, \A x \in S : g[x] \in Int, NEW n \in Nat
  PROVE  \E f \in [Small(S, n) -> Int] : \A s \in Small(S, n) : AddsUp(f, g, s)
<1>. DEFINE Good(m) == \E f \in [Small(S, m) -> Int] : \A s \in Small(S, m) : AddsUp(f, g, s)
            Bad == {m \in Nat : ~Good(m)}
<1>0. \A s \in SUBSET S : Cardinality(s) \in Nat /\ (Cardinality(s) = 0 <=> s = {})
  BY FS_Subset, FS_CardinalityType, FS_EmptySet
<1>1. Good(0)
  <2>1. Small(S, 0) = {{}}
    BY <1>0 DEF Small
  <2>. DEFINE f == [s \in Small(S, 0) |-> 0]
  <2>2. f \in [Small(S, 0) -> Int] /\ \A s \in Small(S, 0) : AddsUp(f, g, s)
    BY <2>1 DEF AddsUp
  <2>. QED  BY <2>2
<1>2. ASSUME NEW m \in Nat, Good(m) PROVE Good(m + 1)
  <2>1. PICK f \in [Small(S, m) -> Int] : \A s \in Small(S, m) : AddsUp(f, g, s)
    BY <1>2
  <2>. DEFINE h == [s \in Small(S, m + 1) |->
                      IF s = {} THEN 0 ELSE g[Pick(s)] + f[s \ {Pick(s)}]]
  <2>2. ASSUME NEW s \in Small(S, m + 1), s # {}
        PROVE  Pick(s) \in S /\ s \ {Pick(s)} \in Small(S, m)
    <3>1. s \in SUBSET S /\ Cardinality(s) <= m + 1
      BY DEF Small
    <3>2. /\ Pick(s) \in s /\ s \ {Pick(s)} \in SUBSET S /\ Cardinality(s) \in Nat
          /\ Cardinality(s \ {Pick(s)}) = Cardinality(s) - 1
      BY <2>2, <3>1, TakeOff
    <3>. QED  BY <3>1, <3>2 DEF Small
  <2>3. h \in [Small(S, m + 1) -> Int]
    BY <2>2
  <2>4. ASSUME NEW s \in Small(S, m) PROVE s \in Small(S, m + 1) /\ h[s] = f[s]
    <3>1. s \in Small(S, m + 1)
      BY <1>0 DEF Small
    <3>. QED  BY <2>1, <3>1 DEF AddsUp
  <2>5. ASSUME NEW s \in Small(S, m + 1) PROVE AddsUp(h, g, s)
    <3>1. s # {} => h[s \ {Pick(s)}] = f[s \ {Pick(s)}]
      BY <2>2, <2>4
    <3>. QED  BY <3>1 DEF AddsUp
  <2>. HIDE DEF h
  <2>. QED  BY <2>3, <2>5
<1>. HIDE DEF Good
<1>3. SUFFICES ASSUME Bad # {} PROVE FALSE
  BY DEF Good
<1>4. PICK m \in Bad : \A k \in Bad : m <= k
  <2>1. Bad \subseteq Nat
    OBVIOUS
  <2>. QED  BY <1>3, <2>1, LeastNat
<1>5. m # 0 /\ m \in Nat /\ m - 1 \in Nat
  BY <1>1
<1>6. Good(m - 1)
  BY <1>4, <1>5
<1>7. (m - 1) + 1 = m
  BY <1>5
<1>. QED  BY <1>2, <1>5, <1>6, <1>7

(* What SumFunctionOnSet() is, up to the order of the elements.            *)
LEMMA SumIs ==
  ASSUME NEW S, IsFiniteSet(S), NEW g, \A x \in S : g[x] \in Int
  PROVE  \E f \in [SUBSET S -> Int] :
           /\ \A s \in SUBSET S : AddsUp(f, g, s)
           /\ SumFunctionOnSet(g, S) = f[S]
<1> DEFINE Def(h) == [s \in SUBSET S |-> IF s = {} THEN 0
                        ELSE g[CHOOSE x \in s : TRUE] + h[s \ {CHOOSE x \in s : TRUE}]]
           iter == CHOOSE h : h = Def(h)
<1>1. \E f : f = Def(f)
  <2>1. Cardinality(S) \in Nat
    BY FS_CardinalityType
  <2>2. Small(S, Cardinality(S)) = SUBSET S
    BY FS_Subset DEF Small
  <2>3. PICK f \in [SUBSET S -> Int] : \A s \in SUBSET S : AddsUp(f, g, s)
    BY <2>1, <2>2, SumsExist
  <2>4. f = Def(f)
    BY <2>3 DEF AddsUp, Pick
  <2>. HIDE DEF Def
  <2>. QED  BY <2>4
<1>2. iter = Def(iter)
  <2>. HIDE DEF Def
  <2>. QED  BY <1>1
<1>3. SumFunctionOnSet(g, S) = iter[S]
  BY DEF SumFunctionOnSet, FoldFunctionOnSet, MapThenFoldSet
<1>. HIDE DEF iter
<1>4. \A s \in SUBSET S : AddsUp(iter, g, s)
  BY <1>2 DEF AddsUp, Pick
<1>5. {s \in SUBSET S : iter[s] \notin Int} = {}
  <2> DEFINE Bad == {s \in SUBSET S : iter[s] \notin Int}
  <2>1. ASSUME NEW s \in Bad PROVE s # {} /\ s \ {Pick(s)} \in Bad
    <3>1. s # {}
      <4>1. iter[{}] = 0
        BY <1>4 DEF AddsUp
      <4>. QED  BY <4>1
    <3>2. Pick(s) \in S /\ s \ {Pick(s)} \in SUBSET S
      BY <3>1, TakeOff
    <3>3. iter[s] = g[Pick(s)] + iter[s \ {Pick(s)}] /\ g[Pick(s)] \in Int
      BY <1>4, <3>1, <3>2 DEF AddsUp
    <3>. QED  BY <3>1, <3>2, <3>3
  <2>2. Bad \in SUBSET (SUBSET S)
    OBVIOUS
  <2>. HIDE DEF Bad
  <2>3. Bad = {}
    BY <2>1, <2>2, OneByOne
  <2>. QED  BY <2>3 DEF Bad
<1>6. iter \in [SUBSET S -> Int]
  BY <1>2, <1>5
<1>. QED  BY <1>3, <1>4, <1>6

LEMMA SumIsInt ==
  ASSUME NEW S, IsFiniteSet(S), NEW g, \A x \in S : g[x] \in Int
  PROVE  SumFunctionOnSet(g, S) \in Int
<1>1. PICK f \in [SUBSET S -> Int] : SumFunctionOnSet(g, S) = f[S]
  BY SumIs
<1>2. S \in SUBSET S
  OBVIOUS
<1>. QED  BY <1>1, <1>2

LEMMA SumOfZeros ==
  ASSUME NEW S, IsFiniteSet(S), NEW g, \A x \in S : g[x] = 0
  PROVE  SumFunctionOnSet(g, S) = 0
<1>0. \A x \in S : g[x] \in Int
  OBVIOUS
<1>1. PICK f \in [SUBSET S -> Int] : /\ \A s \in SUBSET S : AddsUp(f, g, s)
                                     /\ SumFunctionOnSet(g, S) = f[S]
  BY <1>0, SumIs
<1> DEFINE Bad == {s \in SUBSET S : f[s] # 0}
<1>2. ASSUME NEW s \in Bad PROVE s # {} /\ s \ {Pick(s)} \in Bad
  <2>1. s # {}
    <3>1. f[{}] = 0
      BY <1>1 DEF AddsUp
    <3>. QED  BY <3>1
  <2>2. Pick(s) \in S /\ s \ {Pick(s)} \in SUBSET S
    BY <2>1, TakeOff
  <2>3. f[s] = g[Pick(s)] + f[s \ {Pick(s)}] /\ g[Pick(s)] = 0
    BY <1>1, <2>1, <2>2 DEF AddsUp
  <2>4. f[s] = f[s \ {Pick(s)}]
    BY <1>1, <2>2, <2>3
  <2>. QED  BY <2>1, <2>2, <2>4
<1>3. Bad \in SUBSET (SUBSET S)
  OBVIOUS
<1>. HIDE DEF Bad
<1>4. Bad = {}
  BY <1>2, <1>3, OneByOne
<1>. QED  BY <1>1, <1>4 DEF Bad

(* Changing one term changes the sum by as much.                           *)
LEMMA SumChanges ==
  ASSUME NEW S, IsFiniteSet(S), NEW g, NEW h,
         \A y \in S : g[y] \in Int /\ h[y] \in Int,
         NEW x, \A y \in S \ {x} : h[y] = g[y]
  PROVE  SumFunctionOnSet(h, S) =
           SumFunctionOnSet(g, S) + (IF x \in S THEN h[x] - g[x] ELSE 0)
<1>1. PICK f \in [SUBSET S -> Int] : /\ \A s \in SUBSET S : AddsUp(f, g, s)
                                     /\ SumFunctionOnSet(g, S) = f[S]
  BY SumIs
<1>2. PICK e \in [SUBSET S -> Int] : /\ \A s \in SUBSET S : AddsUp(e, h, s)
                                     /\ SumFunctionOnSet(h, S) = e[S]
  BY SumIs
<1> DEFINE Bad == {s \in SUBSET S : e[s] # f[s] + (IF x \in s THEN h[x] - g[x] ELSE 0)}
<1>3. ASSUME NEW s \in Bad PROVE s # {} /\ s \ {Pick(s)} \in Bad
  <2>0. s # {}
    <3>1. e[{}] = 0 /\ f[{}] = 0
      BY <1>1, <1>2 DEF AddsUp
    <3>2. e[s] # f[s] + (IF x \in s THEN h[x] - g[x] ELSE 0)
      OBVIOUS
    <3>3. ASSUME s = {} PROVE FALSE
      <4>1. e[s] = 0 /\ f[s] = 0 /\ x \notin s
        BY <3>1, <3>3
      <4>2. e[s] # f[s] + 0
        BY <3>2, <4>1
      <4>. QED  BY <4>1, <4>2
    <3>. HIDE DEF Bad
    <3>. QED  BY <3>3
  <2> DEFINE a == Pick(s)  r == s \ {a}
  <2>1. a \in s /\ a \in S /\ r \in SUBSET S /\ a \notin r
    BY <2>0, TakeOff
  <2>2. f[s] = g[a] + f[r] /\ e[s] = h[a] + e[r]
    BY <1>1, <1>2, <2>0 DEF AddsUp
  <2>3. /\ f[s] \in Int /\ f[r] \in Int /\ e[s] \in Int /\ e[r] \in Int
        /\ g[a] \in Int /\ h[a] \in Int
    BY <1>1, <1>2, <2>1
  <2>4. s \in SUBSET S /\ e[s] # f[s] + (IF x \in s THEN h[x] - g[x] ELSE 0)
    OBVIOUS
  <2>5. a # x => h[a] = g[a] /\ (x \in s <=> x \in r)
    BY <2>1
  <2>6. x \in s => g[x] \in Int /\ h[x] \in Int
    BY <2>4
  <2>. HIDE DEF a, Bad
  <2>7. CASE a = x
    <3>1. e[r] # f[r]
      BY <2>1, <2>2, <2>3, <2>4, <2>7
    <3>2. r \in Bad
      BY <2>1, <2>3, <2>7, <3>1 DEF Bad
    <3>. QED  BY <2>0, <3>2 DEF a
  <2>8. CASE a # x
    <3>1. e[r] # f[r] + (IF x \in r THEN h[x] - g[x] ELSE 0)
      BY <2>2, <2>3, <2>4, <2>5, <2>6, <2>8
    <3>2. r \in Bad
      BY <2>1, <3>1 DEF Bad
    <3>. QED  BY <2>0, <3>2 DEF a
  <2>. QED  BY <2>7, <2>8
<1>4. Bad \in SUBSET (SUBSET S)
  OBVIOUS
<1>. HIDE DEF Bad
<1>5. Bad = {}
  BY <1>3, <1>4, OneByOne
<1>6. S \in SUBSET S
  OBVIOUS
<1>. QED  BY <1>1, <1>2, <1>5, <1>6 DEF Bad

-----------------------------------------------------------------------------
(* A call under way is at a tracker of its path, and TryConsume() is the   *)
(* only one that can wait for a collection.                                *)
GoodCall(o) ==
  /\ o \in Calls /\ o.at \in 1..Len(Path(o.on))
  /\ o.kind # "TryConsume" => o.do \in {"add", "max"}
  /\ o.kind = "rollback" => o.stop < o.at

GoodGc(o) ==
  /\ o \in GcCalls /\ o.at \in 1..Len(Path(o.on))
  /\ \/ o.then = NoOp
     \/ GoodCall(o.then) /\ o.then.kind = "TryConsume" /\ o.then.do \in {"check", "retry"}

GoodOp(o) == o = NoOp \/ GoodCall(o) \/ GoodGc(o)

CallInv == TypeOK /\ \A p \in Threads : GoodOp(op[p])

LEMMA CallIs ==
  ASSUME NEW o, o \in Calls
  PROVE  /\ o.kind \in {"Consume", "Release", "TryConsume", "rollback"}
         /\ o.on \in Trackers /\ o.bytes \in Amounts /\ o.bytes \in Nat \ {0}
         /\ o.at \in Nat /\ o.do \in {"add", "max", "gc", "check", "retry"}
         /\ o.value \in Int /\ o.stop \in Nat /\ o.then = NoOp /\ o # NoOp
<1>1. /\ o.kind \in {"Consume", "Release", "TryConsume", "rollback"}
      /\ o.on \in Trackers /\ o.bytes \in Amounts
      /\ o.at \in Nat /\ o.do \in {"add", "max", "gc", "check", "retry"}
      /\ o.value \in Int /\ o.stop \in Nat /\ o.then = NoOp
  BY DEF Calls
<1>2. o # NoOp
  BY <1>1 DEF NoOp
<1>. QED  BY <1>1, <1>2, TrackerAssumption

LEMMA GcIs ==
  ASSUME NEW o, o \in GcCalls
  PROVE  /\ o.kind = "gc"
         /\ o.on \in Trackers /\ o.bytes \in Nat \ {0}
         /\ o.at \in Nat /\ o.do \in {"add", "max"}
         /\ o.value \in Int /\ o.stop = 0 /\ o.then \in Calls \cup {NoOp} /\ o # NoOp
<1>1. /\ o.kind = "gc"
      /\ o.on \in Trackers /\ o.bytes \in Nat \ {0}
      /\ o.at \in Nat /\ o.do \in {"add", "max"}
      /\ o.value \in Int /\ o.stop = 0 /\ o.then \in Calls \cup {NoOp}
  BY DEF GcCalls
<1>2. o # NoOp
  BY <1>1 DEF NoOp
<1>. QED  BY <1>1, <1>2

LEMMA PathIs ==
  ASSUME NEW t \in Trackers
  PROVE  /\ Path(t) \in Seq(Trackers) /\ Len(Path(t)) \in Nat /\ Len(Path(t)) > 0
         /\ Path(t)[1] = t
         /\ \A i, j \in 1..Len(Path(t)) : Path(t)[i] = Path(t)[j] => i = j
         /\ \A i \in 1..Len(Path(t)) : Path(t)[i] \in Trackers
         /\ \A u : u \in Above(t) <=> \E i \in 1..Len(Path(t)) : u = Path(t)[i]
<1>1. /\ Path(t) \in Seq(Trackers) /\ Len(Path(t)) \in Nat /\ Len(Path(t)) > 0
      /\ Path(t)[1] = t /\ IsInjective(Path(t))
  BY TrackerAssumption DEF Path
<1>2. DOMAIN Path(t) = 1..Len(Path(t))
  BY <1>1
<1>3. \A i, j \in 1..Len(Path(t)) : Path(t)[i] = Path(t)[j] => i = j
  BY <1>1, <1>2 DEF IsInjective
<1>. QED  BY <1>1, <1>2, <1>3 DEF Above, ToSet

LEMMA OpIs ==
  ASSUME NEW o, GoodOp(o), o # NoOp
  PROVE  /\ o.kind \in {"Consume", "Release", "TryConsume", "rollback", "gc"}
         /\ o.on \in Trackers /\ o.bytes \in Nat \ {0}
         /\ o.at \in 1..Len(Path(o.on)) /\ o.stop \in Nat /\ o.value \in Int
         /\ o.kind = "gc" <=> GoodGc(o)
         /\ o.kind # "gc" <=> GoodCall(o)
         /\ o.kind # "TryConsume" => o.do \in {"add", "max"}
         /\ o.kind # "gc" => o.then = NoOp
         /\ Visited(o) \in Trackers
<1>1. CASE GoodCall(o)
  <2>1. o \in Calls
    BY <1>1 DEF GoodCall
  <2>2. o.kind # "gc" /\ o.kind \in {"Consume", "Release", "TryConsume", "rollback"}
    BY <2>1, CallIs
  <2>3. ~GoodGc(o)
    BY <2>2, GcIs DEF GoodGc
  <2>4. o.on \in Trackers /\ o.at \in 1..Len(Path(o.on))
    BY <1>1, <2>1, CallIs DEF GoodCall
  <2>5. Visited(o) \in Trackers
    BY <2>4, PathIs DEF Visited
  <2>. QED  BY <1>1, <2>1, <2>2, <2>3, <2>4, <2>5, CallIs DEF GoodCall
<1>2. CASE GoodGc(o)
  <2>1. o \in GcCalls
    BY <1>2 DEF GoodGc
  <2>2. o.kind = "gc"
    BY <2>1, GcIs
  <2>3. ~GoodCall(o)
    BY <2>2, CallIs DEF GoodCall
  <2>4. o.on \in Trackers /\ o.at \in 1..Len(Path(o.on))
    BY <1>2, <2>1, GcIs DEF GoodGc
  <2>5. Visited(o) \in Trackers
    BY <2>4, PathIs DEF Visited
  <2>. QED  BY <1>2, <2>1, <2>2, <2>3, <2>4, <2>5, GcIs DEF GoodGc
<1>. QED  BY <1>1, <1>2 DEF GoodOp

-----------------------------------------------------------------------------
(* How the steps change the call of a thread.                              *)
Becomes(p, n) == op' = [op EXCEPT ![p] = n]
Alike(o, n) ==
  /\ n.kind = o.kind /\ n.on = o.on /\ n.bytes = o.bytes /\ n.stop = o.stop
  /\ n.then = o.then

LEMMA BecomesGood ==
  ASSUME CallInv, NEW p \in Threads, NEW n, GoodOp(n), Becomes(p, n)
  PROVE  /\ op' \in [Threads -> Ops \cup {NoOp}]
         /\ \A q \in Threads : GoodOp(op'[q])
         /\ op'[p] = n /\ \A q \in Threads \ {p} : op'[q] = op[q]
<1>1. op \in [Threads -> Ops \cup {NoOp}]
  BY DEF CallInv, TypeOK
<1>2. n \in Ops \cup {NoOp}
  BY DEF GoodOp, GoodCall, GoodGc, Ops
<1>. QED  BY <1>1, <1>2 DEF Becomes, CallInv

LEMMA AddToIs ==
  ASSUME CallInv, NEW p \in Threads, op[p] # NoOp, NEW d \in Int, AddTo(p, d)
  PROVE  \E n : /\ Becomes(p, n) /\ GoodOp(n) /\ n # NoOp /\ Alike(op[p], n)
                /\ n.at = op[p].at /\ n.do = "max"
                /\ n.value = consumption[Visited(op[p])] + d
<1> DEFINE o == op[p]
           v == consumption[Visited(o)] + d
           n == [[[o EXCEPT !.at = o.at] EXCEPT !.do = "max"] EXCEPT !.value = v]
<1>1. GoodOp(o) /\ o # NoOp /\ (o \in Calls \/ o \in GcCalls) /\ Visited(o) \in Trackers
      /\ o.at \in Nat
  BY OpIs, CallIs, GcIs DEF CallInv, GoodOp, GoodCall, GoodGc
<1>2. v \in Int
  BY <1>1 DEF CallInv, TypeOK
<1>3. o = [o EXCEPT !.at = o.at]
  BY <1>1 DEF Calls, GcCalls
<1>4. Becomes(p, n)
  BY <1>3 DEF AddTo, Becomes, CallInv, TypeOK
<1>a. n = [[[o EXCEPT !.at = o.at] EXCEPT !.do = "max"] EXCEPT !.value = v]
  OBVIOUS
<1>. HIDE DEF o, v, n
<1>5. /\ Alike(o, n) /\ n.at = o.at /\ n.do = "max" /\ n.value = v
      /\ (o \in Calls => n \in Calls) /\ (o \in GcCalls => n \in GcCalls)
  <2>1. CASE o \in Calls
    BY <1>1, <1>2, <1>a, <2>1 DEF Calls, GcCalls, Alike
  <2>2. CASE o \in GcCalls
    BY <1>1, <1>2, <1>a, <2>2 DEF Calls, GcCalls, Alike
  <2>. QED  BY <1>1, <2>1, <2>2
<1>6. GoodOp(n) /\ n # NoOp
  <2>1. CASE GoodCall(o)
    <3>1. n \in Calls
      BY <1>5, <2>1 DEF GoodCall
    <3>. QED  BY <1>5, <2>1, <3>1, CallIs DEF GoodCall, GoodOp, Alike
  <2>2. CASE GoodGc(o)
    <3>1. n \in GcCalls
      BY <1>5, <2>2 DEF GoodGc
    <3>. QED  BY <1>5, <2>2, <3>1, GcIs DEF GoodGc, GoodOp, Alike
  <2>. QED  BY <1>1, <2>1, <2>2 DEF GoodOp
<1>. QED  BY <1>4, <1>5, <1>6 DEF o, v

LEMMA UpdateMaxIs ==
  ASSUME CallInv, NEW p \in Threads, UpdateMax(p)
  PROVE  /\ op[p] # NoOp /\ op[p].do = "max"
         /\ \/ /\ op[p].at = LastIndex(op[p]) /\ Becomes(p, op[p].then)
               /\ GoodOp(op[p].then)
            \/ /\ op[p].at # LastIndex(op[p]) /\ held' = held
               /\ \E n : /\ Becomes(p, n) /\ GoodOp(n) /\ n # NoOp /\ Alike(op[p], n)
                         /\ n.at = NextIndex(op[p]) /\ n.do = "add"
<1> DEFINE o == op[p]
           n == [[[o EXCEPT !.at = NextIndex(o)] EXCEPT !.do = "add"] EXCEPT !.value = 0]
<1>1. /\ GoodOp(o) /\ o # NoOp /\ (o \in Calls \/ o \in GcCalls) /\ o.do = "max"
      /\ o.at \in 1..Len(Path(o.on)) /\ o.on \in Trackers /\ Len(Path(o.on)) \in Nat
      /\ o.stop \in Nat
  BY OpIs, CallIs, GcIs, PathIs DEF CallInv, GoodOp, GoodCall, GoodGc, UpdateMax
<1>2. CASE o.at = LastIndex(o)
  <2>1. Becomes(p, o.then)
    BY <1>2 DEF UpdateMax, Becomes
  <2>2. GoodOp(o.then)
    BY <1>1, OpIs DEF GoodOp, GoodGc
  <2>. QED  BY <1>1, <1>2, <2>1, <2>2
<1>3. CASE o.at # LastIndex(o)
  <2>1. NextIndex(o) \in 1..Len(Path(o.on)) /\ (o.kind = "rollback" => o.stop < NextIndex(o))
    <3>1. CASE o.kind \in {"Consume", "Release", "gc"}
      BY <1>1, <1>3, <3>1 DEF NextIndex, LastIndex
    <3>2. CASE o.kind = "TryConsume"
      BY <1>1, <1>3, <3>2 DEF NextIndex, LastIndex
    <3>3. CASE o.kind = "rollback"
      <4>1. o.stop < o.at
        BY <1>1, <3>3, OpIs DEF GoodCall
      <4>. QED  BY <1>1, <1>3, <3>3, <4>1 DEF NextIndex, LastIndex
    <3>. QED  BY <1>1, <3>1, <3>2, <3>3, OpIs
  <2>2. Becomes(p, n)
    BY <1>3 DEF UpdateMax, Becomes, CallInv, TypeOK
  <2>3. held' = held
    BY <1>3 DEF UpdateMax
  <2>a. n = [[[o EXCEPT !.at = NextIndex(o)] EXCEPT !.do = "add"] EXCEPT !.value = 0]
    OBVIOUS
  <2>b. NextIndex(o) \in Nat
    BY <1>1, <2>1
  <2>. HIDE DEF o, n
  <2>4. /\ Alike(o, n) /\ n.at = NextIndex(o) /\ n.do = "add"
        /\ (o \in Calls => n \in Calls) /\ (o \in GcCalls => n \in GcCalls)
    <3>0. PICK i \in Nat : i = NextIndex(o)
      BY <2>b
    <3>z. PICK z \in Int : z = 0
      OBVIOUS
    <3>d. PICK d \in {"add", "max"} : d = "add"
      OBVIOUS
    <3>a. n = [[[o EXCEPT !.at = i] EXCEPT !.do = d] EXCEPT !.value = z]
      BY <2>a, <3>0, <3>d, <3>z
    <3>1. CASE o \in Calls
      <4>1. Alike(o, n) /\ n.at = i /\ n.do = "add"
        BY <3>a, <3>d, <3>1 DEF Calls, Alike
      <4>2. n \in Calls
        BY <3>a, <3>1 DEF Calls
      <4>3. o \notin GcCalls
        BY <3>1 DEF Calls, GcCalls
      <4>. QED  BY <3>0, <4>1, <4>2, <4>3
    <3>2. CASE o \in GcCalls
      <4>1. Alike(o, n) /\ n.at = i /\ n.do = "add"
        BY <3>a, <3>d, <3>2 DEF GcCalls, Alike
      <4>2. n \in GcCalls
        BY <3>a, <3>2 DEF GcCalls
      <4>3. o \notin Calls
        BY <3>2 DEF Calls, GcCalls
      <4>. QED  BY <3>0, <4>1, <4>2, <4>3
    <3>. QED  BY <1>1, <3>1, <3>2
  <2>5. GoodOp(n) /\ n # NoOp
    <3>1. CASE GoodCall(o)
      <4>1. n \in Calls
        BY <2>4, <3>1 DEF GoodCall
      <4>. QED  BY <2>1, <2>4, <3>1, <4>1, CallIs DEF GoodCall, GoodOp, Alike
    <3>2. CASE GoodGc(o)
      <4>1. n \in GcCalls
        BY <2>4, <3>2 DEF GoodGc
      <4>. QED  BY <2>1, <2>4, <3>2, <4>1, GcIs DEF GoodGc, GoodOp, Alike
    <3>. QED  BY <1>1, <3>1, <3>2 DEF GoodOp
  <2>. QED  BY <1>1, <1>3, <2>2, <2>3, <2>4, <2>5 DEF o
<1>. QED  BY <1>2, <1>3

LEMMA CallMade ==
  ASSUME NEW kind \in {"Consume", "Release", "TryConsume"}, NEW t \in Trackers,
         NEW b \in Amounts, NEW i \in 1..Len(Path(t)), NEW n, n = Call(kind, t, b, i)
  PROVE  /\ GoodOp(n) /\ n # NoOp /\ n.kind = kind /\ n.on = t /\ n.bytes = b
         /\ n.at = i /\ n.do = "add" /\ n.then = NoOp
<1>0. i \in Nat
  BY PathIs
<1>1. n.kind = kind /\ n.at = i /\ n.on = t /\ n.do = "add" /\ n.bytes = b /\ n.then = NoOp
  BY DEF Call
<1>2. n \in Calls
  BY <1>0 DEF Call, Calls
<1>3. GoodCall(n)
  BY <1>1, <1>2 DEF GoodCall
<1>. QED  BY <1>1, <1>2, <1>3, CallIs DEF GoodOp

(* TryConsume() turns to garbage collection or tries again.                *)
LEMMA TurnsTo ==
  ASSUME CallInv, NEW p \in Threads, op[p].kind = "TryConsume",
         NEW d \in {"gc", "check", "retry"}, NEW n, n = [op[p] EXCEPT !.do = d]
  PROVE  /\ GoodOp(n) /\ n # NoOp /\ GoodCall(n) /\ Alike(op[p], n)
         /\ n.at = op[p].at /\ n.do = d
<1>1. GoodCall(op[p]) /\ op[p] \in Calls
  <2>1. op[p] # NoOp
    BY DEF NoOp
  <2>. QED  BY <2>1, OpIs DEF CallInv, GoodCall
<1>2. PICK o : o = op[p]
  OBVIOUS
<1>3. PICK e \in {"add", "max", "gc", "check", "retry"} : e = d
  OBVIOUS
<1>4. n = [o EXCEPT !.do = e] /\ o \in Calls
  BY <1>1, <1>2, <1>3
<1>5. n \in Calls
  BY <1>4 DEF Calls
<1>6. Alike(o, n) /\ n.at = o.at /\ n.do = e
  BY <1>4 DEF Calls, Alike
<1>7. GoodCall(n)
  BY <1>1, <1>2, <1>5, <1>6 DEF GoodCall, Alike
<1>. QED  BY <1>2, <1>3, <1>5, <1>6, <1>7, CallIs DEF GoodOp

LEMMA RollBackIs ==
  ASSUME CallInv, NEW p \in Threads, op[p].kind = "TryConsume", op' = RollBack(p)
  PROVE  \/ op[p].at = Len(Path(op[p].on)) /\ Becomes(p, NoOp)
         \/ \E n : /\ Becomes(p, n) /\ GoodOp(n) /\ n # NoOp /\ n.kind = "rollback"
                   /\ n.on = op[p].on /\ n.bytes = op[p].bytes /\ n.do = "add"
                   /\ n.stop = op[p].at /\ n.at = Len(Path(op[p].on)) /\ n.then = NoOp
<1>1. GoodCall(op[p]) /\ op[p] \in Calls
  <2>1. op[p] # NoOp
    BY DEF NoOp
  <2>. QED  BY <2>1, OpIs DEF CallInv, GoodCall
<1>2. CASE op[p].at = Len(Path(op[p].on))
  BY <1>2 DEF RollBack, Becomes
<1>3. CASE op[p].at # Len(Path(op[p].on))
  <2>1. PICK o : o = op[p]
    OBVIOUS
  <2>2. o \in Calls /\ o.at \in 1..Len(Path(o.on)) /\ o.on \in Trackers
        /\ o.at # Len(Path(o.on)) /\ GoodCall(o) /\ o.then = NoOp
    BY <1>1, <1>3, <2>1, CallIs DEF GoodCall
  <2>3. PICK k \in {"Consume", "Release", "TryConsume", "rollback"} : k = "rollback"
    OBVIOUS
  <2>4. PICK d \in {"add", "max", "gc", "check", "retry"} : d = "add"
    OBVIOUS
  <2>5. PICK len \in Nat : len = Len(Path(o.on))
    BY <2>2, PathIs
  <2>6. PICK at \in Nat : at = o.at
    BY <2>2, <2>5
  <2> DEFINE n == [[[[o EXCEPT !.kind = k] EXCEPT !.do = d] EXCEPT !.stop = at]
                     EXCEPT !.at = len]
  <2>7. Becomes(p, n)
    BY <1>3, <2>1, <2>3, <2>4, <2>5, <2>6 DEF RollBack, Becomes, CallInv, TypeOK
  <2>8. n \in Calls
    BY <2>2 DEF Calls
  <2>9. /\ n.kind = k /\ n.do = d /\ n.stop = at /\ n.at = len /\ n.on = o.on
        /\ n.bytes = o.bytes /\ n.then = o.then
    BY <2>2 DEF Calls
  <2>. HIDE DEF n
  <2>10. GoodCall(n)
    <3>1. len \in 1..Len(Path(n.on)) /\ at < len
      BY <2>2, <2>5, <2>6, <2>9
    <3>. QED  BY <2>3, <2>4, <2>8, <2>9, <3>1 DEF GoodCall
  <2>. QED  BY <2>1, <2>2, <2>3, <2>4, <2>5, <2>6, <2>7, <2>8, <2>9, <2>10, CallIs DEF GoodOp
<1>. QED  BY <1>2, <1>3

LEMMA GcMemoryIs ==
  ASSUME CallInv, NEW p \in Threads, NEW t \in Trackers, NEW goal, NEW then,
         \/ then = NoOp
         \/ GoodCall(then) /\ then.kind = "TryConsume" /\ then.do \in {"check", "retry"},
         GcMemory(p, t, goal, then)
  PROVE  \E b \in Nat :
           /\ cache' = [cache EXCEPT ![t] = @ - b] /\ b <= cache[t]
           /\ \/ b = 0 /\ Becomes(p, then) /\ GoodOp(then)
              \/ \E n : /\ Becomes(p, n) /\ GoodOp(n) /\ n # NoOp /\ n.kind = "gc"
                        /\ n.on = t /\ n.bytes = b /\ n.at = 1 /\ n.do = "add"
                        /\ n.then = then
<1> DEFINE b == Freed(t, goal)
           n == [Call("gc", t, b, 1) EXCEPT !.then = then]
<1>1. b \in Nat /\ b <= cache[t]
  BY DEF Freed, CallInv, TypeOK
<1>2. cache' = [cache EXCEPT ![t] = @ - b]
  BY DEF GcMemory
<1>3. GoodOp(then)
  BY DEF GoodOp
<1>4. CASE b = 0
  <2>1. Becomes(p, then)
    BY <1>4 DEF GcMemory, Becomes
  <2>. QED  BY <1>1, <1>2, <1>3, <1>4, <2>1
<1>5. CASE b # 0
  <2>1. Becomes(p, n)
    BY <1>5 DEF GcMemory, Becomes
  <2>. HIDE DEF b
  <2>2. b \in Nat \ {0}
    BY <1>1, <1>5
  <2>3. n = [kind |-> "gc", on |-> t, bytes |-> b, at |-> 1, do |-> "add", value |-> 0,
             stop |-> 0, then |-> then]
    BY DEF Call
  <2>4. then \in Calls \cup {NoOp}
    BY DEF GoodCall
  <2>. HIDE DEF n
  <2>5. n \in GcCalls
    BY <2>2, <2>3, <2>4 DEF GcCalls
  <2>6. GoodGc(n)
    <3>1. 1 \in 1..Len(Path(t))
      BY PathIs
    <3>. QED  BY <2>3, <2>5, <3>1 DEF GoodGc
  <2>7. /\ n.kind = "gc" /\ n.on = t /\ n.bytes = b /\ n.at = 1 /\ n.do = "add"
        /\ n.then = then
    BY <2>3
  <2>8. GoodOp(n) /\ n # NoOp
    BY <2>5, <2>6, GcIs DEF GoodOp
  <2>9. \E m : /\ Becomes(p, m) /\ GoodOp(m) /\ m # NoOp /\ m.kind = "gc"
               /\ m.on = t /\ m.bytes = b /\ m.at = 1 /\ m.do = "add"
               /\ m.then = then
    BY <2>1, <2>7, <2>8
  <2>. QED  BY <1>1, <1>2, <2>9
<1>. QED  BY <1>4, <1>5

-----------------------------------------------------------------------------
(* What a call under way has added to a tracker: 0 off its path, ...       *)
LEMMA PendingOff ==
  ASSUME NEW o, NEW t, o = NoOp \/ t \notin Above(o.on)
  PROVE  Pending(o, t) = 0
  BY DEF Pending

(* ... and at index i of its path it depends on what it does and where.    *)
LEMMA PendingAt ==
  ASSUME NEW o, GoodOp(o), o # NoOp, NEW i \in 1..Len(Path(o.on)),
         NEW t, t = Path(o.on)[i]
  PROVE  /\ t \in Above(o.on)
         /\ o.kind = "Consume" =>
              Pending(o, t) = IF i < o.at \/ (i = o.at /\ o.do = "max") THEN o.bytes ELSE 0
         /\ o.kind = "TryConsume" =>
              Pending(o, t) = IF i > o.at \/ (i = o.at /\ o.do = "max") THEN o.bytes ELSE 0
         /\ o.kind \in {"Release", "gc"} =>
              Pending(o, t) = IF i > o.at \/ (i = o.at /\ o.do # "max") THEN o.bytes ELSE 0
         /\ o.kind = "rollback" =>
              Pending(o, t) = IF i > o.stop /\ (i < o.at \/ (i = o.at /\ o.do # "max"))
                              THEN o.bytes ELSE 0
<1>0. o.on \in Trackers /\ o.kind \in {"Consume", "Release", "TryConsume", "rollback", "gc"}
  BY OpIs
<1>1. t \in Above(o.on)
  BY <1>0, PathIs
<1>2. (CHOOSE j \in 1..Len(Path(o.on)) : Path(o.on)[j] = t) = i
  BY <1>0, PathIs
<1>3. CASE o.kind = "Consume"
  BY <1>1, <1>2, <1>3 DEF Pending
<1>4. CASE o.kind = "TryConsume"
  BY <1>1, <1>2, <1>4 DEF Pending
<1>5. CASE o.kind \in {"Release", "gc"}
  BY <1>1, <1>2, <1>5 DEF Pending
<1>6. CASE o.kind = "rollback"
  BY <1>1, <1>2, <1>6 DEF Pending
<1>. QED  BY <1>0, <1>1, <1>3, <1>4, <1>5, <1>6

LEMMA PendingIsInt ==
  ASSUME NEW o, GoodOp(o), NEW t PROVE Pending(o, t) \in Int
<1>1. CASE o = NoOp \/ t \notin Above(o.on)
  BY <1>1, PendingOff
<1>2. CASE o # NoOp /\ t \in Above(o.on)
  <2>1. o.bytes \in Nat /\ o.on \in Trackers
        /\ o.kind \in {"Consume", "Release", "TryConsume", "rollback", "gc"}
    BY <1>2, OpIs
  <2>2. PICK i \in 1..Len(Path(o.on)) : t = Path(o.on)[i]
    BY <1>2, <2>1, PathIs
  <2>. QED  BY <1>2, <2>1, <2>2, PendingAt
<1>. QED  BY <1>1, <1>2

Flight(o, t) == Pending(o, t) + (IF o = NoOp THEN 0 ELSE Pending(o.then, t))

LEMMA FlightIs ==
  ASSUME NEW o, GoodOp(o), NEW t
  PROVE  /\ Flight(o, t) \in Int
         /\ o = NoOp => Flight(o, t) = 0
         /\ (o # NoOp /\ o.then = NoOp) => Flight(o, t) = Pending(o, t)
         /\ o # NoOp => GoodOp(o.then) /\ Flight(o.then, t) = Pending(o.then, t)
<1>0. Pending(NoOp, t) = 0 /\ Pending(o, t) \in Int
  BY PendingOff, PendingIsInt
<1>1. CASE o = NoOp
  BY <1>0, <1>1 DEF Flight
<1>2. CASE o # NoOp
  <2>1. GoodOp(o.then) /\ (o.then # NoOp => o.then.then = NoOp)
    <3>1. CASE o.kind = "gc"
      <4>1. o.then = NoOp \/ (GoodCall(o.then) /\ o.then \in Calls)
        BY <1>2, <3>1, OpIs DEF GoodGc, GoodCall
      <4>. QED  BY <4>1, CallIs DEF GoodOp
    <3>2. CASE o.kind # "gc"
      BY <1>2, <3>2, OpIs DEF GoodOp
    <3>. QED  BY <3>1, <3>2
  <2>2. Pending(o.then, t) \in Int
    BY <2>1, PendingIsInt
  <2>3. Flight(o.then, t) = Pending(o.then, t)
    BY <1>0, <2>1, <2>2 DEF Flight
  <2>. QED  BY <1>0, <1>2, <2>1, <2>2, <2>3 DEF Flight
<1>. QED  BY <1>1, <1>2

-----------------------------------------------------------------------------
(* The call of p becomes n; what else changes keeps its type.              *)
LEMMA CallKept ==
  ASSUME CallInv, NEW p \in Threads, NEW n, GoodOp(n), Becomes(p, n),
         consumption' \in [Trackers -> Int], peak' \in [Trackers -> Int],
         held' \in [Threads -> [Trackers -> Nat]], cache' \in [Trackers -> Nat],
         highest' \in [Trackers -> Int]
  PROVE  CallInv' /\ op'[p] = n /\ \A q \in Threads \ {p} : op'[q] = op[q]
<1>1. /\ op' \in [Threads -> Ops \cup {NoOp}] /\ \A q \in Threads : GoodOp(op'[q])
      /\ op'[p] = n /\ \A q \in Threads \ {p} : op'[q] = op[q]
  BY BecomesGood
<1>. QED  BY <1>1 DEF CallInv, TypeOK

LEMMA MaxIs ==
  ASSUME NEW a \in Int, NEW b \in Int
  PROVE  /\ Max({a, b}) \in Int /\ Max({a, b}) >= a /\ Max({a, b}) >= b
         /\ (Max({a, b}) = a \/ Max({a, b}) = b)
<1>1. \E x \in {a, b} : \A y \in {a, b} : x >= y
  <2>1. a >= b \/ b >= a
    OBVIOUS
  <2>. QED  BY <2>1
<1>2. Max({a, b}) \in {a, b} /\ \A y \in {a, b} : Max({a, b}) >= y
  BY <1>1 DEF Max
<1>. QED  BY <1>2

(* What p takes out of the flight of its call, b bytes in all, is what is  *)
(* held on s from then on.                                                 *)
Settles(p, s, b) ==
  /\ \A q \in Threads \ {p} : op'[q] = op[q]
  /\ \A u \in Trackers :
       cache'[u] + HeldOn(u)' = cache[u] + HeldOn(u) + (IF u = s THEN b ELSE 0)
  /\ \A t \in Trackers :
       consumption'[t] = consumption[t] + Flight(op'[p], t) - Flight(op[p], t)
                           + (IF t \in Above(s) THEN b ELSE 0)

Settled(p) == \E s \in Trackers, b \in Int : Settles(p, s, b)

(* No add is made and no UpdateMax() is due before or after the step of p. *)
MaxQuiet(o) == o = NoOp \/ o.do # "max"
PeakQuiet(p) ==
  /\ UNCHANGED <<peak, highest>> /\ MaxQuiet(op[p]) /\ MaxQuiet(op'[p])
  /\ \A q \in Threads \ {p} : op'[q] = op[q]

LEMMA HeldIsInt ==
  ASSUME CallInv, NEW u \in Trackers PROVE HeldOn(u) \in Int /\ cache[u] \in Int
<1> DEFINE g == [q \in Threads |-> held[q][u]]
<1>1. \A q \in Threads : g[q] \in Int
  BY DEF CallInv, TypeOK
<1>2. SumFunctionOnSet(g, Threads) \in Int
  <2>. HIDE DEF g
  <2>. QED  BY <1>1, SumIsInt, TrackerAssumption
<1>. QED  BY <1>2 DEF HeldOn, CallInv, TypeOK

LEMMA HeldSet ==
  ASSUME CallInv, NEW p \in Threads, NEW t \in Trackers, NEW v \in Nat,
         held' = [held EXCEPT ![p][t] = v]
  PROVE  /\ held' \in [Threads -> [Trackers -> Nat]]
         /\ \A q \in Threads \ {p} : held'[q] = held[q]
         /\ \A u \in Trackers \ {t} : held'[p][u] = held[p][u]
         /\ held'[p][t] = v
<1>1. held \in [Threads -> [Trackers -> Nat]]
  BY DEF CallInv, TypeOK
<1>2. PICK r : r = [held[p] EXCEPT ![t] = v]
  OBVIOUS
<1>3. r \in [Trackers -> Nat] /\ r[t] = v /\ \A u \in Trackers \ {t} : r[u] = held[p][u]
  BY <1>1, <1>2
<1>4. held' = [held EXCEPT ![p] = r]
  BY <1>2
<1>. QED  BY <1>1, <1>3, <1>4

LEMMA HeldMoves ==
  ASSUME CallInv, CallInv', NEW p \in Threads, NEW t \in Trackers, NEW d \in Int,
         \A q \in Threads \ {p} : held'[q] = held[q],
         \A u \in Trackers \ {t} : held'[p][u] = held[p][u],
         held'[p][t] = held[p][t] + d
  PROVE  \A u \in Trackers : HeldOn(u)' = HeldOn(u) + (IF u = t THEN d ELSE 0)
<1>. SUFFICES ASSUME NEW u \in Trackers
              PROVE  HeldOn(u)' = HeldOn(u) + (IF u = t THEN d ELSE 0)
  OBVIOUS
<1>. DEFINE g == [q \in Threads |-> held[q][u]]  h == [q \in Threads |-> held'[q][u]]
<1>1. \A q \in Threads : g[q] \in Int /\ h[q] \in Int
  BY DEF CallInv, TypeOK
<1>2. \A q \in Threads \ {p} : h[q] = g[q]
  OBVIOUS
<1>3. h[p] - g[p] = IF u = t THEN d ELSE 0
  <2>1. held[p][u] \in Int
    BY DEF CallInv, TypeOK
  <2>2. held'[p][u] = IF u = t THEN held[p][u] + d ELSE held[p][u]
    OBVIOUS
  <2>. QED  BY <2>1, <2>2
<1>4. HeldOn(u) = SumFunctionOnSet(g, Threads) /\ HeldOn(u)' = SumFunctionOnSet(h, Threads)
  BY DEF HeldOn
<1>5. SumFunctionOnSet(h, Threads) = SumFunctionOnSet(g, Threads)
                                       + (IF p \in Threads THEN h[p] - g[p] ELSE 0)
  <2>1. IsFiniteSet(Threads)
    BY TrackerAssumption
  <2>. HIDE DEF g, h
  <2>. QED  BY <1>1, <1>2, <2>1, SumChanges
<1>6. SumFunctionOnSet(g, Threads) \in Int
  BY <1>4, HeldIsInt
<1>. HIDE DEF g, h
<1>. QED  BY <1>3, <1>4, <1>5, <1>6

LEMMA HeldStays ==
  ASSUME held' = held PROVE \A u \in Trackers : HeldOn(u)' = HeldOn(u)
BY DEF HeldOn

(* A step that changes only the call of p, and with it nothing in flight.  *)
LEMMA FlightKept ==
  ASSUME CallInv, NEW p \in Threads, NEW n, GoodOp(n), Becomes(p, n),
         NEW s \in Trackers, \A t \in Trackers : Flight(n, t) = Flight(op[p], t),
         UNCHANGED <<consumption, held, cache, highest>>,
         peak' \in [Trackers -> Int]
  PROVE  CallInv' /\ Settled(p) /\ op'[p] = n /\ \A q \in Threads \ {p} : op'[q] = op[q]
<1>1. CallInv' /\ op'[p] = n /\ \A q \in Threads \ {p} : op'[q] = op[q]
  <2>1. consumption' \in [Trackers -> Int] /\ held' \in [Threads -> [Trackers -> Nat]]
        /\ cache' \in [Trackers -> Nat] /\ highest' \in [Trackers -> Int]
    BY DEF CallInv, TypeOK
  <2>. QED  BY <2>1, CallKept
<1>2. PICK b \in Int : b = 0
  OBVIOUS
<1>3. ASSUME NEW u \in Trackers
      PROVE  cache'[u] + HeldOn(u)' = cache[u] + HeldOn(u) + (IF u = s THEN b ELSE 0)
  <2>1. HeldOn(u) \in Int /\ cache[u] \in Int
    BY HeldIsInt
  <2>2. HeldOn(u)' = HeldOn(u) /\ cache'[u] = cache[u]
    BY HeldStays
  <2>. QED  BY <1>2, <2>1, <2>2
<1>4. ASSUME NEW t \in Trackers
      PROVE  consumption'[t] = consumption[t] + Flight(op'[p], t) - Flight(op[p], t)
                                 + (IF t \in Above(s) THEN b ELSE 0)
  <2>1. consumption[t] \in Int /\ consumption'[t] = consumption[t]
    BY DEF CallInv, TypeOK
  <2>2. Flight(n, t) \in Int /\ Flight(n, t) = Flight(op[p], t) /\ op'[p] = n
    BY <1>1, FlightIs
  <2>. QED  BY <1>2, <2>1, <2>2
<1>. QED  BY <1>1, <1>3, <1>4 DEF Settles, Settled

-----------------------------------------------------------------------------
(* What each step does to the call under way, to what is in flight, and to *)
(* the maxima that are due.                                                *)
LEMMA StartStep ==
  ASSUME CallInv, NEW p \in Threads, NEW t \in Trackers, NEW b \in Amounts,
         Consume(p, t, b) \/ TryConsume(p, t, b)
  PROVE  CallInv' /\ Settled(p) /\ PeakQuiet(p)
<1>1. \E n : /\ Becomes(p, n) /\ GoodOp(n) /\ n # NoOp /\ n.on = t /\ n.do = "add"
             /\ n.then = NoOp
             /\ \/ n.kind = "Consume" /\ n.at = 1
                \/ n.kind = "TryConsume" /\ n.at = Len(Path(t))
  <2>1. CASE Consume(p, t, b)
    <3>1. 1 \in 1..Len(Path(t))
      BY PathIs
    <3>2. PICK i \in 1..Len(Path(t)) : i = 1
      BY <3>1
    <3>3. PICK k \in {"Consume", "Release", "TryConsume"} : k = "Consume"
      OBVIOUS
    <3>4. PICK n : n = Call(k, t, b, i)
      OBVIOUS
    <3>5. Becomes(p, n)
      BY <2>1, <3>2, <3>3, <3>4 DEF Consume, Becomes
    <3>6. /\ GoodOp(n) /\ n # NoOp /\ n.kind = k /\ n.on = t /\ n.at = i
          /\ n.do = "add" /\ n.then = NoOp
      BY <3>4, CallMade
    <3>. QED  BY <3>2, <3>3, <3>5, <3>6
  <2>2. CASE TryConsume(p, t, b)
    <3>1. Len(Path(t)) \in 1..Len(Path(t))
      BY PathIs
    <3>2. PICK i \in 1..Len(Path(t)) : i = Len(Path(t))
      BY <3>1
    <3>3. PICK k \in {"Consume", "Release", "TryConsume"} : k = "TryConsume"
      OBVIOUS
    <3>4. PICK n : n = Call(k, t, b, i)
      OBVIOUS
    <3>5. Becomes(p, n)
      BY <2>2, <3>2, <3>3, <3>4 DEF TryConsume, Becomes
    <3>6. /\ GoodOp(n) /\ n # NoOp /\ n.kind = k /\ n.on = t /\ n.at = i
          /\ n.do = "add" /\ n.then = NoOp
      BY <3>4, CallMade
    <3>. QED  BY <3>2, <3>3, <3>5, <3>6
  <2>. QED  BY <2>1, <2>2
<1>2. PICK n : /\ Becomes(p, n) /\ GoodOp(n) /\ n # NoOp /\ n.on = t /\ n.do = "add"
               /\ n.then = NoOp
               /\ \/ n.kind = "Consume" /\ n.at = 1
                  \/ n.kind = "TryConsume" /\ n.at = Len(Path(t))
  BY <1>1
<1>3. op[p] = NoOp /\ UNCHANGED <<consumption, peak, held, cache, highest>>
  BY DEF Consume, TryConsume
<1>4. ASSUME NEW u \in Trackers PROVE Flight(n, u) = Flight(op[p], u)
  <2>1. Flight(op[p], u) = 0 /\ Flight(n, u) = Pending(n, u)
    BY <1>2, <1>3, FlightIs DEF CallInv
  <2>2. CASE u \notin Above(t)
    BY <1>2, <2>1, <2>2, PendingOff
  <2>3. CASE u \in Above(t)
    <3>1. Len(Path(t)) \in Nat /\ \E i \in 1..Len(Path(t)) : u = Path(t)[i]
      BY <2>3, PathIs
    <3>2. PICK i \in 1..Len(Path(n.on)) : u = Path(n.on)[i]
      BY <1>2, <3>1
    <3>3. Pending(n, u) = 0
      <4>1. CASE n.kind = "Consume" /\ n.at = 1
        <5>1. ~(i < n.at) /\ n.do # "max"
          BY <1>2, <4>1
        <5>. QED  BY <1>2, <3>2, <4>1, <5>1, PendingAt
      <4>2. CASE n.kind = "TryConsume" /\ n.at = Len(Path(t))
        <5>1. ~(i > n.at) /\ n.do # "max"
          BY <1>2, <3>1, <4>2
        <5>. QED  BY <1>2, <3>2, <4>2, <5>1, PendingAt
      <4>. QED  BY <1>2, <4>1, <4>2
    <3>. QED  BY <2>1, <3>3
  <2>. QED  BY <2>2, <2>3
<1>5. peak' \in [Trackers -> Int]
  BY <1>3 DEF CallInv, TypeOK
<1>6. /\ CallInv' /\ Settled(p) /\ op'[p] = n
      /\ \A q \in Threads \ {p} : op'[q] = op[q]
  BY <1>2, <1>3, <1>4, <1>5, FlightKept
<1>7. n.do # "max"
  BY <1>2
<1>. QED  BY <1>3, <1>6, <1>7 DEF PeakQuiet, MaxQuiet

LEMMA ReleaseStep ==
  ASSUME CallInv, NEW p \in Threads, NEW t \in Trackers, NEW b \in Amounts,
         Release(p, t, b)
  PROVE  CallInv' /\ Settled(p) /\ PeakQuiet(p)
<1>0. b \in Nat /\ Len(Path(t)) \in Nat /\ 1 \in 1..Len(Path(t)) /\ held[p][t] \in Nat
  <2>1. b \in Nat
    BY TrackerAssumption
  <2>2. held[p][t] \in Nat
    BY DEF CallInv, TypeOK
  <2>. QED  BY <2>1, <2>2, PathIs
<1>1. PICK n : /\ Becomes(p, n) /\ GoodOp(n) /\ n # NoOp /\ n.on = t /\ n.do = "add"
               /\ n.then = NoOp /\ n.kind = "Release" /\ n.at = 1 /\ n.bytes = b
  <2>2. PICK i \in 1..Len(Path(t)) : i = 1
    BY <1>0
  <2>3. PICK k \in {"Consume", "Release", "TryConsume"} : k = "Release"
    OBVIOUS
  <2>4. PICK n : n = Call(k, t, b, i)
    OBVIOUS
  <2>5. Becomes(p, n)
    BY <2>2, <2>3, <2>4 DEF Release, Becomes
  <2>6. /\ GoodOp(n) /\ n # NoOp /\ n.kind = k /\ n.on = t /\ n.at = i
        /\ n.do = "add" /\ n.then = NoOp /\ n.bytes = b
    BY <2>4, CallMade
  <2>. QED  BY <2>2, <2>3, <2>5, <2>6
<1>2. op[p] = NoOp /\ UNCHANGED <<consumption, peak, cache, highest>> /\ held[p][t] >= b
  BY DEF Release
<1>3. PICK d \in Int : d = - b
  BY <1>0
<1>4. PICK v \in Nat : v = held[p][t] - b
  BY <1>0, <1>2
<1>5. /\ held' \in [Threads -> [Trackers -> Nat]]
      /\ \A q \in Threads \ {p} : held'[q] = held[q]
      /\ \A u \in Trackers \ {t} : held'[p][u] = held[p][u]
      /\ held'[p][t] = held[p][t] + d
  <2>1. held' = [held EXCEPT ![p][t] = v]
    BY <1>4 DEF Release
  <2>2. v = held[p][t] + d
    BY <1>0, <1>3, <1>4
  <2>. QED  BY <2>1, <2>2, HeldSet
<1>6. CallInv' /\ op'[p] = n /\ \A q \in Threads \ {p} : op'[q] = op[q]
  <2>1. consumption' \in [Trackers -> Int] /\ peak' \in [Trackers -> Int]
        /\ cache' \in [Trackers -> Nat] /\ highest' \in [Trackers -> Int]
    BY <1>2 DEF CallInv, TypeOK
  <2>. QED  BY <1>1, <1>5, <2>1, CallKept
<1>7. ASSUME NEW u \in Trackers
      PROVE  cache'[u] + HeldOn(u)' = cache[u] + HeldOn(u) + (IF u = t THEN d ELSE 0)
  <2>1. HeldOn(u)' = HeldOn(u) + (IF u = t THEN d ELSE 0)
    BY <1>5, <1>6, HeldMoves
  <2>2. HeldOn(u) \in Int /\ cache[u] \in Int /\ cache'[u] = cache[u]
    BY <1>2, HeldIsInt
  <2>. QED  BY <1>3, <2>1, <2>2
<1>8. ASSUME NEW u \in Trackers
      PROVE  consumption'[u] = consumption[u] + Flight(op'[p], u) - Flight(op[p], u)
                                 + (IF u \in Above(t) THEN d ELSE 0)
  <2>1. Flight(op[p], u) = 0 /\ Flight(op'[p], u) = Pending(n, u)
    BY <1>1, <1>2, <1>6, FlightIs DEF CallInv
  <2>2. Pending(n, u) = IF u \in Above(t) THEN b ELSE 0
    <3>1. CASE u \notin Above(t)
      BY <1>1, <3>1, PendingOff
    <3>2. CASE u \in Above(t)
      <4>1. PICK i \in 1..Len(Path(n.on)) : u = Path(n.on)[i]
        BY <1>1, <3>2, PathIs
      <4>2. i > n.at \/ (i = n.at /\ n.do # "max")
        BY <1>0, <1>1, <4>1
      <4>. QED  BY <1>1, <3>2, <4>1, <4>2, PendingAt
    <3>. QED  BY <3>1, <3>2
  <2>3. consumption[u] \in Int /\ consumption'[u] = consumption[u]
    BY <1>2 DEF CallInv, TypeOK
  <2>. QED  BY <1>0, <1>3, <2>1, <2>2, <2>3
<1>9. Settled(p)
  BY <1>3, <1>6, <1>7, <1>8 DEF Settles, Settled
<1>10. n.do # "max"
  BY <1>1
<1>. QED  BY <1>2, <1>6, <1>9, <1>10 DEF PeakQuiet, MaxQuiet

LEMMA CacheStep ==
  ASSUME CallInv, NEW p \in Threads, NEW t \in Trackers, PutInCache(p, t)
  PROVE  CallInv' /\ Settled(p) /\ PeakQuiet(p)
<1>0. /\ held[p] \in [Trackers -> Nat] /\ cache \in [Trackers -> Nat]
      /\ held[p][t] \in Nat /\ cache[t] \in Nat
  BY DEF CallInv, TypeOK
<1>1. op[p] = NoOp /\ UNCHANGED <<consumption, peak, op, highest>>
  BY DEF PutInCache
<1>2. PICK d \in Int : d = - held[p][t]
  BY <1>0
<1>3. PICK v \in Nat : v = 0
  OBVIOUS
<1>4. /\ held' \in [Threads -> [Trackers -> Nat]]
      /\ \A q \in Threads \ {p} : held'[q] = held[q]
      /\ \A u \in Trackers \ {t} : held'[p][u] = held[p][u]
      /\ held'[p][t] = held[p][t] + d
  <2>1. held' = [held EXCEPT ![p][t] = v]
    BY <1>3 DEF PutInCache
  <2>2. v = held[p][t] + d
    BY <1>0, <1>2, <1>3
  <2>. QED  BY <2>1, <2>2, HeldSet
<1>5. cache' = [cache EXCEPT ![t] = @ - d] /\ cache' \in [Trackers -> Nat]
  <2>1. cache[t] + held[p][t] = cache[t] - d /\ cache[t] - d \in Nat
    BY <1>0, <1>2
  <2>. QED  BY <1>0, <2>1 DEF PutInCache
<1>6. CallInv'
  <2>1. op' \in [Threads -> Ops \cup {NoOp}] /\ \A q \in Threads : GoodOp(op'[q])
    BY <1>1 DEF CallInv, TypeOK
  <2>2. consumption' \in [Trackers -> Int] /\ peak' \in [Trackers -> Int]
        /\ highest' \in [Trackers -> Int]
    BY <1>1 DEF CallInv, TypeOK
  <2>. QED  BY <1>4, <1>5, <2>1, <2>2 DEF CallInv, TypeOK
<1>7. PICK z \in Int : z = 0
  OBVIOUS
<1>8. ASSUME NEW u \in Trackers
      PROVE  cache'[u] + HeldOn(u)' = cache[u] + HeldOn(u) + (IF u = t THEN z ELSE 0)
  <2>1. HeldOn(u)' = HeldOn(u) + (IF u = t THEN d ELSE 0)
    BY <1>4, <1>6, HeldMoves
  <2>2. cache'[u] = IF u = t THEN cache[u] - d ELSE cache[u]
    BY <1>0, <1>5
  <2>3. HeldOn(u) \in Int /\ cache[u] \in Int
    BY HeldIsInt
  <2>. QED  BY <1>2, <1>7, <2>1, <2>2, <2>3
<1>9. ASSUME NEW u \in Trackers
      PROVE  consumption'[u] = consumption[u] + Flight(op'[p], u) - Flight(op[p], u)
                                 + (IF u \in Above(t) THEN z ELSE 0)
  <2>1. Flight(op[p], u) = 0 /\ op'[p] = op[p]
    BY <1>1, FlightIs DEF CallInv
  <2>2. consumption[u] \in Int /\ consumption'[u] = consumption[u]
    BY <1>1 DEF CallInv, TypeOK
  <2>. QED  BY <1>7, <2>1, <2>2
<1>10. Settled(p)
  BY <1>1, <1>7, <1>8, <1>9 DEF Settles, Settled
<1>. QED  BY <1>1, <1>6, <1>10 DEF PeakQuiet, MaxQuiet

(* The add of p to t, whose UpdateMax() with v comes next.                 *)
PeakAdds(p, t, v) ==
  /\ peak' = peak /\ highest' = [highest EXCEPT ![t] = Max({@, v})]
  /\ MaxQuiet(op[p]) /\ op'[p] # NoOp /\ op'[p].do = "max"
  /\ Visited(op'[p]) = t /\ op'[p].value = v
  /\ \A q \in Threads \ {p} : op'[q] = op[q]

LEMMA AddStep ==
  ASSUME CallInv, NEW p \in Threads, op[p] # NoOp, op[p].do # "max", NEW d \in Int,
         d = IF op[p].kind \in {"Consume", "TryConsume"} THEN op[p].bytes
                                                         ELSE - op[p].bytes,
         AddTo(p, d)
  PROVE  /\ CallInv' /\ Settled(p)
         /\ \E t \in Trackers, v \in Int : PeakAdds(p, t, v)
<1>1. PICK n : /\ Becomes(p, n) /\ GoodOp(n) /\ n # NoOp /\ Alike(op[p], n)
               /\ n.at = op[p].at /\ n.do = "max"
               /\ n.value = consumption[Visited(op[p])] + d
  BY AddToIs
<1>2. PICK o : o = op[p]
  OBVIOUS
<1>3. GoodOp(o) /\ o # NoOp /\ o.do # "max"
  BY <1>2 DEF CallInv
<1>4. /\ o.kind \in {"Consume", "Release", "TryConsume", "rollback", "gc"}
      /\ o.on \in Trackers /\ o.bytes \in Nat /\ o.at \in 1..Len(Path(o.on))
      /\ o.stop \in Nat /\ Visited(o) \in Trackers
      /\ (o.kind = "rollback" => o.stop < o.at)
      /\ (o.kind # "gc" => o.then = NoOp)
  BY <1>3, OpIs DEF GoodCall
<1>p. /\ Len(Path(o.on)) \in Nat
      /\ \A i, j \in 1..Len(Path(o.on)) : Path(o.on)[i] = Path(o.on)[j] => i = j
      /\ \A u : u \in Above(o.on) <=> \E i \in 1..Len(Path(o.on)) : u = Path(o.on)[i]
  <2>1. o.on \in Trackers
    BY <1>4
  <2>. QED  BY <2>1, PathIs
<1>5. PICK t \in Trackers : t = Visited(o)
  BY <1>4
<1>6. PICK v \in Int : v = consumption[t] + d
  BY <1>5 DEF CallInv, TypeOK
<1>7. /\ consumption' = [consumption EXCEPT ![t] = v]
      /\ highest' = [highest EXCEPT ![t] = Max({highest[t], v})]
      /\ UNCHANGED <<peak, held, cache>>
  BY <1>2, <1>5, <1>6 DEF AddTo
<1>8. /\ consumption \in [Trackers -> Int] /\ consumption' \in [Trackers -> Int]
      /\ peak' \in [Trackers -> Int]
      /\ held' \in [Threads -> [Trackers -> Nat]] /\ cache' \in [Trackers -> Nat]
      /\ highest' \in [Trackers -> Int]
  <2>1. highest \in [Trackers -> Int] /\ highest[t] \in Int
        /\ consumption \in [Trackers -> Int] /\ peak \in [Trackers -> Int]
        /\ held \in [Threads -> [Trackers -> Nat]] /\ cache \in [Trackers -> Nat]
    BY DEF CallInv, TypeOK
  <2>2. Max({highest[t], v}) \in Int
    BY <2>1, MaxIs
  <2>. QED  BY <1>7, <2>1, <2>2
<1>9. CallInv' /\ op'[p] = n /\ \A q \in Threads \ {p} : op'[q] = op[q]
  BY <1>1, <1>8, CallKept
<1>10. PICK z \in Int : z = 0
  OBVIOUS
<1>11. ASSUME NEW u \in Trackers
       PROVE  cache'[u] + HeldOn(u)' = cache[u] + HeldOn(u) + (IF u = t THEN z ELSE 0)
  <2>1. HeldOn(u) \in Int /\ cache[u] \in Int
    BY HeldIsInt
  <2>2. HeldOn(u)' = HeldOn(u) /\ cache'[u] = cache[u]
    BY <1>7, HeldStays
  <2>. QED  BY <1>10, <2>1, <2>2
<1>12. ASSUME NEW u \in Trackers
       PROVE  Flight(n, u) = Flight(o, u) + (IF u = t THEN d ELSE 0)
  <2>1. /\ n.kind = o.kind /\ n.on = o.on /\ n.bytes = o.bytes /\ n.stop = o.stop
        /\ n.then = o.then /\ n.at = o.at
    BY <1>1, <1>2 DEF Alike
  <2>2. Pending(n, u) = Pending(o, u) + (IF u = t THEN d ELSE 0) /\ Pending(o, u) \in Int
    <3>1. CASE u \notin Above(o.on)
      <4>1. u # t
        BY <1>4, <1>5, <1>p, <3>1 DEF Visited
      <4>2. Pending(n, u) = 0 /\ Pending(o, u) = 0
        BY <2>1, <3>1, PendingOff
      <4>. QED  BY <4>1, <4>2
    <3>2. CASE u \in Above(o.on)
      <4>1. PICK i \in 1..Len(Path(o.on)) : u = Path(o.on)[i]
        BY <1>p, <3>2
      <4>2. u = t <=> i = o.at
        BY <1>4, <1>5, <1>p, <4>1 DEF Visited
      <4>3. i \in Int /\ o.at \in Int /\ o.bytes \in Int /\ o.stop \in Int
        BY <1>4, <1>p, <4>1
      <4>4. CASE o.kind = "Consume"
        <5>1. d = o.bytes
          BY <1>2, <4>4
        <5>2. Pending(o, u) = IF i < o.at THEN o.bytes ELSE 0
          BY <1>3, <4>1, <4>4, PendingAt
        <5>3. Pending(n, u) = IF i < o.at \/ i = o.at THEN o.bytes ELSE 0
          BY <1>1, <2>1, <4>1, <4>4, PendingAt
        <5>. QED  BY <4>2, <4>3, <5>1, <5>2, <5>3
      <4>5. CASE o.kind = "TryConsume"
        <5>1. d = o.bytes
          BY <1>2, <4>5
        <5>2. Pending(o, u) = IF i > o.at THEN o.bytes ELSE 0
          BY <1>3, <4>1, <4>5, PendingAt
        <5>3. Pending(n, u) = IF i > o.at \/ i = o.at THEN o.bytes ELSE 0
          BY <1>1, <2>1, <4>1, <4>5, PendingAt
        <5>. QED  BY <4>2, <4>3, <5>1, <5>2, <5>3
      <4>6. CASE o.kind \in {"Release", "gc"}
        <5>1. d = - o.bytes
          BY <1>2, <4>6
        <5>2. Pending(o, u) = IF i > o.at \/ i = o.at THEN o.bytes ELSE 0
          BY <1>3, <4>1, <4>6, PendingAt
        <5>3. Pending(n, u) = IF i > o.at THEN o.bytes ELSE 0
          BY <1>1, <2>1, <4>1, <4>6, PendingAt
        <5>. QED  BY <4>2, <4>3, <5>1, <5>2, <5>3
      <4>7. CASE o.kind = "rollback"
        <5>1. d = - o.bytes
          BY <1>2, <4>7
        <5>2. Pending(o, u) = IF i > o.stop /\ (i < o.at \/ i = o.at) THEN o.bytes ELSE 0
          BY <1>3, <4>1, <4>7, PendingAt
        <5>3. Pending(n, u) = IF i > o.stop /\ i < o.at THEN o.bytes ELSE 0
          BY <1>1, <2>1, <4>1, <4>7, PendingAt
        <5>4. o.stop < o.at
          BY <1>4, <4>7
        <5>. QED  BY <4>2, <4>3, <5>1, <5>2, <5>3, <5>4
      <4>. QED  BY <1>4, <4>4, <4>5, <4>6, <4>7
    <3>. QED  BY <3>1, <3>2
  <2>3. GoodOp(o.then) /\ Pending(o.then, u) \in Int
    BY <1>3, FlightIs, PendingIsInt
  <2>4. /\ Flight(n, u) = Pending(n, u) + Pending(o.then, u)
        /\ Flight(o, u) = Pending(o, u) + Pending(o.then, u)
    BY <1>1, <1>3, <2>1 DEF Flight
  <2>. QED  BY <2>2, <2>3, <2>4
<1>13. ASSUME NEW u \in Trackers
       PROVE  consumption'[u] = consumption[u] + Flight(op'[p], u) - Flight(op[p], u)
                                  + (IF u \in Above(t) THEN z ELSE 0)
  <2>1. consumption[u] \in Int /\ consumption'[u] = consumption[u] + (IF u = t THEN d ELSE 0)
    <3>1. consumption[u] \in Int /\ consumption[t] \in Int
      BY <1>8
    <3>2. consumption'[u] = IF u = t THEN v ELSE consumption[u]
      BY <1>7, <1>8
    <3>. QED  BY <1>6, <3>1, <3>2
  <2>2. Flight(op'[p], u) = Flight(op[p], u) + (IF u = t THEN d ELSE 0)
    BY <1>2, <1>9, <1>12
  <2>3. Flight(op[p], u) \in Int
    BY <1>2, <1>3, FlightIs
  <2>. QED  BY <1>10, <2>1, <2>2, <2>3
<1>14. Settled(p)
  BY <1>9, <1>10, <1>11, <1>13 DEF Settles, Settled
<1>15. PeakAdds(p, t, v)
  <2>1. Visited(n) = t /\ n.value = v /\ MaxQuiet(op[p])
    BY <1>1, <1>2, <1>3, <1>5, <1>6 DEF Visited, Alike, MaxQuiet
  <2>. QED  BY <1>1, <1>7, <1>9, <2>1 DEF PeakAdds
<1>. QED  BY <1>9, <1>14, <1>15

(* What TryConsume() has added so far stays where it is while the call     *)
(* waits, collects or turns to its roll-back.                              *)
LEMMA TurnFlight ==
  ASSUME NEW o, GoodOp(o), o # NoOp, o.kind = "TryConsume", o.do # "max",
         NEW n, GoodOp(n), n # NoOp, Alike(o, n), n.at = o.at, n.do # "max", NEW u
  PROVE  Flight(n, u) = Flight(o, u)
<1>1. /\ n.kind = o.kind /\ n.on = o.on /\ n.bytes = o.bytes /\ n.then = o.then
      /\ o.on \in Trackers /\ o.then = NoOp
  BY OpIs DEF Alike
<1>2. Pending(n, u) = Pending(o, u)
  <2>1. CASE u \notin Above(o.on)
    BY <1>1, <2>1, PendingOff
  <2>2. CASE u \in Above(o.on)
    <3>0. \A w : w \in Above(o.on) <=> \E i \in 1..Len(Path(o.on)) : w = Path(o.on)[i]
      BY <1>1, PathIs
    <3>1. PICK i \in 1..Len(Path(o.on)) : u = Path(o.on)[i]
      BY <2>2, <3>0
    <3>2. Pending(o, u) = IF i > o.at THEN o.bytes ELSE 0
      BY <3>1, PendingAt
    <3>3. Pending(n, u) = IF i > o.at THEN o.bytes ELSE 0
      BY <1>1, <3>1, PendingAt
    <3>. QED  BY <3>2, <3>3
  <2>. QED  BY <2>1, <2>2
<1>. QED  BY <1>1, <1>2, FlightIs

LEMMA RollFlight ==
  ASSUME NEW o, GoodOp(o), o # NoOp, o.kind = "TryConsume", o.do # "max",
         NEW n, GoodOp(n),
         \/ o.at = Len(Path(o.on)) /\ n = NoOp
         \/ /\ n # NoOp /\ n.kind = "rollback" /\ n.on = o.on /\ n.bytes = o.bytes
            /\ n.do = "add" /\ n.stop = o.at /\ n.at = Len(Path(o.on)) /\ n.then = NoOp,
         NEW u
  PROVE  Flight(n, u) = Flight(o, u)
<1>1. o.on \in Trackers /\ o.then = NoOp /\ o.at \in 1..Len(Path(o.on))
  BY OpIs
<1>2. Len(Path(o.on)) \in Nat
  BY <1>1, PathIs
<1>3. Flight(o, u) = Pending(o, u)
  BY <1>1, FlightIs
<1>4. Flight(n, u) = Pending(n, u)
  <2>1. CASE n = NoOp
    BY <2>1, FlightIs, PendingOff
  <2>2. CASE n # NoOp
    BY <2>2, FlightIs
  <2>. QED  BY <2>1, <2>2
<1>5. CASE u \notin Above(o.on)
  BY <1>3, <1>4, <1>5, PendingOff
<1>6. CASE u \in Above(o.on)
  <2>1. PICK i \in 1..Len(Path(o.on)) : u = Path(o.on)[i]
    BY <1>1, <1>6, PathIs
  <2>2. i \in Int /\ o.at \in Int /\ i <= Len(Path(o.on))
    BY <1>1, <1>2, <2>1
  <2>3. Pending(o, u) = IF i > o.at THEN o.bytes ELSE 0
    BY <2>1, PendingAt
  <2>4. CASE o.at = Len(Path(o.on)) /\ n = NoOp
    <3>1. Pending(o, u) = 0
      BY <1>2, <2>2, <2>3, <2>4
    <3>. QED  BY <1>3, <1>4, <2>4, <3>1, PendingOff
  <2>5. CASE n # NoOp /\ n.kind = "rollback" /\ n.on = o.on
    <3>0. n.bytes = o.bytes /\ n.do = "add" /\ n.stop = o.at /\ n.at = Len(Path(o.on))
      BY <2>5
    <3>1. Pending(n, u) = IF i > n.stop /\ (i < n.at \/ (i = n.at /\ n.do # "max"))
                          THEN n.bytes ELSE 0
      BY <2>1, <2>5, PendingAt
    <3>2. n.do # "max" /\ (i < n.at \/ i = n.at)
      BY <1>2, <2>2, <3>0
    <3>3. Pending(n, u) = IF i > o.at THEN o.bytes ELSE 0
      BY <3>0, <3>1, <3>2
    <3>. QED  BY <1>3, <1>4, <2>3, <3>3
  <2>. QED  BY <2>4, <2>5
<1>. QED  BY <1>5, <1>6

LEMMA TurnStep ==
  ASSUME CallInv, NEW p \in Threads, op[p].kind = "TryConsume", op[p].do # "max",
         UNCHANGED <<consumption, peak, held, cache, highest>>,
         \/ op' = RollBack(p)
         \/ \E d \in {"gc", "check", "retry"} : op' = [op EXCEPT ![p].do = d]
  PROVE  CallInv' /\ Settled(p) /\ PeakQuiet(p)
<1>1. GoodOp(op[p]) /\ op[p] # NoOp /\ op[p].on \in Trackers
  <2>1. op[p] # NoOp
    BY DEF NoOp
  <2>. QED  BY <2>1, OpIs DEF CallInv
<1>2. \E n : /\ Becomes(p, n) /\ GoodOp(n) /\ MaxQuiet(n)
             /\ \A u \in Trackers : Flight(n, u) = Flight(op[p], u)
  <2>1. CASE op' = RollBack(p)
    <3>1. PICK n : /\ Becomes(p, n) /\ GoodOp(n)
                   /\ \/ op[p].at = Len(Path(op[p].on)) /\ n = NoOp
                      \/ /\ n # NoOp /\ n.kind = "rollback" /\ n.on = op[p].on
                         /\ n.bytes = op[p].bytes /\ n.do = "add" /\ n.stop = op[p].at
                         /\ n.at = Len(Path(op[p].on)) /\ n.then = NoOp
      <4>1. GoodOp(NoOp)
        BY DEF GoodOp
      <4>. QED  BY <2>1, <4>1, RollBackIs
    <3>2. \A u \in Trackers : Flight(n, u) = Flight(op[p], u)
      BY <1>1, <3>1, RollFlight
    <3>3. MaxQuiet(n)
      BY <3>1 DEF MaxQuiet
    <3>. QED  BY <3>1, <3>2, <3>3
  <2>2. ASSUME NEW d \in {"gc", "check", "retry"}, op' = [op EXCEPT ![p].do = d]
        PROVE  \E n : /\ Becomes(p, n) /\ GoodOp(n) /\ MaxQuiet(n)
                      /\ \A u \in Trackers : Flight(n, u) = Flight(op[p], u)
    <3>1. PICK n : n = [op[p] EXCEPT !.do = d]
      OBVIOUS
    <3>2. Becomes(p, n)
      BY <2>2, <3>1 DEF Becomes
    <3>3. GoodOp(n) /\ n # NoOp /\ Alike(op[p], n) /\ n.at = op[p].at /\ n.do = d
      BY <3>1, TurnsTo
    <3>4. n.do # "max"
      BY <3>3
    <3>5. \A u \in Trackers : Flight(n, u) = Flight(op[p], u)
      BY <1>1, <3>3, <3>4, TurnFlight
    <3>. QED  BY <3>2, <3>3, <3>4, <3>5 DEF MaxQuiet
  <2>. QED  BY <2>1, <2>2
<1>3. PICK n : /\ Becomes(p, n) /\ GoodOp(n) /\ MaxQuiet(n)
               /\ \A u \in Trackers : Flight(n, u) = Flight(op[p], u)
  BY <1>2
<1>4. peak' \in [Trackers -> Int]
  BY DEF CallInv, TypeOK
<1>5. /\ CallInv' /\ Settled(p) /\ op'[p] = n
      /\ \A q \in Threads \ {p} : op'[q] = op[q]
  BY <1>1, <1>3, <1>4, FlightKept
<1>. QED  BY <1>3, <1>5 DEF PeakQuiet, MaxQuiet

(* A collection: the bytes leave the cache and are in flight.              *)
LEMMA GcStep ==
  ASSUME CallInv, NEW p \in Threads, NEW t \in Trackers, NEW goal, NEW then,
         \/ then = NoOp
         \/ GoodCall(then) /\ then.kind = "TryConsume" /\ then.do \in {"check", "retry"},
         MaxQuiet(op[p]), \A u \in Trackers : Flight(then, u) = Flight(op[p], u),
         GcMemory(p, t, goal, then),
         UNCHANGED <<consumption, peak, held, highest>>
  PROVE  CallInv' /\ Settled(p) /\ PeakQuiet(p)
<1>1. PICK b \in Nat :
           /\ cache' = [cache EXCEPT ![t] = @ - b] /\ b <= cache[t]
           /\ \/ b = 0 /\ Becomes(p, then) /\ GoodOp(then)
              \/ \E n : /\ Becomes(p, n) /\ GoodOp(n) /\ n # NoOp /\ n.kind = "gc"
                        /\ n.on = t /\ n.bytes = b /\ n.at = 1 /\ n.do = "add"
                        /\ n.then = then
  BY GcMemoryIs
<1>2. cache \in [Trackers -> Nat] /\ cache' \in [Trackers -> Nat]
  <2>1. cache \in [Trackers -> Nat]
    BY DEF CallInv, TypeOK
  <2>2. cache[t] - b \in Nat
    BY <1>1, <2>1
  <2>. QED  BY <1>1, <2>1, <2>2
<1>3. PICK n : /\ Becomes(p, n) /\ GoodOp(n) /\ MaxQuiet(n)
               /\ \A u \in Trackers :
                    Flight(n, u) = Flight(op[p], u) + (IF u \in Above(t) THEN b ELSE 0)
  <2>0. ASSUME NEW u \in Trackers PROVE Flight(op[p], u) \in Int
    BY FlightIs DEF CallInv
  <2>1. CASE b = 0 /\ Becomes(p, then) /\ GoodOp(then)
    <3>1. MaxQuiet(then)
      BY DEF MaxQuiet
    <3>2. ASSUME NEW u \in Trackers
          PROVE  Flight(then, u) = Flight(op[p], u) + (IF u \in Above(t) THEN b ELSE 0)
      BY <2>0, <2>1
    <3>. QED  BY <2>1, <3>1, <3>2
  <2>2. ASSUME NEW n, Becomes(p, n), GoodOp(n), n # NoOp, n.kind = "gc", n.on = t,
               n.bytes = b, n.at = 1, n.do = "add", n.then = then
        PROVE  /\ MaxQuiet(n)
               /\ \A u \in Trackers :
                    Flight(n, u) = Flight(op[p], u) + (IF u \in Above(t) THEN b ELSE 0)
    <3>1. n.do # "max"
      BY <2>2
    <3>2. ASSUME NEW u \in Trackers
          PROVE  Flight(n, u) = Flight(op[p], u) + (IF u \in Above(t) THEN b ELSE 0)
      <4>1. Pending(n, u) = IF u \in Above(t) THEN b ELSE 0
        <5>1. CASE u \notin Above(t)
          BY <2>2, <5>1, PendingOff
        <5>2. CASE u \in Above(t)
          <6>1. PICK i \in 1..Len(Path(n.on)) : u = Path(n.on)[i]
            BY <2>2, <5>2, PathIs
          <6>2. Len(Path(n.on)) \in Nat
            BY <2>2, PathIs
          <6>3. i > n.at \/ (i = n.at /\ n.do # "max")
            BY <2>2, <3>1, <6>1, <6>2
          <6>. QED  BY <2>2, <5>2, <6>1, <6>3, PendingAt
        <5>. QED  BY <5>1, <5>2
      <4>2. Flight(then, u) = Pending(then, u) /\ Flight(then, u) = Flight(op[p], u)
        BY <2>2, FlightIs
      <4>3. Flight(n, u) = Pending(n, u) + Pending(then, u)
        BY <2>2 DEF Flight
      <4>4. Flight(op[p], u) \in Int
        BY <2>0
      <4>5. Flight(n, u) = Flight(op[p], u) + Pending(n, u)
        <5>1. PICK x \in Int : x = Pending(n, u)
          BY <2>2, PendingIsInt
        <5>2. PICK y \in Int : y = Flight(op[p], u)
          BY <4>4
        <5>3. Flight(n, u) = x + y
          BY <4>2, <4>3, <5>1, <5>2
        <5>. QED  BY <5>1, <5>2, <5>3
      <4>. QED  BY <4>1, <4>5
    <3>. QED  BY <3>1, <3>2 DEF MaxQuiet
  <2>. QED  BY <1>1, <2>1, <2>2
<1>4. CallInv' /\ op'[p] = n /\ \A q \in Threads \ {p} : op'[q] = op[q]
  <2>1. consumption' \in [Trackers -> Int] /\ peak' \in [Trackers -> Int]
        /\ held' \in [Threads -> [Trackers -> Nat]] /\ highest' \in [Trackers -> Int]
    BY DEF CallInv, TypeOK
  <2>. QED  BY <1>2, <1>3, <2>1, CallKept
<1>5. PICK d \in Int : d = - b
  BY <1>1
<1>6. ASSUME NEW u \in Trackers
      PROVE  cache'[u] + HeldOn(u)' = cache[u] + HeldOn(u) + (IF u = t THEN d ELSE 0)
  <2>1. HeldOn(u) \in Int /\ cache[u] \in Int /\ HeldOn(u)' = HeldOn(u)
    BY HeldIsInt, HeldStays
  <2>2. cache'[u] = IF u = t THEN cache[u] - b ELSE cache[u]
    BY <1>1, <1>2
  <2>. QED  BY <1>1, <1>5, <2>1, <2>2
<1>7. ASSUME NEW u \in Trackers
      PROVE  consumption'[u] = consumption[u] + Flight(op'[p], u) - Flight(op[p], u)
                                 + (IF u \in Above(t) THEN d ELSE 0)
  <2>1. consumption[u] \in Int /\ consumption'[u] = consumption[u]
    BY DEF CallInv, TypeOK
  <2>2. /\ Flight(op[p], u) \in Int
        /\ Flight(op'[p], u) = Flight(op[p], u) + (IF u \in Above(t) THEN b ELSE 0)
    BY <1>3, <1>4, FlightIs DEF CallInv
  <2>. QED  BY <1>1, <1>5, <2>1, <2>2
<1>8. Settled(p)
  BY <1>4, <1>5, <1>6, <1>7 DEF Settles, Settled
<1>. QED  BY <1>3, <1>4, <1>8 DEF PeakQuiet

(* UpdateMax() of p on t with v.                                           *)
PeakUpdates(p, t, v) ==
  /\ highest' = highest /\ peak' = [peak EXCEPT ![t] = Max({@, v})]
  /\ op[p] # NoOp /\ op[p].do = "max" /\ Visited(op[p]) = t /\ op[p].value = v
  /\ MaxQuiet(op'[p]) /\ \A q \in Threads \ {p} : op'[q] = op[q]

(* On to the next tracker: what was added there stays added.               *)
LEMMA NextFlight ==
  ASSUME NEW o, GoodOp(o), o # NoOp, o.do = "max", o.at # LastIndex(o),
         NEW n, GoodOp(n), n # NoOp, Alike(o, n), n.at = NextIndex(o), n.do = "add",
         NEW u
  PROVE  Flight(n, u) = Flight(o, u)
<1>1. /\ o.kind \in {"Consume", "Release", "TryConsume", "rollback", "gc"}
      /\ o.on \in Trackers /\ o.at \in 1..Len(Path(o.on))
      /\ o.stop \in Nat /\ n.do # "max"
  BY OpIs
<1>2. /\ n.kind = o.kind /\ n.on = o.on /\ n.bytes = o.bytes /\ n.stop = o.stop
      /\ n.then = o.then
  BY DEF Alike
<1>3. /\ Len(Path(o.on)) \in Nat
      /\ \A w : w \in Above(o.on) <=> \E i \in 1..Len(Path(o.on)) : w = Path(o.on)[i]
  BY <1>1, PathIs
<1>4. Pending(n, u) = Pending(o, u)
  <2>1. CASE u \notin Above(o.on)
    BY <1>2, <2>1, PendingOff
  <2>2. CASE u \in Above(o.on)
    <3>1. PICK i \in 1..Len(Path(o.on)) : u = Path(o.on)[i]
      BY <1>3, <2>2
    <3>2. i \in Int /\ o.at \in Int /\ o.stop \in Int
      BY <1>1, <1>3, <3>1
    <3>3. CASE o.kind = "Consume"
      <4>1. n.at = o.at + 1
        BY <3>3 DEF NextIndex
      <4>2. Pending(o, u) = IF i < o.at \/ i = o.at THEN o.bytes ELSE 0
        BY <3>1, <3>3, PendingAt
      <4>3. Pending(n, u) = IF i < n.at THEN n.bytes ELSE 0
        BY <1>1, <1>2, <3>1, <3>3, PendingAt
      <4>. QED  BY <1>2, <3>2, <4>1, <4>2, <4>3
    <3>4. CASE o.kind = "TryConsume"
      <4>1. n.at = o.at - 1
        BY <3>4 DEF NextIndex
      <4>2. Pending(o, u) = IF i > o.at \/ i = o.at THEN o.bytes ELSE 0
        BY <3>1, <3>4, PendingAt
      <4>3. Pending(n, u) = IF i > n.at THEN n.bytes ELSE 0
        BY <1>1, <1>2, <3>1, <3>4, PendingAt
      <4>. QED  BY <1>2, <3>2, <4>1, <4>2, <4>3
    <3>5. CASE o.kind \in {"Release", "gc"}
      <4>1. n.at = o.at + 1
        BY <3>5 DEF NextIndex
      <4>2. Pending(o, u) = IF i > o.at THEN o.bytes ELSE 0
        BY <3>1, <3>5, PendingAt
      <4>3. Pending(n, u) = IF i > n.at \/ i = n.at THEN n.bytes ELSE 0
        BY <1>1, <1>2, <3>1, <3>5, PendingAt
      <4>. QED  BY <1>2, <3>2, <4>1, <4>2, <4>3
    <3>6. CASE o.kind = "rollback"
      <4>1. n.at = o.at - 1
        BY <3>6 DEF NextIndex
      <4>2. Pending(o, u) = IF i > o.stop /\ i < o.at THEN o.bytes ELSE 0
        BY <3>1, <3>6, PendingAt
      <4>3. Pending(n, u) = IF i > n.stop /\ (i < n.at \/ i = n.at) THEN n.bytes ELSE 0
        BY <1>1, <1>2, <3>1, <3>6, PendingAt
      <4>. QED  BY <1>2, <3>2, <4>1, <4>2, <4>3
    <3>. QED  BY <1>1, <3>3, <3>4, <3>5, <3>6
  <2>. QED  BY <2>1, <2>2
<1>. QED  BY <1>2, <1>4 DEF Flight

(* At the end of a call that consumed, its bytes are added to every        *)
(* tracker of the path; at the end of one that released, to none.          *)
LEMMA LastFlight ==
  ASSUME NEW o, GoodOp(o), o # NoOp, o.do = "max", o.at = LastIndex(o), NEW u
  PROVE  Flight(o, u) = Flight(o.then, u)
           + (IF o.kind \in {"Consume", "TryConsume"} /\ u \in Above(o.on)
              THEN o.bytes ELSE 0)
<1>1. /\ o.kind \in {"Consume", "Release", "TryConsume", "rollback", "gc"}
      /\ o.on \in Trackers /\ o.at \in 1..Len(Path(o.on))
      /\ o.stop \in Nat /\ o.bytes \in Nat
  BY OpIs
<1>3. /\ Len(Path(o.on)) \in Nat
      /\ \A w : w \in Above(o.on) <=> \E i \in 1..Len(Path(o.on)) : w = Path(o.on)[i]
  BY <1>1, PathIs
<1>4. Pending(o, u) = IF o.kind \in {"Consume", "TryConsume"} /\ u \in Above(o.on)
                      THEN o.bytes ELSE 0
  <2>1. CASE u \notin Above(o.on)
    BY <2>1, PendingOff
  <2>2. CASE u \in Above(o.on)
    <3>1. PICK i \in 1..Len(Path(o.on)) : u = Path(o.on)[i]
      BY <1>3, <2>2
    <3>2. i \in Int /\ o.at \in Int /\ o.stop \in Int /\ 1 <= i /\ i <= Len(Path(o.on))
      BY <1>1, <1>3, <3>1
    <3>3. CASE o.kind = "Consume"
      <4>1. o.at = Len(Path(o.on))
        BY <3>3 DEF LastIndex
      <4>2. Pending(o, u) = IF i < o.at \/ i = o.at THEN o.bytes ELSE 0
        BY <3>1, <3>3, PendingAt
      <4>3. i < o.at \/ i = o.at
        BY <1>3, <3>2, <4>1
      <4>. QED  BY <2>2, <3>3, <4>2, <4>3
    <3>4. CASE o.kind = "TryConsume"
      <4>1. o.at = 1
        BY <3>4 DEF LastIndex
      <4>2. Pending(o, u) = IF i > o.at \/ i = o.at THEN o.bytes ELSE 0
        BY <3>1, <3>4, PendingAt
      <4>3. i > o.at \/ i = o.at
        BY <3>2, <4>1
      <4>. QED  BY <2>2, <3>4, <4>2, <4>3
    <3>5. CASE o.kind \in {"Release", "gc"}
      <4>1. o.at = Len(Path(o.on))
        BY <3>5 DEF LastIndex
      <4>2. Pending(o, u) = IF i > o.at THEN o.bytes ELSE 0
        BY <3>1, <3>5, PendingAt
      <4>3. ~(i > o.at)
        BY <1>3, <3>2, <4>1
      <4>4. o.kind \notin {"Consume", "TryConsume"}
        BY <3>5
      <4>. QED  BY <4>2, <4>3, <4>4
    <3>6. CASE o.kind = "rollback"
      <4>1. o.at = o.stop + 1
        BY <3>6 DEF LastIndex
      <4>2. Pending(o, u) = IF i > o.stop /\ i < o.at THEN o.bytes ELSE 0
        BY <3>1, <3>6, PendingAt
      <4>3. ~(i > o.stop /\ i < o.at)
        BY <3>2, <4>1
      <4>4. o.kind \notin {"Consume", "TryConsume"}
        BY <3>6
      <4>. QED  BY <4>2, <4>3, <4>4
    <3>. QED  BY <1>1, <3>3, <3>4, <3>5, <3>6
  <2>. QED  BY <2>1, <2>2
<1>5. Flight(o, u) = Pending(o, u) + Pending(o.then, u)
  BY DEF Flight
<1>6. GoodOp(o.then) /\ Flight(o.then, u) = Pending(o.then, u) /\ Flight(o.then, u) \in Int
  BY FlightIs
<1>7. PICK x \in Int : x = Pending(o, u)
  BY PendingIsInt
<1>8. Flight(o, u) = Flight(o.then, u) + x
  <2>1. PICK y \in Int : y = Flight(o.then, u)
    BY <1>6
  <2>2. Flight(o, u) = x + y
    BY <1>5, <1>6, <1>7, <2>1
  <2>. QED  BY <2>1, <2>2
<1>. QED  BY <1>4, <1>7, <1>8

LEMMA MaxStep ==
  ASSUME CallInv, NEW p \in Threads, UpdateMax(p)
  PROVE  /\ CallInv' /\ Settled(p)
         /\ \E t \in Trackers, v \in Int : PeakUpdates(p, t, v)
<1>1. PICK o : o = op[p]
  OBVIOUS
<1>2. /\ o # NoOp /\ o.do = "max" /\ GoodOp(o)
      /\ \/ o.at = LastIndex(o) /\ Becomes(p, o.then) /\ GoodOp(o.then)
         \/ /\ o.at # LastIndex(o) /\ held' = held
            /\ \E n : /\ Becomes(p, n) /\ GoodOp(n) /\ n # NoOp /\ Alike(o, n)
                      /\ n.at = NextIndex(o) /\ n.do = "add"
  BY <1>1, UpdateMaxIs DEF CallInv
<1>3. /\ o.on \in Trackers /\ o.bytes \in Nat \ {0} /\ Visited(o) \in Trackers
      /\ o.value \in Int
  BY <1>2, OpIs
<1>4. PICK t \in Trackers : t = Visited(o)
  BY <1>3
<1>5. PICK v \in Int : v = o.value
  BY <1>3
<1>6. /\ peak' = [peak EXCEPT ![t] = Max({peak[t], v})]
      /\ UNCHANGED <<consumption, cache, highest>>
  BY <1>1, <1>4, <1>5 DEF UpdateMax
<1>7. /\ consumption' \in [Trackers -> Int] /\ peak' \in [Trackers -> Int]
      /\ cache' \in [Trackers -> Nat] /\ highest' \in [Trackers -> Int]
  <2>1. consumption \in [Trackers -> Int] /\ peak \in [Trackers -> Int]
        /\ cache \in [Trackers -> Nat] /\ highest \in [Trackers -> Int]
    BY DEF CallInv, TypeOK
  <2>2. Max({peak[t], v}) \in Int
    BY <2>1, MaxIs
  <2>. QED  BY <1>6, <2>1, <2>2
<1>8. MaxQuiet(o.then)
  <2>1. CASE o.kind = "gc"
    BY <1>2, <2>1, OpIs DEF GoodGc, MaxQuiet
  <2>2. CASE o.kind # "gc"
    BY <1>2, <2>2, OpIs DEF MaxQuiet
  <2>. QED  BY <2>1, <2>2
<1>9. CASE /\ o.at # LastIndex(o) /\ held' = held
           /\ \E n : /\ Becomes(p, n) /\ GoodOp(n) /\ n # NoOp /\ Alike(o, n)
                     /\ n.at = NextIndex(o) /\ n.do = "add"
  <2>1. PICK n : /\ Becomes(p, n) /\ GoodOp(n) /\ n # NoOp /\ Alike(o, n)
                 /\ n.at = NextIndex(o) /\ n.do = "add"
    BY <1>9
  <2>2. \A u \in Trackers : Flight(n, u) = Flight(op[p], u)
    BY <1>1, <1>2, <1>9, <2>1, NextFlight
  <2>3. /\ CallInv' /\ Settled(p) /\ op'[p] = n
        /\ \A q \in Threads \ {p} : op'[q] = op[q]
    BY <1>3, <1>6, <1>7, <1>9, <2>1, <2>2, FlightKept
  <2>4. n.do # "max"
    BY <2>1
  <2>. QED  BY <1>1, <1>2, <1>4, <1>5, <1>6, <2>3, <2>4 DEF PeakUpdates, MaxQuiet
<1>10. CASE o.at = LastIndex(o) /\ Becomes(p, o.then) /\ GoodOp(o.then)
  <2>0. held \in [Threads -> [Trackers -> Nat]] /\ held[p][o.on] \in Nat
    BY <1>3 DEF CallInv, TypeOK
  <2>1. PICK d \in Int : d = IF o.kind \in {"Consume", "TryConsume"} THEN o.bytes ELSE 0
    BY <1>3
  <2>2. /\ held' \in [Threads -> [Trackers -> Nat]]
        /\ \A q \in Threads \ {p} : held'[q] = held[q]
        /\ \A u \in Trackers \ {o.on} : held'[p][u] = held[p][u]
        /\ held'[p][o.on] = held[p][o.on] + d
    <3>1. CASE o.kind \in {"Consume", "TryConsume"}
      <4>1. PICK w \in Nat : w = held[p][o.on] + o.bytes
        BY <1>3, <2>0
      <4>2. held' = [held EXCEPT ![p][o.on] = w]
        BY <1>1, <1>10, <3>1, <4>1 DEF UpdateMax
      <4>3. held'[p][o.on] = w /\ w = held[p][o.on] + d
            /\ held' \in [Threads -> [Trackers -> Nat]]
        <5>1. o.on \in Trackers /\ CallInv
          BY <1>3
        <5>2. PICK u \in Trackers : u = o.on
          BY <5>1
        <5>3. held' = [held EXCEPT ![p][u] = w]
          BY <4>2, <5>2
        <5>4. held'[p][u] = w /\ held' \in [Threads -> [Trackers -> Nat]]
          BY <5>1, <5>3, HeldSet
        <5>. QED  BY <2>1, <3>1, <4>1, <5>2, <5>4
      <4>4. \A u \in Trackers \ {o.on} : held'[p][u] = held[p][u]
        BY <1>3, <4>1, <4>2, HeldSet
      <4>5. \A q \in Threads \ {p} : held'[q] = held[q]
        BY <1>3, <4>1, <4>2, HeldSet
      <4>. QED  BY <4>3, <4>4, <4>5
    <3>2. CASE o.kind \notin {"Consume", "TryConsume"}
      <4>1. held' = held
        BY <1>1, <1>10, <3>2 DEF UpdateMax
      <4>. QED  BY <2>0, <2>1, <3>2, <4>1
    <3>. QED  BY <3>1, <3>2
  <2>3. CallInv' /\ op'[p] = o.then /\ \A q \in Threads \ {p} : op'[q] = op[q]
    BY <1>7, <1>10, <2>2, CallKept
  <2>4. ASSUME NEW u \in Trackers
        PROVE  cache'[u] + HeldOn(u)' = cache[u] + HeldOn(u) + (IF u = o.on THEN d ELSE 0)
    <3>1. HeldOn(u)' = HeldOn(u) + (IF u = o.on THEN d ELSE 0)
      BY <1>3, <2>2, <2>3, HeldMoves
    <3>2. HeldOn(u) \in Int /\ cache[u] \in Int /\ cache'[u] = cache[u]
      BY <1>6, HeldIsInt
    <3>. QED  BY <2>1, <3>1, <3>2
  <2>5. ASSUME NEW u \in Trackers
        PROVE  consumption'[u] = consumption[u] + Flight(op'[p], u) - Flight(op[p], u)
                                   + (IF u \in Above(o.on) THEN d ELSE 0)
    <3>1. consumption[u] \in Int /\ consumption'[u] = consumption[u]
      BY <1>6 DEF CallInv, TypeOK
    <3>2. Flight(o, u) = Flight(o.then, u) + (IF u \in Above(o.on) THEN d ELSE 0)
      <4>1. Flight(o, u) = Flight(o.then, u)
              + (IF o.kind \in {"Consume", "TryConsume"} /\ u \in Above(o.on)
                 THEN o.bytes ELSE 0)
        BY <1>2, <1>10, LastFlight
      <4>. QED  BY <2>1, <4>1
    <3>3. Flight(o.then, u) \in Int
      BY <1>10, FlightIs
    <3>4. op'[p] = o.then /\ op[p] = o
      BY <1>1, <2>3
    <3>. QED  BY <2>1, <3>1, <3>2, <3>3, <3>4
  <2>6. Settled(p)
    BY <1>3, <2>1, <2>3, <2>4, <2>5 DEF Settles, Settled
  <2>7. PeakUpdates(p, t, v)
    BY <1>1, <1>2, <1>4, <1>5, <1>6, <1>8, <2>3 DEF PeakUpdates
  <2>. QED  BY <2>3, <2>6, <2>7
<1>. QED  BY <1>2, <1>9, <1>10

-----------------------------------------------------------------------------
(* Every step is one of these.                                             *)
PeakMoves(p) ==
  \/ PeakQuiet(p)
  \/ \E t \in Trackers, v \in Int : PeakAdds(p, t, v)
  \/ \E t \in Trackers, v \in Int : PeakUpdates(p, t, v)

LEMMA IncrementStep ==
  ASSUME CallInv, NEW p \in Threads, Increment(p)
  PROVE  /\ CallInv' /\ Settled(p) /\ PeakMoves(p)
         /\ op[p] # NoOp /\ op'[p] # op[p]
         /\ \E d \in Int : AddTo(p, d) /\ (op[p].kind # "Consume" => d < 0)
<1>1. op[p] # NoOp /\ op[p].do # "max" /\ op[p].kind # "TryConsume"
  BY DEF Increment, NoOp
<1>2. op[p].bytes \in Nat \ {0}
  BY <1>1, OpIs DEF CallInv
<1>3. PICK d \in Int : d = IF op[p].kind = "Consume" THEN op[p].bytes ELSE - op[p].bytes
  BY <1>2
<1>4. AddTo(p, d) /\ (op[p].kind # "Consume" => d < 0)
  BY <1>2, <1>3 DEF Increment
<1>5. d = IF op[p].kind \in {"Consume", "TryConsume"} THEN op[p].bytes ELSE - op[p].bytes
  BY <1>1, <1>3
<1>6. CallInv' /\ Settled(p) /\ \E t \in Trackers, v \in Int : PeakAdds(p, t, v)
  BY <1>1, <1>4, <1>5, AddStep
<1>7. op'[p] # op[p]
  BY <1>1, <1>6 DEF PeakAdds
<1>. QED  BY <1>1, <1>4, <1>6, <1>7 DEF PeakMoves

(* TryIncrementBy(), the first time or the second.                         *)
LEMMA TryStep ==
  ASSUME CallInv, NEW p \in Threads, TryIncrement(p) \/ TryAgain(p)
  PROVE  /\ CallInv' /\ Settled(p) /\ PeakMoves(p)
         /\ \/ UNCHANGED consumption
            \/ \E d \in Int : /\ AddTo(p, d) /\ op[p] # NoOp /\ d = op[p].bytes
                              /\ Fits(Visited(op[p]), op[p].bytes)
<1>1. op[p] # NoOp /\ op[p].do # "max" /\ op[p].kind = "TryConsume"
  BY DEF TryIncrement, TryAgain, NoOp
<1>2. op[p].bytes \in Nat \ {0}
  BY <1>1, OpIs DEF CallInv
<1>3. CASE Fits(Visited(op[p]), op[p].bytes) /\ AddTo(p, op[p].bytes)
  <2>1. PICK d \in Int : d = op[p].bytes
    BY <1>2
  <2>2. AddTo(p, d)
    BY <1>3, <2>1
  <2>3. d = IF op[p].kind \in {"Consume", "TryConsume"} THEN op[p].bytes ELSE - op[p].bytes
    BY <1>1, <2>1
  <2>4. CallInv' /\ Settled(p) /\ \E t \in Trackers, v \in Int : PeakAdds(p, t, v)
    BY <1>1, <2>2, <2>3, AddStep
  <2>. QED  BY <1>1, <1>3, <2>1, <2>2, <2>4 DEF PeakMoves
<1>4. CASE UNCHANGED <<consumption, peak, held, cache, highest>>
  <2>1. \/ op' = RollBack(p)
        \/ \E d \in {"gc", "check", "retry"} : op' = [op EXCEPT ![p].do = d]
        \/ AddTo(p, op[p].bytes) /\ Fits(Visited(op[p]), op[p].bytes)
    BY DEF TryIncrement, TryAgain
  <2>2. CASE \/ op' = RollBack(p)
             \/ \E d \in {"gc", "check", "retry"} : op' = [op EXCEPT ![p].do = d]
    <3>1. CallInv' /\ Settled(p) /\ PeakQuiet(p)
      BY <1>1, <1>4, <2>2, TurnStep
    <3>. QED  BY <1>4, <3>1 DEF PeakMoves
  <2>. QED  BY <1>3, <2>1, <2>2
<1>. QED  BY <1>3, <1>4 DEF TryIncrement, TryAgain

LEMMA VerdictStep ==
  ASSUME CallInv, NEW p \in Threads, GcVerdict(p)
  PROVE  CallInv' /\ Settled(p) /\ PeakQuiet(p) /\ UNCHANGED consumption
<1>1. op[p].do # "max" /\ op[p].kind = "TryConsume"
      /\ UNCHANGED <<consumption, peak, held, cache, highest>>
  BY DEF GcVerdict
<1>2. \/ op' = RollBack(p)
      \/ \E d \in {"gc", "check", "retry"} : op' = [op EXCEPT ![p].do = d]
  BY DEF GcVerdict
<1>. QED  BY <1>1, <1>2, TurnStep

LEMMA TryGcStep ==
  ASSUME CallInv, NEW p \in Threads, TryGc(p)
  PROVE  CallInv' /\ Settled(p) /\ PeakQuiet(p) /\ UNCHANGED consumption
<1>1. /\ op[p].do # "max" /\ op[p].kind = "TryConsume" /\ op[p] # NoOp
      /\ UNCHANGED <<consumption, peak, held, highest>>
  BY DEF TryGc, NoOp
<1>2. GoodOp(op[p]) /\ op[p].on \in Trackers /\ Visited(op[p]) \in Trackers
  BY <1>1, OpIs DEF CallInv
<1>3. CASE op' = RollBack(p) /\ UNCHANGED cache
  BY <1>1, <1>3, TurnStep
<1>4. CASE \E goal : GcMemory(p, Visited(op[p]), goal,
                       [op[p] EXCEPT !.do = IF consumption[Visited(op[p])] < goal
                                            THEN "retry" ELSE "check"])
  <2>1. PICK goal : GcMemory(p, Visited(op[p]), goal,
                       [op[p] EXCEPT !.do = IF consumption[Visited(op[p])] < goal
                                            THEN "retry" ELSE "check"])
    BY <1>4
  <2>2. PICK d \in {"gc", "check", "retry"} :
            d = IF consumption[Visited(op[p])] < goal THEN "retry" ELSE "check"
    OBVIOUS
  <2>3. PICK n : n = [op[p] EXCEPT !.do = d]
    OBVIOUS
  <2>4. /\ GoodOp(n) /\ n # NoOp /\ GoodCall(n) /\ Alike(op[p], n)
        /\ n.at = op[p].at /\ n.do = d
    BY <1>1, <2>3, TurnsTo
  <2>5. n.do \in {"check", "retry"} /\ n.kind = "TryConsume"
    BY <1>1, <2>2, <2>4 DEF Alike
  <2>6. n.do # "max"
    BY <2>5
  <2>7. \A u \in Trackers : Flight(n, u) = Flight(op[p], u)
    BY <1>1, <1>2, <2>4, <2>6, TurnFlight
  <2>8. MaxQuiet(op[p])
    BY <1>1 DEF MaxQuiet
  <2>9. GcMemory(p, Visited(op[p]), goal, n)
    BY <2>1, <2>2, <2>3
  <2>. QED  BY <1>1, <1>2, <2>4, <2>5, <2>7, <2>8, <2>9, GcStep
<1>. QED  BY <1>3, <1>4 DEF TryGc

LEMMA LimitStep ==
  ASSUME CallInv, NEW p \in Threads, NEW t \in Trackers, LimitExceeded(p, t)
  PROVE  CallInv' /\ Settled(p) /\ PeakQuiet(p) /\ UNCHANGED consumption
<1>1. op[p] = NoOp /\ UNCHANGED <<consumption, peak, held, highest>>
  BY DEF LimitExceeded
<1>2. PICK goal : GcMemory(p, t, goal, NoOp)
  BY DEF LimitExceeded
<1>3. MaxQuiet(op[p]) /\ \A u \in Trackers : Flight(NoOp, u) = Flight(op[p], u)
  BY <1>1 DEF MaxQuiet
<1>. QED  BY <1>1, <1>2, <1>3, GcStep

(* One lemma for all of them.                                              *)
LEMMA EveryStep ==
  ASSUME CallInv, NEW p \in Threads,
         \/ \E t \in Trackers :
              \/ \E b \in Amounts : Consume(p, t, b) \/ TryConsume(p, t, b)
                                    \/ Release(p, t, b)
              \/ PutInCache(p, t) \/ LimitExceeded(p, t)
         \/ Increment(p) \/ TryIncrement(p) \/ TryGc(p) \/ GcVerdict(p) \/ TryAgain(p)
         \/ UpdateMax(p)
  PROVE  CallInv' /\ Settled(p) /\ PeakMoves(p)
<1>1. ASSUME NEW t \in Trackers, NEW b \in Amounts, Consume(p, t, b) \/ TryConsume(p, t, b)
      PROVE  CallInv' /\ Settled(p) /\ PeakMoves(p)
  BY <1>1, StartStep DEF PeakMoves
<1>2. ASSUME NEW t \in Trackers, NEW b \in Amounts, Release(p, t, b)
      PROVE  CallInv' /\ Settled(p) /\ PeakMoves(p)
  BY <1>2, ReleaseStep DEF PeakMoves
<1>3. ASSUME NEW t \in Trackers, PutInCache(p, t)
      PROVE  CallInv' /\ Settled(p) /\ PeakMoves(p)
  BY <1>3, CacheStep DEF PeakMoves
<1>4. ASSUME NEW t \in Trackers, LimitExceeded(p, t)
      PROVE  CallInv' /\ Settled(p) /\ PeakMoves(p)
  BY <1>4, LimitStep DEF PeakMoves
<1>5. CASE Increment(p)
  BY <1>5, IncrementStep
<1>6. CASE TryIncrement(p) \/ TryAgain(p)
  BY <1>6, TryStep
<1>7. CASE TryGc(p)
  BY <1>7, TryGcStep DEF PeakMoves
<1>8. CASE GcVerdict(p)
  BY <1>8, VerdictStep DEF PeakMoves
<1>9. CASE UpdateMax(p)
  BY <1>9, MaxStep DEF PeakMoves
<1>. QED  BY <1>1, <1>2, <1>3, <1>4, <1>5, <1>6, <1>7, <1>8, <1>9

-----------------------------------------------------------------------------
(* The balance: a step moves bytes between the sums and the consumption.   *)
LEMMA OutstandingMoves ==
  ASSUME CallInv, CallInv', NEW p, NEW s \in Trackers, NEW b \in Int, Settles(p, s, b),
         NEW t \in Trackers
  PROVE  /\ Outstanding(Below(t)) \in Int
         /\ Outstanding(Below(t))' = Outstanding(Below(t))
                                       + (IF t \in Above(s) THEN b ELSE 0)
<1> DEFINE S == Below(t)
           g == [u \in Trackers |-> cache[u] + HeldOn(u)]
           h == [u \in Trackers |-> cache'[u] + HeldOn(u)']
<1>1. IsFiniteSet(S) /\ S \subseteq Trackers /\ (s \in S <=> t \in Above(s))
  <2>1. IsFiniteSet(Trackers)
    BY TrackerAssumption
  <2>2. S \subseteq Trackers
    BY DEF Below
  <2>. QED  BY <2>1, <2>2, FS_Subset DEF Below
<1>2. ASSUME NEW u \in Trackers PROVE g[u] \in Int
  BY HeldIsInt
<1>3. ASSUME NEW u \in Trackers PROVE h[u] = g[u] + (IF u = s THEN b ELSE 0)
  BY DEF Settles
<1>4. Outstanding(Below(t)) = SumFunctionOnSet(g, S)
      /\ Outstanding(Below(t))' = SumFunctionOnSet(h, S)
  BY DEF Outstanding, Below, Above, Path
<1>. HIDE DEF S, g, h
<1>5. \A u \in S : g[u] \in Int /\ h[u] \in Int
  BY <1>1, <1>2, <1>3
<1>6. \A u \in S \ {s} : h[u] = g[u]
  BY <1>1, <1>2, <1>3
<1>7. SumFunctionOnSet(h, S) = SumFunctionOnSet(g, S) + (IF s \in S THEN h[s] - g[s] ELSE 0)
  BY <1>1, <1>5, <1>6, SumChanges
<1>8. SumFunctionOnSet(g, S) \in Int
  BY <1>1, <1>5, SumIsInt
<1>9. g[s] \in Int /\ h[s] = g[s] + b
  BY <1>2, <1>3
<1>10. h[s] - g[s] = b
  BY <1>9
<1>. QED  BY <1>1, <1>4, <1>7, <1>8, <1>10

LEMMA FlightMoves ==
  ASSUME CallInv, CallInv', NEW p \in Threads, \A q \in Threads \ {p} : op'[q] = op[q],
         NEW t \in Trackers
  PROVE  /\ SumFunctionOnSet([q \in Threads |-> InFlight(q, t)], Threads) \in Int
         /\ SumFunctionOnSet([q \in Threads |-> InFlight(q, t)], Threads)' =
              SumFunctionOnSet([q \in Threads |-> InFlight(q, t)], Threads)
                + (Flight(op'[p], t) - Flight(op[p], t))
<1> DEFINE g == [q \in Threads |-> Flight(op[q], t)]
           h == [q \in Threads |-> Flight(op'[q], t)]
<1>0. IsFiniteSet(Threads)
  BY TrackerAssumption
<1>1. \A q \in Threads : g[q] \in Int /\ h[q] \in Int
  BY FlightIs DEF CallInv
<1>2. \A q \in Threads \ {p} : h[q] = g[q]
  OBVIOUS
<1>3. /\ g = [q \in Threads |-> InFlight(q, t)]
      /\ SumFunctionOnSet(h, Threads)
           = SumFunctionOnSet([q \in Threads |-> InFlight(q, t)], Threads)'
  BY DEF InFlight, Flight
<1>4. g[p] = Flight(op[p], t) /\ h[p] = Flight(op'[p], t)
  OBVIOUS
<1>. HIDE DEF g, h
<1>5. SumFunctionOnSet(h, Threads) = SumFunctionOnSet(g, Threads)
                                       + (IF p \in Threads THEN h[p] - g[p] ELSE 0)
  BY <1>0, <1>1, <1>2, SumChanges
<1>6. SumFunctionOnSet(g, Threads) \in Int
  BY <1>0, <1>1, SumIsInt
<1>. QED  BY <1>3, <1>4, <1>5, <1>6

LEMMA BalanceMoves ==
  ASSUME CallInv, CallInv', NEW p \in Threads, Settled(p), ConsumptionBalances
  PROVE  ConsumptionBalances'
<1>1. PICK s \in Trackers, b \in Int : Settles(p, s, b)
  BY DEF Settled
<1>2. ASSUME NEW t \in Trackers
      PROVE  consumption'[t] = Outstanding(Below(t))'
               + SumFunctionOnSet([q \in Threads |-> InFlight(q, t)], Threads)'
  <2>1. PICK x \in Int : x = Outstanding(Below(t))
    BY <1>1, OutstandingMoves
  <2>2. Outstanding(Below(t))' = x + (IF t \in Above(s) THEN b ELSE 0)
    BY <1>1, <2>1, OutstandingMoves
  <2>3. \A q \in Threads \ {p} : op'[q] = op[q]
    BY <1>1 DEF Settles
  <2>4. PICK y \in Int : y = SumFunctionOnSet([q \in Threads |-> InFlight(q, t)], Threads)
    BY <2>3, FlightMoves
  <2>5. PICK c \in Int : c = Flight(op[p], t)
    BY FlightIs DEF CallInv
  <2>6. PICK d \in Int : d = Flight(op'[p], t)
    BY FlightIs DEF CallInv
  <2>7. SumFunctionOnSet([q \in Threads |-> InFlight(q, t)], Threads)' = y + (d - c)
    BY <2>3, <2>4, <2>5, <2>6, FlightMoves
  <2>8. consumption[t] = x + y
    BY <2>1, <2>4 DEF ConsumptionBalances
  <2>9. consumption'[t] = consumption[t] + d - c + (IF t \in Above(s) THEN b ELSE 0)
    BY <1>1, <2>5, <2>6 DEF Settles
  <2>. QED  BY <2>2, <2>7, <2>8, <2>9
<1>3. TypeOK'
  BY DEF CallInv
<1>. QED  BY <1>2, <1>3 DEF ConsumptionBalances

-----------------------------------------------------------------------------
(* Every maximum that is due is at most the most there was, and where the  *)
(* peak is behind, the update that brings it up to date is on its way.     *)
Due(q, t) == op[q] # NoOp /\ op[q].do = "max" /\ Visited(op[q]) = t
PeakInv ==
  /\ \A t \in Trackers :
       /\ peak[t] <= highest[t]
       /\ highest[t] = peak[t]
            \/ \E q \in Threads : Due(q, t) /\ op[q].value = highest[t]
  /\ \A q \in Threads, t \in Trackers : Due(q, t) => op[q].value <= highest[t]

LEMMA PeakKept ==
  ASSUME CallInv, CallInv', NEW p \in Threads, PeakMoves(p), PeakInv
  PROVE  PeakInv'
<1>0. \A t \in Trackers : /\ peak[t] \in Int /\ highest[t] \in Int
                          /\ peak'[t] \in Int /\ highest'[t] \in Int
  BY DEF CallInv, TypeOK
<1>v. \A q \in Threads : op[q] # NoOp => op[q].value \in Int
  BY OpIs DEF CallInv
<1>q. \A q \in Threads \ {p} : op'[q] = op[q]
  BY DEF PeakMoves, PeakQuiet, PeakAdds, PeakUpdates
<1>d. ASSUME NEW q \in Threads \ {p}, NEW t PROVE Due(q, t)' <=> Due(q, t)
  BY <1>q DEF Due, Visited, Path
<1>1. CASE PeakQuiet(p)
  <2>1. \A t : ~Due(p, t) /\ ~Due(p, t)'
    BY <1>1 DEF PeakQuiet, MaxQuiet, Due
  <2>2. UNCHANGED <<peak, highest>>
    BY <1>1 DEF PeakQuiet
  <2>3. ASSUME NEW t \in Trackers
        PROVE  /\ peak'[t] <= highest'[t]
               /\ highest'[t] = peak'[t]
                    \/ \E q \in Threads : Due(q, t)' /\ op'[q].value = highest'[t]
    <3>1. peak[t] <= highest[t] /\ peak'[t] = peak[t] /\ highest'[t] = highest[t]
      BY <2>2 DEF PeakInv
    <3>2. CASE highest[t] = peak[t]
      BY <3>1, <3>2
    <3>3. CASE \E q \in Threads : Due(q, t) /\ op[q].value = highest[t]
      <4>1. PICK q \in Threads : Due(q, t) /\ op[q].value = highest[t]
        BY <3>3
      <4>2. q # p
        BY <2>1, <4>1
      <4>3. Due(q, t)' /\ op'[q] = op[q]
        BY <1>d, <1>q, <4>1, <4>2
      <4>. QED  BY <3>1, <4>1, <4>3
    <3>. QED  BY <3>2, <3>3 DEF PeakInv
  <2>4. ASSUME NEW q \in Threads, NEW t \in Trackers, Due(q, t)'
        PROVE  op'[q].value <= highest'[t]
    <3>1. q # p
      BY <2>1, <2>4
    <3>2. Due(q, t) /\ op'[q] = op[q]
      BY <1>d, <1>q, <2>4, <3>1
    <3>. QED  BY <2>2, <3>2 DEF PeakInv
  <2>. QED  BY <2>3, <2>4 DEF PeakInv
<1>2. ASSUME NEW t \in Trackers, NEW v \in Int, PeakAdds(p, t, v)
      PROVE  PeakInv'
  <2>1. PICK m \in Int : m = Max({highest[t], v})
    BY <1>0, MaxIs
  <2>2. m >= highest[t] /\ m >= v /\ (m = highest[t] \/ m = v)
    BY <1>0, <2>1, MaxIs
  <2>3. /\ highest'[t] = m /\ peak' = peak
        /\ \A u \in Trackers \ {t} : highest'[u] = highest[u]
    BY <1>2, <2>1 DEF PeakAdds, CallInv, TypeOK
  <2>4. /\ \A u : ~Due(p, u) /\ (Due(p, u)' => u = t)
        /\ Due(p, t)' /\ op'[p].value = v
    BY <1>2 DEF PeakAdds, MaxQuiet, Due
  <2>5. ASSUME NEW u \in Trackers
        PROVE  /\ peak'[u] <= highest'[u]
               /\ highest'[u] = peak'[u]
                    \/ \E q \in Threads : Due(q, u)' /\ op'[q].value = highest'[u]
    <3>1. /\ peak[u] <= highest[u] /\ peak'[u] = peak[u] /\ peak[u] \in Int
          /\ highest[u] \in Int
      BY <1>0, <2>3 DEF PeakInv
    <3>2. CASE u = t /\ m = v
      BY <2>2, <2>3, <2>4, <3>1, <3>2
    <3>3. CASE highest'[u] = highest[u]
      <4>1. CASE highest[u] = peak[u]
        BY <3>1, <3>3, <4>1
      <4>2. CASE \E q \in Threads : Due(q, u) /\ op[q].value = highest[u]
        <5>1. PICK q \in Threads : Due(q, u) /\ op[q].value = highest[u]
          BY <4>2
        <5>2. q # p
          BY <2>4, <5>1
        <5>3. Due(q, u)' /\ op'[q] = op[q]
          BY <1>d, <1>q, <5>1, <5>2
        <5>. QED  BY <3>1, <3>3, <5>1, <5>3
      <4>. QED  BY <4>1, <4>2 DEF PeakInv
    <3>4. u # t \/ m = v \/ m = highest[t]
      BY <2>2
    <3>. QED  BY <2>3, <3>2, <3>3, <3>4
  <2>6. ASSUME NEW q \in Threads, NEW u \in Trackers, Due(q, u)'
        PROVE  op'[q].value <= highest'[u]
    <3>1. CASE q = p
      BY <2>2, <2>3, <2>4, <2>6, <3>1
    <3>2. CASE q # p
      <4>1. Due(q, u) /\ op'[q] = op[q]
        BY <1>d, <1>q, <2>6, <3>2
      <4>2. op[q].value <= highest[u] /\ op[q].value \in Int /\ highest[u] \in Int
        BY <1>0, <1>v, <4>1 DEF PeakInv, Due
      <4>3. highest[u] <= highest'[u]
        BY <1>0, <2>2, <2>3
      <4>4. highest'[u] \in Int
        BY <1>0
      <4>. QED  BY <4>1, <4>2, <4>3, <4>4
    <3>. QED  BY <3>1, <3>2
  <2>. QED  BY <2>5, <2>6 DEF PeakInv
<1>3. ASSUME NEW t \in Trackers, NEW v \in Int, PeakUpdates(p, t, v)
      PROVE  PeakInv'
  <2>1. PICK m \in Int : m = Max({peak[t], v})
    BY <1>0, MaxIs
  <2>2. m >= peak[t] /\ m >= v /\ (m = peak[t] \/ m = v)
    BY <1>0, <2>1, MaxIs
  <2>3. /\ peak'[t] = m /\ highest' = highest
        /\ \A u \in Trackers \ {t} : peak'[u] = peak[u]
    BY <1>3, <2>1 DEF PeakUpdates, CallInv, TypeOK
  <2>4. /\ \A u : ~Due(p, u)' /\ (Due(p, u) => u = t)
        /\ Due(p, t) /\ op[p].value = v
    BY <1>3 DEF PeakUpdates, MaxQuiet, Due
  <2>5. v <= highest[t]
    BY <2>4 DEF PeakInv
  <2>6. ASSUME NEW u \in Trackers
        PROVE  /\ peak'[u] <= highest'[u]
               /\ highest'[u] = peak'[u]
                    \/ \E q \in Threads : Due(q, u)' /\ op'[q].value = highest'[u]
    <3>1. /\ peak[u] <= highest[u] /\ peak[u] \in Int /\ highest[u] \in Int
          /\ highest'[u] = highest[u]
      BY <1>0, <2>3 DEF PeakInv
    <3>2. peak'[u] <= highest'[u]
      BY <2>2, <2>3, <2>5, <3>1
    <3>3. CASE highest[u] = peak[u]
      <4>1. peak[u] <= peak'[u] /\ peak'[u] \in Int
        BY <1>0, <2>2, <2>3
      <4>2. highest'[u] = peak'[u]
        BY <3>1, <3>2, <3>3, <4>1
      <4>. QED  BY <3>2, <4>2
    <3>4. CASE \E q \in Threads : Due(q, u) /\ op[q].value = highest[u]
      <4>1. PICK q \in Threads : Due(q, u) /\ op[q].value = highest[u]
        BY <3>4
      <4>2. CASE q = p
        <5>1. u = t /\ v = highest[u]
          BY <2>4, <4>1, <4>2
        <5>2. highest'[u] = peak'[u]
          BY <2>2, <2>3, <3>1, <3>2, <5>1
        <5>. QED  BY <3>2, <5>2
      <4>3. CASE q # p
        <5>1. Due(q, u)' /\ op'[q] = op[q]
          BY <1>d, <1>q, <4>1, <4>3
        <5>. QED  BY <3>1, <3>2, <4>1, <5>1
      <4>. QED  BY <4>2, <4>3
    <3>. QED  BY <3>3, <3>4 DEF PeakInv
  <2>7. ASSUME NEW q \in Threads, NEW u \in Trackers, Due(q, u)'
        PROVE  op'[q].value <= highest'[u]
    <3>1. q # p
      BY <2>4, <2>7
    <3>2. Due(q, u) /\ op'[q] = op[q]
      BY <1>d, <1>q, <2>7, <3>1
    <3>. QED  BY <2>3, <3>2 DEF PeakInv
  <2>. QED  BY <2>6, <2>7 DEF PeakInv
<1>. QED  BY <1>1, <1>2, <1>3 DEF PeakMoves

-----------------------------------------------------------------------------
(* A tracker goes over its limit only by the add of a Consume().           *)
PastLimit(t) ==
  Limit[t] >= 0 /\ consumption[t] <= Limit[t] /\ consumption'[t] > Limit[t]

LEMMA AddIsOn ==
  ASSUME CallInv, NEW p \in Threads, op[p] # NoOp, NEW d \in Int, AddTo(p, d),
         NEW t \in Trackers
  PROVE  /\ consumption[t] \in Int /\ Limit[t] \in Int
         /\ consumption'[t] = IF t = Visited(op[p]) THEN consumption[t] + d
                                                    ELSE consumption[t]
<1>1. Visited(op[p]) \in Trackers
  BY OpIs DEF CallInv
<1>2. consumption \in [Trackers -> Int] /\ Limit[t] \in Int
  BY TrackerAssumption DEF CallInv, TypeOK
<1>3. consumption' = [consumption EXCEPT ![Visited(op[p])]
                        = consumption[Visited(op[p])] + d]
  BY DEF AddTo
<1>. QED  BY <1>1, <1>2, <1>3

LEMMA OnlyConsume ==
  ASSUME CallInv, NEW p \in Threads, NEW t \in Trackers, PastLimit(t),
         \/ \E u \in Trackers :
              \/ \E b \in Amounts : Consume(p, u, b) \/ TryConsume(p, u, b)
                                    \/ Release(p, u, b)
              \/ PutInCache(p, u) \/ LimitExceeded(p, u)
         \/ Increment(p) \/ TryIncrement(p) \/ TryGc(p) \/ GcVerdict(p) \/ TryAgain(p)
         \/ UpdateMax(p)
  PROVE  op[p] # NoOp /\ op[p].kind = "Consume" /\ op'[p] # op[p]
<1>0. consumption[t] \in Int /\ Limit[t] \in Int
  BY TrackerAssumption DEF CallInv, TypeOK
<1>1. consumption'[t] # consumption[t]
  BY <1>0 DEF PastLimit
<1>2. CASE Increment(p)
  <2>1. op[p] # NoOp /\ op'[p] # op[p]
    BY <1>2, IncrementStep
  <2>2. PICK d \in Int : AddTo(p, d) /\ (op[p].kind # "Consume" => d < 0)
    BY <1>2, IncrementStep
  <2>3. consumption'[t] = IF t = Visited(op[p]) THEN consumption[t] + d ELSE consumption[t]
    BY <2>1, <2>2, AddIsOn
  <2>4. ~(d < 0)
    BY <1>0, <2>3 DEF PastLimit
  <2>. QED  BY <2>1, <2>2, <2>4
<1>3. CASE TryIncrement(p) \/ TryAgain(p)
  <2>1. PICK d \in Int : /\ AddTo(p, d) /\ op[p] # NoOp /\ d = op[p].bytes
                         /\ Fits(Visited(op[p]), op[p].bytes)
    BY <1>1, <1>3, TryStep
  <2>2. consumption'[t] = IF t = Visited(op[p]) THEN consumption[t] + d ELSE consumption[t]
    BY <2>1, AddIsOn
  <2>3. t = Visited(op[p])
    BY <1>1, <2>2
  <2>4. Limit[t] < 0 \/ consumption[t] + d <= Limit[t]
    BY <2>1, <2>3 DEF Fits
  <2>. QED  BY <1>0, <2>2, <2>4 DEF PastLimit
<1>4. CASE TryGc(p) \/ GcVerdict(p) \/ UpdateMax(p)
  BY <1>1, <1>4, TryGcStep, VerdictStep DEF UpdateMax
<1>5. ASSUME NEW u \in Trackers, PutInCache(p, u) \/ LimitExceeded(p, u)
      PROVE  FALSE
  BY <1>1, <1>5 DEF PutInCache, LimitExceeded
<1>6. ASSUME NEW u \in Trackers, NEW b \in Amounts,
             Consume(p, u, b) \/ TryConsume(p, u, b) \/ Release(p, u, b)
      PROVE  FALSE
  BY <1>1, <1>6 DEF Consume, TryConsume, Release
<1>. QED  BY <1>2, <1>3, <1>4, <1>5, <1>6

-----------------------------------------------------------------------------
(* The inductive invariant of the accounts.                                *)
MemInv == CallInv /\ ConsumptionBalances /\ PeakInv

LEMMA MemInit == Init => MemInv
<1>. SUFFICES ASSUME Init PROVE MemInv
  OBVIOUS
<1>1. CallInv
  BY DEF Init, CallInv, TypeOK, GoodOp
<1>2. PeakInv
  BY DEF Init, PeakInv, Due
<1>3. ASSUME NEW t \in Trackers
      PROVE  /\ Outstanding(Below(t)) = 0
             /\ SumFunctionOnSet([p \in Threads |-> InFlight(p, t)], Threads) = 0
  <2>0. IsFiniteSet(Threads) /\ IsFiniteSet(Below(t)) /\ Below(t) \subseteq Trackers
    <3>1. Below(t) \subseteq Trackers
      BY DEF Below
    <3>. QED  BY <3>1, TrackerAssumption, FS_Subset
  <2>1. ASSUME NEW s \in Trackers PROVE HeldOn(s) = 0
    <3> DEFINE g == [p \in Threads |-> held[p][s]]
    <3>1. \A p \in Threads : g[p] = 0
      BY DEF Init
    <3>2. SumFunctionOnSet(g, Threads) = 0
      <4>. HIDE DEF g
      <4>. QED  BY <2>0, <3>1, SumOfZeros
    <3>. QED  BY <3>2 DEF HeldOn
  <2>2. Outstanding(Below(t)) = 0
    <3> DEFINE g == [s \in Trackers |-> cache[s] + HeldOn(s)]  S == Below(t)
    <3>1. \A s \in S : g[s] = 0
      BY <2>0, <2>1 DEF Init
    <3>2. SumFunctionOnSet(g, S) = 0
      <4>1. IsFiniteSet(S)
        BY <2>0
      <4>. HIDE DEF g, S
      <4>. QED  BY <3>1, <4>1, SumOfZeros
    <3>. QED  BY <3>2 DEF Outstanding
  <2>3. SumFunctionOnSet([p \in Threads |-> InFlight(p, t)], Threads) = 0
    <3> DEFINE g == [p \in Threads |-> InFlight(p, t)]
    <3>1. \A p \in Threads : g[p] = 0
      <4>1. Pending(NoOp, t) = 0
        BY PendingOff
      <4>. QED  BY <4>1 DEF Init, InFlight
    <3>2. SumFunctionOnSet(g, Threads) = 0
      <4>. HIDE DEF g
      <4>. QED  BY <2>0, <3>1, SumOfZeros
    <3>. QED  BY <3>2
  <2>. QED  BY <2>2, <2>3
<1>4. ConsumptionBalances
  BY <1>1, <1>3 DEF ConsumptionBalances, CallInv, Init
<1>. QED  BY <1>1, <1>2, <1>4 DEF MemInv

LEMMA MemStutters ==
  ASSUME MemInv, UNCHANGED vars PROVE MemInv'
<1>1. CallInv'
  BY DEF MemInv, CallInv, TypeOK, vars
<1>2. PeakInv'
  BY DEF MemInv, PeakInv, Due, Visited, Path, vars
<1>3. ConsumptionBalances'
  <2>1. ASSUME NEW t \in Trackers
        PROVE  /\ Outstanding(Below(t))' = Outstanding(Below(t))
               /\ SumFunctionOnSet([p \in Threads |-> InFlight(p, t)], Threads)'
                    = SumFunctionOnSet([p \in Threads |-> InFlight(p, t)], Threads)
    BY DEF vars, Outstanding, HeldOn, Below, Above, Path, InFlight, Pending
  <2>. QED  BY <1>1, <2>1 DEF MemInv, ConsumptionBalances, CallInv, vars
<1>. QED  BY <1>1, <1>2, <1>3 DEF MemInv

LEMMA MemNext == MemInv /\ [Next]_vars => MemInv'
<1>. SUFFICES ASSUME MemInv, [Next]_vars PROVE MemInv'
  OBVIOUS
<1>1. CASE UNCHANGED vars
  BY <1>1, MemStutters
<1>2. CASE Next
  <2>1. PICK p \in Threads :
          \/ \E t \in Trackers :
               \/ \E b \in Amounts : Consume(p, t, b) \/ TryConsume(p, t, b)
                                     \/ Release(p, t, b)
               \/ PutInCache(p, t) \/ LimitExceeded(p, t)
          \/ Increment(p) \/ TryIncrement(p) \/ TryGc(p) \/ GcVerdict(p) \/ TryAgain(p)
          \/ UpdateMax(p)
    BY <1>2 DEF Next
  <2>2. CallInv
    BY DEF MemInv
  <2>3. CallInv' /\ Settled(p) /\ PeakMoves(p)
    BY <2>1, <2>2, EveryStep
  <2>4. ConsumptionBalances'
    BY <2>2, <2>3, BalanceMoves DEF MemInv
  <2>5. PeakInv'
    BY <2>2, <2>3, PeakKept DEF MemInv
  <2>. QED  BY <2>3, <2>4, <2>5 DEF MemInv
<1>. QED  BY <1>1, <1>2

(* The composed system's steps are steps of the accounts.                  *)
LEMMA AccountsRun == MCSpec => []MemInv /\ [][Next]_vars
<1>1. MCInit => MemInv
  BY MemInit DEF MCInit
<1>2. [MCNext]_<<subject, vars, treeVars>> => [Next]_vars
  BY DEF MCNext
<1>. QED  BY <1>1, <1>2, MemNext, PTL DEF MCSpec

(* Whatever the trackers, threads, limits and amounts: at any moment the   *)
(* consumption of a tracker is what is held on it and below, plus what     *)
(* Consume(), Release(), TryConsume(), its roll-back and the collections   *)
(* under way have added so far.                                            *)
THEOREM BalanceCorrect == MCSpec => []ConsumptionBalances
<1>1. MemInv => ConsumptionBalances
  BY DEF MemInv
<1>. QED  BY <1>1, AccountsRun, PTL

(* peak_consumption() never exceeds what was ever consumed, and is exactly *)
(* that when no call is under way, however the UpdateMax() calls race.     *)
THEOREM PeakCorrect == MCSpec => []PeakIsHighWater
<1>1. MemInv => PeakIsHighWater
  <2>. SUFFICES ASSUME MemInv PROVE PeakIsHighWater
    OBVIOUS
  <2>1. \A t \in Trackers : peak[t] <= highest[t]
    BY DEF MemInv, PeakInv
  <2>2. (\A p \in Threads : op[p] = NoOp) => \A t \in Trackers : peak[t] = highest[t]
    BY DEF MemInv, PeakInv, Due
  <2>. QED  BY <2>1, <2>2 DEF PeakIsHighWater
<1>. QED  BY <1>1, AccountsRun, PTL

(* TryConsume() never takes a tracker over its limit: neither its first    *)
(* try nor the one after a collection, whatever other calls do meanwhile.  *)
THEOREM LimitsCorrect == MCSpec => OnlyConsumeExceedsLimit
<1>1. MemInv /\ [Next]_vars =>
        [\A t \in Trackers :
           (Limit[t] >= 0 /\ consumption[t] <= Limit[t]
              /\ consumption'[t] > Limit[t]) =>
             \E p \in Threads : op[p] # NoOp /\ op[p].kind = "Consume"
                                /\ op'[p] # op[p]]_vars
  <2>. SUFFICES ASSUME MemInv, Next, NEW t \in Trackers, PastLimit(t)
                PROVE  \E p \in Threads : op[p] # NoOp /\ op[p].kind = "Consume"
                                          /\ op'[p] # op[p]
    BY DEF PastLimit
  <2>1. CallInv
    BY DEF MemInv
  <2>2. PICK p \in Threads :
          \/ \E u \in Trackers :
               \/ \E b \in Amounts : Consume(p, u, b) \/ TryConsume(p, u, b)
                                     \/ Release(p, u, b)
               \/ PutInCache(p, u) \/ LimitExceeded(p, u)
          \/ Increment(p) \/ TryIncrement(p) \/ TryGc(p) \/ GcVerdict(p) \/ TryAgain(p)
          \/ UpdateMax(p)
    BY DEF Next
  <2>. QED  BY <2>1, <2>2, OnlyConsume
<1>. QED  BY <1>1, AccountsRun, PTL DEF OnlyConsumeExceedsLimit

=============================================================================
