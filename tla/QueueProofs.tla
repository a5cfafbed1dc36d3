---------------------------- MODULE QueueProofs ----------------------------
(***************************************************************************)
(* Proofs about BlockingQueue.                                             *)
(***************************************************************************)
EXTENDS BlockingQueue, FiniteSetTheorems, WellFoundedInduction, TLAPS

(* Every non-empty set of natural numbers has a least element: what the    *)
(* inductions over the length of a list rest on.                           *)
LEMMA LeastNat ==
  ASSUME NEW T, T \subseteq Nat, T # {}
  PROVE  \E x \in T : \A y \in T : x <= y
<1>1. PICK R : R = OpToRel(<, Nat)
  OBVIOUS
<1>2. IsWellFoundedOn(R, Nat)
  BY <1>1, NatLessThanWellFounded
<1>3. \A x, y \in Nat : <<x, y>> \in R <=> x < y
  BY <1>1 DEF OpToRel
<1>4. PICK x \in T : \A y \in T : <<y, x>> \notin R
  BY <1>2, WFMin
<1>5. ASSUME NEW y \in T PROVE x <= y
  <2>1. x \in Nat /\ y \in Nat /\ <<y, x>> \notin R
    BY <1>4
  <2>2. ~(y < x)
    BY <1>3, <2>1
  <2>. QED  BY <2>1, <2>2
<1>. QED  BY <1>5

-----------------------------------------------------------------------------
(* The sizes of the first 0, 1, ..., n elements of a list. *)
AddsUp(f, s, n) ==
  f[0] = 0 /\ \A i \in 1..n : f[i] = f[i - 1] + Size[s[i]]

Sums(f, s, n) == f \in [0..n -> Int] /\ AddsUp(f, s, n)

LEMMA SumsExist ==
  ASSUME NEW s \in Seq(Elems), NEW n \in 0..Len(s)
  PROVE  \E f : Sums(f, s, n) /\ \A i \in 0..n : f[i] >= 0
<1>. DEFINE Good(m) == \E f : Sums(f, s, m) /\ \A i \in 0..m : f[i] >= 0
            Bad == {m \in 0..Len(s) : ~Good(m)}
<1>1. Good(0)
  <2>. DEFINE f == [i \in 0..0 |-> 0]
  <2>1. Sums(f, s, 0) /\ \A i \in 0..0 : f[i] >= 0
    BY DEF Sums, AddsUp
  <2>. QED  BY <2>1
<1>2. ASSUME NEW m \in 0..Len(s), m + 1 \in 0..Len(s), Good(m) PROVE Good(m + 1)
  <2>1. PICK f : Sums(f, s, m) /\ \A i \in 0..m : f[i] >= 0
    BY <1>2
  <2>2. s[m + 1] \in Elems /\ Size[s[m + 1]] \in Nat
    <3>1. m + 1 \in 1..Len(s)
      BY <1>2
    <3>2. s[m + 1] \in Elems
      BY <3>1
    <3>. QED  BY <3>2, QueueAssumption
  <2>. DEFINE g == [i \in 0..(m + 1) |-> IF i = m + 1 THEN f[m] + Size[s[m + 1]] ELSE f[i]]
  <2>3. Sums(g, s, m + 1)
    BY SMTT(30), <1>2, <2>1, <2>2 DEF Sums, AddsUp
  <2>4. \A i \in 0..(m + 1) : g[i] >= 0
    BY <1>2, <2>1, <2>2 DEF Sums, AddsUp
  <2>. QED  BY <2>3, <2>4
<1>. HIDE DEF Good
<1>3. SUFFICES ASSUME Bad # {} PROVE FALSE
  BY DEF Good
<1>4. PICK m \in Bad : \A k \in Bad : m <= k
  <2>1. Bad \subseteq Nat
    OBVIOUS
  <2>. QED  BY <1>3, <2>1, LeastNat
<1>5. m # 0 /\ m \in 0..Len(s) /\ m - 1 \in 0..Len(s)
  BY <1>1
<1>6. Good(m - 1)
  BY <1>4, <1>5
<1>7. (m - 1) + 1 = m
  BY <1>5
<1>. QED  BY <1>2, <1>5, <1>6, <1>7

LEMMA SumsUnique ==
  ASSUME NEW s, NEW n \in Nat, NEW f, NEW g, AddsUp(f, s, n), AddsUp(g, s, n)
  PROVE  \A i \in 0..n : f[i] = g[i]
<1>. DEFINE Bad == {i \in 0..n : f[i] # g[i]}
<1>1. SUFFICES ASSUME Bad # {} PROVE FALSE
  OBVIOUS
<1>2. PICK i \in Bad : \A k \in Bad : i <= k
  <2>1. Bad \subseteq Nat
    OBVIOUS
  <2>. HIDE DEF Bad
  <2>. QED  BY <1>1, <2>1, LeastNat
<1>3. i # 0 /\ i \in 1..n /\ i - 1 \in 0..n /\ i - 1 \notin Bad
  BY <1>2 DEF AddsUp
<1>. QED  BY <1>3 DEF AddsUp

LEMMA TotalSizeIs ==
  ASSUME NEW s \in Seq(Elems), NEW f, Sums(f, s, Len(s))
  PROVE  TotalSize(s) = f[Len(s)]
<1>. DEFINE Def(h) == [n \in 0..Len(s) |-> IF n = 0 THEN 0 ELSE h[n - 1] + Size[s[n]]]
            sum == CHOOSE h : h = Def(h)
<1>1. f = Def(f)
  BY DEF Sums, AddsUp
<1>2. sum = Def(sum)
  BY <1>1
<1>3. TotalSize(s) = sum[Len(s)]
  BY DEF TotalSize
<1>. HIDE DEF sum
<1>4. AddsUp(sum, s, Len(s))
  BY <1>2 DEF AddsUp
<1>5. \A i \in 0..Len(s) : f[i] = sum[i]
  BY <1>4, SumsUnique DEF Sums
<1>. QED  BY <1>3, <1>5


LEMMA SizeOfEmpty == TotalSize(<<>>) = 0
<1>1. <<>> \in Seq(Elems) /\ Len(<<>>) = 0 /\ 0 \in 0..0
  OBVIOUS
<1>2. PICK s \in Seq(Elems) : s = <<>> /\ Len(s) = 0
  BY <1>1
<1>3. PICK f : Sums(f, s, Len(s))
  BY <1>1, <1>2, SumsExist
<1>4. TotalSize(s) = f[0]
  BY <1>2, <1>3, TotalSizeIs
<1>. QED  BY <1>2, <1>3, <1>4 DEF Sums, AddsUp

LEMMA SizeIsNat == ASSUME NEW s \in Seq(Elems) PROVE TotalSize(s) \in Nat
<1>1. Len(s) \in 0..Len(s)
  OBVIOUS
<1>2. PICK f : Sums(f, s, Len(s)) /\ \A i \in 0..Len(s) : f[i] >= 0
  BY <1>1, SumsExist
<1>3. TotalSize(s) = f[Len(s)]
  BY <1>2, TotalSizeIs
<1>. QED  BY <1>1, <1>2, <1>3 DEF Sums

LEMMA SizeOfAppend ==
  ASSUME NEW s \in Seq(Elems), NEW v \in Elems
  PROVE  TotalSize(Append(s, v)) = TotalSize(s) + Size[v]
<1>. DEFINE t == Append(s, v)  n == Len(s)
<1>1. /\ t \in Seq(Elems) /\ Len(t) = n + 1 /\ t[n + 1] = v /\ n \in Nat
      /\ \A i \in 1..n : t[i] = s[i]
  OBVIOUS
<1>. HIDE DEF t
<1>2. PICK f : Sums(f, t, Len(t))
  <2>1. Len(t) \in 0..Len(t)
    BY <1>1
  <2>. QED  BY <1>1, <2>1, SumsExist
<1>3. TotalSize(t) = f[n + 1] /\ f[n + 1] = f[n] + Size[v]
  <2>1. TotalSize(t) = f[Len(t)]
    BY <1>1, <1>2, TotalSizeIs
  <2>2. n + 1 \in 1..Len(t) /\ (n + 1) - 1 = n
    BY <1>1
  <2>. QED  BY <1>1, <1>2, <2>1, <2>2 DEF Sums, AddsUp
<1>. DEFINE g == [i \in 0..n |-> f[i]]
<1>4. Sums(g, s, n)
  BY <1>1, <1>2 DEF Sums, AddsUp
<1>5. TotalSize(s) = g[n] /\ g[n] = f[n]
  BY <1>1, <1>4, TotalSizeIs
<1>. QED  BY <1>3, <1>5 DEF t

LEMMA SizeOfTail ==
  ASSUME NEW s \in Seq(Elems), s # <<>>
  PROVE  TotalSize(s) = Size[Head(s)] + TotalSize(Tail(s))
<1>. DEFINE t == Tail(s)  n == Len(s)
<1>1. /\ n \in Nat \ {0} /\ t \in Seq(Elems) /\ Len(t) = n - 1 /\ Head(s) = s[1]
      /\ \A i \in 1..(n - 1) : t[i] = s[i + 1]
  OBVIOUS
<1>2. PICK f : Sums(f, s, n)
  BY SumsExist
<1>. HIDE DEF t
<1>3. TotalSize(s) = f[n] /\ f[1] = Size[Head(s)]
  <2>1. TotalSize(s) = f[n]
    BY <1>2, TotalSizeIs
  <2>2. 1 \in 1..n /\ 1 - 1 = 0 /\ s[1] \in Elems
    BY <1>1
  <2>3. Size[s[1]] \in Nat
    BY <2>2, QueueAssumption
  <2>4. f[1] = f[0] + Size[s[1]] /\ f[0] = 0
    BY <1>2, <2>2 DEF Sums, AddsUp
  <2>. QED  BY <1>1, <2>1, <2>3, <2>4
<1>. DEFINE g == [i \in 0..(n - 1) |-> f[i + 1] - f[1]]
<1>4. Sums(g, t, n - 1)
  <2>1. g \in [0..(n - 1) -> Int]
    <3>1. ASSUME NEW i \in 0..(n - 1) PROVE f[i + 1] - f[1] \in Int
      <4>1. i + 1 \in 0..n /\ 1 \in 0..n
        BY <1>1
      <4>2. f[i + 1] \in Int /\ f[1] \in Int
        BY <1>2, <4>1 DEF Sums
      <4>. QED  BY <4>2
    <3>. QED  BY <3>1
  <2>2. g[0] = 0
    <3>1. 0 \in 0..(n - 1) /\ 0 + 1 = 1 /\ f[1] \in Int
      BY <1>1, <1>2 DEF Sums
    <3>. QED  BY <3>1
  <2>3. ASSUME NEW i \in 1..(n - 1) PROVE g[i] = g[i - 1] + Size[t[i]]
    <3>1. i \in 0..(n - 1) /\ i - 1 \in 0..(n - 1) /\ i + 1 \in 1..n /\ (i - 1) + 1 = i
          /\ (i + 1) - 1 = i /\ i \in 0..n /\ 1 \in 0..n /\ i + 1 \in 0..n
      BY <1>1
    <3>2. g[i] = f[i + 1] - f[1] /\ g[i - 1] = f[i] - f[1]
      BY <3>1
    <3>3. f[i + 1] = f[i] + Size[s[i + 1]] /\ t[i] = s[i + 1]
      BY <1>1, <1>2, <3>1 DEF Sums, AddsUp
    <3>4. f[i] \in Int /\ f[1] \in Int /\ Size[s[i + 1]] \in Int
      <4>1. f[i] \in Int /\ f[1] \in Int
        BY <1>2, <3>1 DEF Sums
      <4>2. s[i + 1] \in Elems
        BY <3>1
      <4>3. Size[s[i + 1]] \in Nat
        BY <4>2, QueueAssumption
      <4>. QED  BY <4>1, <4>3
    <3>. HIDE DEF g
    <3>. QED  BY <3>2, <3>3, <3>4
  <2>. QED  BY <2>1, <2>2, <2>3 DEF Sums, AddsUp
<1>5. TotalSize(t) = g[n - 1] /\ g[n - 1] = f[n] - f[1]
  BY <1>1, <1>4, TotalSizeIs
<1>6. f[n] \in Int /\ f[1] \in Int
  BY <1>1, <1>2 DEF Sums
<1>. QED  BY <1>3, <1>5, <1>6 DEF t

(* An element moves from the head of one list to the end of another. *)
LEMMA AppendConcat ==
  ASSUME NEW r \in Seq(Elems), NEW s \in Seq(Elems), NEW v \in Elems
  PROVE  Append(r \o s, v) = r \o Append(s, v)
OBVIOUS

LEMMA TailConcat ==
  ASSUME NEW r \in Seq(Elems), NEW s \in Seq(Elems), s # <<>>
  PROVE  r \o s = Append(r, Head(s)) \o Tail(s)
OBVIOUS

LEMMA NothingConcat ==
  ASSUME NEW r \in Seq(Elems), NEW s \in Seq(Elems)
  PROVE  r \o s = (r \o s) \o <<>>
OBVIOUS

LEMMA AppendFresh ==
  ASSUME NEW s \in Seq(Elems), IsInjective(s), NEW v \in Elems, v \notin ToSet(s)
  PROVE  /\ IsInjective(Append(s, v))
         /\ ToSet(Append(s, v)) = ToSet(s) \cup {v}
<1>0. PICK t : t = Append(s, v)
  OBVIOUS
<1>1. /\ Len(t) = Len(s) + 1 /\ t[Len(s) + 1] = v /\ Len(s) \in Nat
      /\ \A i \in 1..Len(s) : t[i] = s[i]
      /\ DOMAIN t = 1..(Len(s) + 1) /\ DOMAIN s = 1..Len(s)
  BY <1>0
<1>2. IsInjective(t)
  BY <1>1 DEF IsInjective, ToSet
<1>3. ToSet(t) = ToSet(s) \cup {v}
  BY <1>1 DEF ToSet
<1>. QED  BY <1>0, <1>2, <1>3


-----------------------------------------------------------------------------
(* The invariant.  A thread that waits to put holds an element nobody else *)
(* puts and that is not in the queue yet.                                  *)
PutPCs == {"put_wait", "put_ready"}

ArgsFresh ==
  \A p \in Threads : pc[p] \in PutPCs =>
    /\ arg[p] \in Elems /\ arg[p] \notin ToSet(sent)
    /\ \A q \in Threads : arg[q] = arg[p] => q = p

(* Those on the way to a waiting element: they will signal, or look. *)
Movers == At(SignalPCs \cup {"get_ready", "drain_ready"})
Sleepers == At({"get_wait", "drain_wait"})

ElementsCovered == Sleepers # {} => Len(list) <= Cardinality(Movers)
ProducersCovered == (At({"put_wait"}) # {} /\ list = <<>>) => At({"put_ready"}) # {}
NobodySleeps == shutdown => At(SleepPCs) = {}

QueueInv ==
  /\ SizeAccounts /\ FifoDelivery /\ ArgsFresh
  /\ ElementsCovered /\ ProducersCovered /\ NobodySleeps

LEMMA MoversFinite == IsFiniteSet(Movers)
BY QueueAssumption, FS_Subset DEF Movers, At

LEMMA QueueInitial == Init => QueueInv
<1>. SUFFICES ASSUME Init PROVE QueueInv
  OBVIOUS
<1>. USE DEF Init
<1>1. TypeOK
  <2>1. shutdown \in BOOLEAN
    OBVIOUS
  <2>. QED  BY <2>1 DEF TypeOK
<1>2. \E v \in Elems : size < MaxSize + Size[v]
  <2>1. PICK v \in Elems : TRUE
    BY QueueAssumption
  <2>2. Size[v] \in Nat /\ MaxSize \in Nat \ {0}
    BY QueueAssumption
  <2>. QED  BY <2>2
<1>3. size = TotalSize(list)
  BY SizeOfEmpty
<1>4. SizeAccounts
  BY <1>1, <1>2, <1>3 DEF SizeAccounts
<1>5. FifoDelivery
  BY DEF FifoDelivery, IsInjective
<1>6. ArgsFresh /\ ElementsCovered /\ ProducersCovered /\ NobodySleeps
  BY DEF ArgsFresh, ElementsCovered, ProducersCovered, NobodySleeps, PutPCs, Sleepers, At, SleepPCs
<1>. QED  BY <1>4, <1>5, <1>6 DEF QueueInv

(* A signal finds nobody asleep, or wakes one. *)
LEMMA ReadyIs ==
  /\ Ready["put_wait"] = "put_ready" /\ Ready["get_wait"] = "get_ready"
  /\ Ready["drain_wait"] = "drain_ready"
BY DEF Ready

LEMMA SignalOutcome ==
  ASSUME NEW f, NEW asleep, pc' \in Signal(f, asleep, Ready)
  PROVE  \/ pc' = f /\ \A q \in Threads : f[q] \notin asleep
         \/ \E q \in Threads : f[q] \in asleep /\ pc' = [f EXCEPT ![q] = Ready[f[q]]]
BY DEF Signal

(* Enqueue(), whoever calls it, on a queue that is not full. *)
LEMMA EnqueueStep ==
  ASSUME QueueInv, NEW p \in Threads, NEW v \in Elems, NEW next \in SignalPCs,
         pc[p] \in {"idle", "put_ready"}, size < MaxSize,
         v \notin ToSet(sent), \A q \in Threads : arg[q] = v => q = p,
         ~shutdown, Enqueue(p, v, next)
  PROVE  QueueInv'
<1>. USE DEF QueueInv, SizeAccounts, FifoDelivery, Enqueue, PushBack
<1>0. Size[v] \in Nat /\ MaxSize \in Nat /\ size \in Nat /\ next \in SignalPCs
  BY QueueAssumption DEF TypeOK
<1>1. TypeOK'
  BY <1>0 DEF TypeOK
<1>2. size' = TotalSize(list')
  BY SizeOfAppend DEF TypeOK
<1>3. \E w \in Elems : size' < MaxSize + Size[w]
  BY <1>0
<1>4. /\ FifoDelivery' /\ ToSet(sent') = ToSet(sent) \cup {v}
  BY AppendConcat, AppendFresh DEF TypeOK
<1>5. pc' = [pc EXCEPT ![p] = next] /\ DOMAIN pc = Threads
  BY DEF TypeOK
<1>6. ArgsFresh'
  BY <1>4 DEF TypeOK, ArgsFresh, PutPCs, SignalPCs
<1>7. p \notin Movers /\ Movers' = Movers \cup {p} /\ Sleepers' = Sleepers \ {p}
  BY <1>5 DEF Movers, Sleepers, At, SignalPCs
<1>8. Len(list') = Len(list) + 1 /\ list' # <<>>
  <2>1. list \in Seq(Elems) /\ list' = Append(list, v)
    BY DEF TypeOK
  <2>2. Len(list') = Len(list) + 1 /\ Len(list) \in Nat
    BY <2>1
  <2>. QED  BY <2>2
<1>9. ElementsCovered'
  <2>1. Cardinality(Movers') = Cardinality(Movers) + 1
    BY <1>7, MoversFinite, FS_AddElement
  <2>2. Cardinality(Movers) \in Nat /\ Len(list) \in Nat
    BY MoversFinite, FS_CardinalityType DEF TypeOK
  <2>. QED  BY <1>7, <1>8, <2>1, <2>2 DEF ElementsCovered
<1>10. ProducersCovered' /\ NobodySleeps'
  BY <1>8 DEF ProducersCovered, NobodySleeps
<1>. QED  BY <1>1, <1>2, <1>3, <1>4, <1>6, <1>9, <1>10


(* Steps that leave the list alone. *)
LEMMA ListStays ==
  ASSUME QueueInv, TypeOK', ArgsFresh', UNCHANGED <<list, size, sent, received>>,
         Sleepers' # {} =>
           \/ Len(list) = 0
           \/ Sleepers # {} /\ Cardinality(Movers) <= Cardinality(Movers'),
         ProducersCovered', NobodySleeps', IsFiniteSet(Movers')
  PROVE  QueueInv'
<1>. USE DEF QueueInv
<1>1. SizeAccounts' /\ FifoDelivery'
  BY DEF SizeAccounts, FifoDelivery
<1>2. ElementsCovered'
  <2>1. /\ Cardinality(Movers) \in Nat /\ Cardinality(Movers') \in Nat /\ Len(list) \in Nat
        /\ list' = list
    BY MoversFinite, FS_CardinalityType DEF SizeAccounts, TypeOK
  <2>. QED  BY <2>1 DEF ElementsCovered
<1>. QED  BY <1>1, <1>2

LEMMA ThreadsFinite == \A S \in SUBSET Threads : IsFiniteSet(S)
BY QueueAssumption, FS_Subset

LEMMA PutSignalStep ==
  ASSUME QueueInv, NEW p \in Threads, PutSignal(p)
  PROVE  QueueInv'
<1>. DEFINE f == [pc EXCEPT ![p] = "idle"]
<1>0. TypeOK
  BY DEF QueueInv, SizeAccounts
<1>1. /\ pc[p] \in SignalPCs /\ pc' \in Signal(f, {"get_wait", "drain_wait"}, Ready)
      /\ arg' = [arg EXCEPT ![p] = NoElem]
      /\ UNCHANGED <<list, size, shutdown, sent, received>>
  BY DEF PutSignal, SignalNotEmpty
<1>2. \/ pc' = f /\ \A q \in Threads : f[q] \notin {"get_wait", "drain_wait"}
      \/ \E q \in Threads : /\ f[q] \in {"get_wait", "drain_wait"}
                            /\ pc' = [f EXCEPT ![q] = Ready[f[q]]]
  BY <1>1, SignalOutcome
<1>3. ptr' \in [Elems -> {"none", "held", "released"}]
  <2>1. \/ ptr' = ptr \/ ptr' = [ptr EXCEPT ![arg[p]] = "released"]
        \/ ptr' = [ptr EXCEPT ![arg[p]] = "held"]
    BY DEF PutSignal
  <2>. QED  BY <1>0, <2>1 DEF TypeOK
<1>4. ASSUME TypeOK', Sleepers' # {} => Sleepers # {} /\ Cardinality(Movers) <= Cardinality(Movers'),
             \A q \in Threads : pc'[q] \in PutPCs \cup SleepPCs => pc'[q] = pc[q],
             \A q \in Threads : pc[q] \in PutPCs => pc'[q] = pc[q]
      PROVE  QueueInv'
  <2>1. ArgsFresh'
    <3>1. /\ arg'[p] = NoElem /\ sent' = sent /\ \A u \in Threads : u # p => arg'[u] = arg[u]
      BY <1>0, <1>1 DEF TypeOK
    <3>2. NoElem \notin Elems
      BY QueueAssumption DEF NoElem
    <3>3. ASSUME NEW u \in Threads, pc'[u] \in PutPCs
          PROVE  /\ arg'[u] \in Elems /\ arg'[u] \notin ToSet(sent')
                 /\ \A q \in Threads : arg'[q] = arg'[u] => q = u
      <4>1. pc[u] \in PutPCs
        BY <1>4, <3>3
      <4>2. u # p
        BY <1>1, <4>1 DEF PutPCs, SignalPCs
      <4>3. /\ arg[u] \in Elems /\ arg[u] \notin ToSet(sent)
            /\ \A q \in Threads : arg[q] = arg[u] => q = u
        BY <4>1 DEF QueueInv, ArgsFresh
      <4>. QED  BY <3>1, <3>2, <4>2, <4>3
    <3>. QED  BY <3>3 DEF ArgsFresh
  <2>2. ProducersCovered' /\ NobodySleeps'
    BY <1>1, <1>4 DEF QueueInv, ProducersCovered, NobodySleeps, At, PutPCs, SleepPCs
  <2>3. IsFiniteSet(Movers')
    BY ThreadsFinite DEF Movers, At
  <2>. QED  BY <1>1, <1>4, <2>1, <2>2, <2>3, ListStays
<1>5. CASE pc' = f /\ \A q \in Threads : f[q] \notin {"get_wait", "drain_wait"}
  <2>1. TypeOK'
    BY <1>0, <1>1, <1>3, <1>5 DEF TypeOK
  <2>2. Sleepers' = {}
    BY <1>5 DEF Sleepers, At
  <2>3. \A q \in Threads : /\ pc'[q] \in PutPCs \cup SleepPCs => pc'[q] = pc[q]
                           /\ pc[q] \in PutPCs => pc'[q] = pc[q]
    BY <1>0, <1>1, <1>5 DEF TypeOK, PutPCs, SleepPCs, SignalPCs
  <2>. QED  BY <1>4, <2>1, <2>2, <2>3
<1>6. ASSUME NEW q \in Threads, f[q] \in {"get_wait", "drain_wait"},
             pc' = [f EXCEPT ![q] = Ready[f[q]]]
      PROVE  QueueInv'
  <2>1. q # p /\ pc[q] \in {"get_wait", "drain_wait"} /\ Ready[f[q]] \in {"get_ready", "drain_ready"}
    BY <1>0, <1>6, ReadyIs DEF TypeOK
  <2>2. TypeOK'
    BY <1>0, <1>1, <1>3, <1>6, <2>1 DEF TypeOK, ReadyPCs
  <2>3. \A r \in Threads : pc'[r] = IF r = q THEN Ready[f[q]] ELSE IF r = p THEN "idle" ELSE pc[r]
    BY <1>0, <1>6, <2>1 DEF TypeOK
  <2>4. \A r \in Threads : /\ pc'[r] \in PutPCs \cup SleepPCs => pc'[r] = pc[r]
                           /\ pc[r] \in PutPCs => pc'[r] = pc[r]
    BY <1>1, <2>1, <2>3 DEF PutPCs, SleepPCs, SignalPCs
  <2>5. Movers' = (Movers \ {p}) \cup {q} /\ p \in Movers /\ q \notin Movers /\ q \in Sleepers
    BY <1>1, <2>1, <2>3 DEF Movers, Sleepers, At, SignalPCs
  <2>6. Cardinality(Movers) <= Cardinality(Movers')
    <3>1. IsFiniteSet(Movers) /\ IsFiniteSet(Movers \ {p})
      BY ThreadsFinite, MoversFinite, FS_RemoveElement
    <3>2. Cardinality(Movers \ {p}) = Cardinality(Movers) - 1 /\ Cardinality(Movers) \in Nat
      BY <2>5, <3>1, FS_RemoveElement, FS_CardinalityType
    <3>3. Cardinality(Movers') = Cardinality(Movers \ {p}) + 1
      BY <2>5, <3>1, FS_AddElement
    <3>. QED  BY <3>2, <3>3
  <2>. QED  BY <1>4, <2>2, <2>4, <2>5, <2>6
<1>. QED  BY <1>2, <1>5, <1>6

LEMMA BlockingPutStep ==
  ASSUME QueueInv, NEW p \in Threads, NEW v \in Elems, pc[p] \in {"idle", "put_ready"},
         v \notin ToSet(sent), \A q \in Threads : arg[q] = v => q = p,
         BlockingPutBody(p, v)
  PROVE  QueueInv'
<1>0. TypeOK
  BY DEF QueueInv, SizeAccounts
<1>1. CASE ~shutdown /\ size < MaxSize /\ Enqueue(p, v, "signal")
  BY <1>1, EnqueueStep DEF SignalPCs
<1>2. ASSUME NEW to \in {"idle", "put_wait"}, NEW a \in {v, NoElem},
             pc' = [pc EXCEPT ![p] = to], arg' = [arg EXCEPT ![p] = a],
             UNCHANGED <<list, size, shutdown, ptr, sent, received>>,
             to = "put_wait" => a = v /\ ~shutdown /\ list # <<>>,
             to = "idle" => a = NoElem /\ shutdown
      PROVE  QueueInv'
  <2>1. TypeOK'
    BY <1>0, <1>2 DEF TypeOK, SleepPCs
  <2>2. Movers' = Movers /\ Sleepers' = Sleepers
    BY <1>0, <1>2 DEF TypeOK, Movers, Sleepers, At, SignalPCs
  <2>3. ArgsFresh'
    <3>1. /\ pc'[p] = to /\ arg'[p] = a /\ sent' = sent
          /\ \A u \in Threads : u # p => pc'[u] = pc[u] /\ arg'[u] = arg[u]
      BY <1>0, <1>2 DEF TypeOK
    <3>2. NoElem \notin Elems
      BY QueueAssumption DEF NoElem
    <3>3. ASSUME NEW u \in Threads, pc'[u] \in PutPCs
          PROVE  /\ arg'[u] \in Elems /\ arg'[u] \notin ToSet(sent')
                 /\ \A q \in Threads : arg'[q] = arg'[u] => q = u
      <4>1. CASE u = p
        <5>1. arg'[u] = v
          BY <1>2, <3>1, <3>3, <4>1 DEF PutPCs
        <5>. QED  BY <3>1, <4>1, <5>1
      <4>2. CASE u # p
        <5>1. /\ arg[u] \in Elems /\ arg[u] \notin ToSet(sent)
              /\ \A q \in Threads : arg[q] = arg[u] => q = u
          BY <3>1, <3>3, <4>2 DEF QueueInv, ArgsFresh
        <5>2. arg[u] # v /\ arg[u] # NoElem
          BY <3>2, <4>2, <5>1
        <5>3. arg[u] # a
          BY <5>2
        <5>. QED  BY <3>1, <4>2, <5>1, <5>3
      <4>. QED  BY <4>1, <4>2
    <3>. QED  BY <3>3 DEF ArgsFresh
  <2>4. ProducersCovered' /\ NobodySleeps'
    BY <1>0, <1>2 DEF QueueInv, TypeOK, ProducersCovered, NobodySleeps, At, SleepPCs
  <2>5. IsFiniteSet(Movers') /\ Cardinality(Movers) <= Cardinality(Movers')
    BY <2>2, MoversFinite, FS_CardinalityType
  <2>. QED  BY <1>2, <2>1, <2>2, <2>3, <2>4, <2>5, ListStays
<1>3. size >= MaxSize => list # <<>>
  <2>1. MaxSize \in Nat \ {0}
    BY QueueAssumption
  <2>. QED  BY <2>1, SizeOfEmpty DEF QueueInv, SizeAccounts
<1>. QED  BY <1>1, <1>2, <1>3 DEF BlockingPutBody


(* An element, or all of them, go out: new is what is left. *)
LEMMA TakeStep ==
  ASSUME QueueInv, NEW p \in Threads, pc[p] \in {"idle", "get_ready", "drain_ready"},
         list # <<>>, NEW new \in Seq(Elems), NEW out \in Seq(Elems),
         list' = new, received' = out, size' = TotalSize(new), size' <= size,
         received \o list = out \o new, Len(new) <= Len(list) - 1,
         pc' \in SignalNotFull([pc EXCEPT ![p] = "idle"]),
         UNCHANGED <<shutdown, arg, ptr, sent>>
  PROVE  QueueInv'
<1>. DEFINE f == [pc EXCEPT ![p] = "idle"]
<1>0. TypeOK /\ f \in [Threads -> {"idle"} \cup SleepPCs \cup ReadyPCs \cup SignalPCs]
  BY DEF QueueInv, SizeAccounts, TypeOK
<1>1. \/ pc' = f /\ \A q \in Threads : f[q] \notin {"put_wait"}
      \/ \E q \in Threads : f[q] \in {"put_wait"} /\ pc' = [f EXCEPT ![q] = Ready[f[q]]]
  BY SignalOutcome DEF SignalNotFull
<1>2. PICK q : \/ pc' = f /\ \A r \in Threads : f[r] # "put_wait"
               \/ q \in Threads /\ f[q] = "put_wait" /\ pc' = [f EXCEPT ![q] = "put_ready"]
  BY <1>1, ReadyIs
<1>3. /\ pc' \in [Threads -> {"idle"} \cup SleepPCs \cup ReadyPCs \cup SignalPCs]
      /\ \A r \in Threads : \/ pc'[r] = f[r]
                            \/ f[r] = "put_wait" /\ pc'[r] = "put_ready"
  BY <1>0, <1>2 DEF ReadyPCs
<1>4. \A r \in Threads : f[r] = IF r = p THEN "idle" ELSE pc[r]
  BY <1>0 DEF TypeOK
<1>5. At({"put_wait"})' # {} => At({"put_ready"})' # {}
  BY <1>0, <1>2 DEF At
<1>. HIDE DEF f
<1>6. SizeAccounts'
  <2>1. size' \in Nat
    BY SizeIsNat
  <2>2. TypeOK'
    BY <1>0, <1>3, <2>1 DEF TypeOK
  <2>3. PICK v \in Elems : size < MaxSize + Size[v]
    BY DEF QueueInv, SizeAccounts
  <2>4. size' < MaxSize + Size[v]
    <3>1. MaxSize \in Nat \ {0} /\ Size[v] \in Nat
      BY QueueAssumption
    <3>2. size \in Nat
      BY <1>0 DEF TypeOK
    <3>. QED  BY <2>1, <2>3, <3>1, <3>2
  <2>. QED  BY <2>2, <2>4 DEF SizeAccounts
<1>7. FifoDelivery'
  BY DEF QueueInv, FifoDelivery
<1>8. ArgsFresh'
  BY <1>3, <1>4 DEF QueueInv, ArgsFresh, PutPCs
<1>9. Movers' = Movers \ {p} /\ Sleepers' = Sleepers
  <2>1. \A r \in Threads : pc'[r] = "put_ready" \/ pc'[r] = f[r]
    BY <1>3
  <2>. QED  BY <1>3, <1>4 DEF Movers, Sleepers, At, SignalPCs
<1>10. ElementsCovered'
  <2>0. IsFiniteSet(Movers) /\ IsFiniteSet(Movers \ {p}) /\ Cardinality(Movers) \in Nat
    BY MoversFinite, FS_RemoveElement, FS_CardinalityType
  <2>1. Cardinality(Movers) - 1 <= Cardinality(Movers \ {p})
    <3>1. CASE p \in Movers
      <4>1. Cardinality(Movers \ {p}) = Cardinality(Movers) - 1
        BY <2>0, <3>1, FS_RemoveElement
      <4>. QED  BY <2>0, <4>1
    <3>2. CASE p \notin Movers
      <4>1. Movers \ {p} = Movers
        BY <3>2
      <4>2. Cardinality(Movers \ {p}) = Cardinality(Movers)
        BY <4>1
      <4>3. \A m, n \in Nat : m = n => n - 1 <= m
        OBVIOUS
      <4>. QED  BY <2>0, <4>2, <4>3
    <3>. QED  BY <3>1, <3>2
  <2>2. /\ Cardinality(Movers) \in Nat /\ Cardinality(Movers \ {p}) \in Nat
        /\ Len(list) \in Nat /\ Len(new) \in Nat
    BY <1>0, <2>0, FS_CardinalityType DEF TypeOK
  <2>. QED  BY <1>9, <2>1, <2>2 DEF QueueInv, ElementsCovered
<1>11. ProducersCovered'
  BY <1>5 DEF ProducersCovered
<1>12. NobodySleeps'
  BY <1>3, <1>4 DEF QueueInv, NobodySleeps, At, SleepPCs
<1>. QED  BY <1>6, <1>7, <1>8, <1>10, <1>11, <1>12 DEF QueueInv

(* The list is empty: the caller goes to sleep, or returns. *)
LEMMA EmptyStep ==
  ASSUME QueueInv, NEW p \in Threads, pc[p] \in {"idle", "get_ready", "drain_ready"},
         list = <<>>, NEW asleep \in {"get_wait", "drain_wait"},
         pc' = [pc EXCEPT ![p] = IF shutdown THEN "idle" ELSE asleep],
         UNCHANGED <<list, size, shutdown, arg, ptr, sent, received>>
  PROVE  QueueInv'
<1>0. TypeOK
  BY DEF QueueInv, SizeAccounts
<1>1. PICK to \in {"idle", "get_wait", "drain_wait"} :
        pc' = [pc EXCEPT ![p] = to] /\ (shutdown => to = "idle")
  OBVIOUS
<1>2. TypeOK'
  BY <1>0, <1>1 DEF TypeOK, SleepPCs
<1>3. ArgsFresh'
  BY <1>0, <1>1 DEF QueueInv, TypeOK, ArgsFresh, PutPCs
<1>4. Len(list) = 0
  OBVIOUS
<1>5. At({"put_wait"})' = At({"put_wait"}) /\ At({"put_ready"})' = At({"put_ready"})
  BY <1>0, <1>1 DEF TypeOK, At
<1>6. ProducersCovered'
  BY <1>5 DEF QueueInv, ProducersCovered
<1>7. NobodySleeps'
  BY <1>0, <1>1 DEF QueueInv, TypeOK, NobodySleeps, At, SleepPCs
<1>8. IsFiniteSet(Movers')
  BY ThreadsFinite DEF Movers, At
<1>. QED  BY <1>2, <1>3, <1>4, <1>6, <1>7, <1>8, ListStays

LEMMA WakeStep ==
  ASSUME QueueInv, NEW p \in Threads, Shutdown(p) \/ SpuriousWakeup(p)
  PROVE  QueueInv'
<1>0. TypeOK
  BY DEF QueueInv, SizeAccounts
<1>1. UNCHANGED <<list, size, arg, ptr, sent, received>>
  BY DEF Shutdown, SpuriousWakeup
<1>2. \A s \in SleepPCs : Ready[s] \in ReadyPCs
  BY ReadyIs DEF SleepPCs, ReadyPCs
<1>3. CASE Shutdown(p)
  <2>1. /\ pc' = [q \in Threads |-> IF pc[q] \in SleepPCs THEN Ready[pc[q]] ELSE pc[q]]
        /\ shutdown' \in BOOLEAN
    BY <1>3 DEF Shutdown
  <2>2. TypeOK'
    BY <1>0, <1>1, <1>2, <2>1 DEF TypeOK
  <2>3. \A q \in Threads : pc'[q] \notin SleepPCs /\ (pc'[q] \in PutPCs => pc[q] \in PutPCs)
    BY <1>0, <1>2, <2>1, ReadyIs DEF TypeOK, SleepPCs, ReadyPCs, SignalPCs, PutPCs
  <2>4. ArgsFresh'
    BY <1>1, <2>3 DEF QueueInv, ArgsFresh
  <2>5. Sleepers' = {} /\ ProducersCovered' /\ NobodySleeps'
    BY <2>3 DEF Sleepers, ProducersCovered, NobodySleeps, At, SleepPCs
  <2>6. IsFiniteSet(Movers')
    BY ThreadsFinite DEF Movers, At
  <2>. QED  BY <1>1, <2>2, <2>4, <2>5, <2>6, ListStays
<1>4. CASE SpuriousWakeup(p)
  <2>1. pc[p] \in SleepPCs /\ pc' = [pc EXCEPT ![p] = Ready[pc[p]]] /\ UNCHANGED shutdown
    BY <1>4 DEF SpuriousWakeup
  <2>2. TypeOK'
    BY <1>0, <1>1, <1>2, <2>1 DEF TypeOK
  <2>3. \A q \in Threads : q # p => pc'[q] = pc[q]
    BY <1>0, <2>1 DEF TypeOK
  <2>4. \/ pc[p] = "put_wait" /\ pc'[p] = "put_ready"
        \/ pc[p] = "get_wait" /\ pc'[p] = "get_ready"
        \/ pc[p] = "drain_wait" /\ pc'[p] = "drain_ready"
    BY <1>0, <2>1, ReadyIs DEF TypeOK, SleepPCs
  <2>5. ArgsFresh'
    BY <1>1, <2>3, <2>4 DEF QueueInv, ArgsFresh, PutPCs
  <2>6. Movers \subseteq Movers' /\ Sleepers' \subseteq Sleepers
    BY <2>3, <2>4 DEF Movers, Sleepers, At, SignalPCs
  <2>7. IsFiniteSet(Movers')
    BY ThreadsFinite DEF Movers, At
  <2>8. Cardinality(Movers) <= Cardinality(Movers')
    BY <2>6, <2>7, FS_Subset
  <2>9. ProducersCovered'
    BY <1>1, <2>3, <2>4 DEF QueueInv, ProducersCovered, At
  <2>10. NobodySleeps'
    BY <2>1, <2>3, <2>4 DEF QueueInv, NobodySleeps, At, SleepPCs
  <2>. QED  BY <1>1, <2>2, <2>5, <2>6, <2>7, <2>8, <2>9, <2>10, ListStays
<1>. QED  BY <1>3, <1>4


LEMMA TakeBodies ==
  ASSUME QueueInv, NEW p \in Threads, pc[p] \in {"idle", "get_ready", "drain_ready"},
         BlockingGetBody(p) \/ BlockingDrainBody(p)
  PROVE  QueueInv'
<1>0. TypeOK /\ list \in Seq(Elems) /\ received \in Seq(Elems) /\ size = TotalSize(list)
  BY DEF QueueInv, SizeAccounts, TypeOK
<1>1. CASE BlockingGetBody(p) /\ list # <<>>
  <2>1. Tail(list) \in Seq(Elems) /\ Head(list) \in Elems /\ Len(Tail(list)) <= Len(list) - 1
    BY <1>0, <1>1
  <2>2. /\ received' = Append(received, Head(list)) /\ list' = Tail(list)
        /\ size' = size - Size[Head(list)] /\ pc' \in SignalNotFull([pc EXCEPT ![p] = "idle"])
        /\ UNCHANGED <<shutdown, arg, ptr, sent>>
    BY <1>1 DEF BlockingGetBody, DecrementSizeUnlocked
  <2>3. Append(received, Head(list)) \in Seq(Elems)
        /\ received \o list = Append(received, Head(list)) \o Tail(list)
    BY <1>0, <1>1, <2>1, TailConcat
  <2>4. size' = TotalSize(Tail(list)) /\ size' <= size
    <3>1. TotalSize(list) = Size[Head(list)] + TotalSize(Tail(list))
      BY <1>0, <1>1, SizeOfTail
    <3>2. Size[Head(list)] \in Nat /\ TotalSize(Tail(list)) \in Nat
      BY <2>1, QueueAssumption, SizeIsNat
    <3>. QED  BY <1>0, <2>2, <3>1, <3>2
  <2>. QED  BY <1>1, <2>1, <2>2, <2>3, <2>4, TakeStep
<1>2. CASE BlockingDrainBody(p) /\ list # <<>>
  <2>1. /\ received' = received \o list /\ list' = <<>>
        /\ size' = size - TotalSize(list) /\ pc' \in SignalNotFull([pc EXCEPT ![p] = "idle"])
        /\ UNCHANGED <<shutdown, arg, ptr, sent>>
    BY <1>2 DEF BlockingDrainBody
  <2>2. /\ <<>> \in Seq(Elems) /\ received \o list \in Seq(Elems)
        /\ received \o list = (received \o list) \o <<>>
    BY <1>0, NothingConcat
  <2>3. Len(<<>>) <= Len(list) - 1
    BY <1>0, <1>2
  <2>4. size' = TotalSize(<<>>) /\ size' <= size
    BY <1>0, <2>1, SizeIsNat, SizeOfEmpty
  <2>. QED  BY <1>2, <2>1, <2>2, <2>3, <2>4, TakeStep
<1>3. CASE list = <<>>
  BY <1>3, EmptyStep DEF BlockingGetBody, BlockingDrainBody
<1>. QED  BY <1>1, <1>2, <1>3

LEMMA PutStep ==
  ASSUME QueueInv, NEW p \in Threads, NEW v \in Elems,
         \/ Put(p, v) \/ BlockingPut(p, v) \/ PutScoped(p, v) \/ BlockingPutScoped(p, v)
  PROVE  QueueInv'
<1>0. TypeOK
  BY DEF QueueInv, SizeAccounts
<1>1. /\ pc[p] = "idle" /\ v \notin ToSet(sent) /\ \A q \in Threads : arg[q] # v
  BY DEF Put, BlockingPut, PutScoped, BlockingPutScoped, Puttable
<1>2. PutStatus = "QUEUE_SUCCESS" => size < MaxSize /\ ~shutdown
  <2>1. size \in Nat /\ MaxSize \in Nat \ {0}
    BY <1>0, QueueAssumption DEF TypeOK
  <2>. QED  BY <2>1 DEF PutStatus
<1>3. CASE BlockingPut(p, v)
  BY <1>1, <1>3, BlockingPutStep DEF BlockingPut
<1>4. ASSUME NEW next \in SignalPCs, PutStatus = "QUEUE_SUCCESS", Enqueue(p, v, next)
      PROVE  QueueInv'
  BY <1>1, <1>2, <1>4, EnqueueStep
<1>5. ASSUME NEW x \in {"held", "released"}, ptr' = [ptr EXCEPT ![v] = x],
             UNCHANGED <<list, size, shutdown, pc, arg, sent, received>>
      PROVE  QueueInv'
  <2>1. TypeOK'
    BY <1>0, <1>5 DEF TypeOK
  <2>2. ArgsFresh' /\ ProducersCovered' /\ NobodySleeps'
    BY <1>5 DEF QueueInv, ArgsFresh, ProducersCovered, NobodySleeps, At
  <2>3. Movers' = Movers /\ Sleepers' = Sleepers
    BY <1>5 DEF Movers, Sleepers, At
  <2>4. IsFiniteSet(Movers') /\ Cardinality(Movers) <= Cardinality(Movers')
    BY <2>3, MoversFinite, FS_CardinalityType
  <2>. QED  BY <1>5, <2>1, <2>2, <2>3, <2>4, ListStays
<1>6. CASE Put(p, v)
  BY <1>4, <1>6 DEF Put, SignalPCs
<1>7. CASE PutScoped(p, v)
  BY <1>4, <1>5, <1>7 DEF PutScoped, SignalPCs
<1>8. CASE BlockingPutScoped(p, v)
  BY <1>4, <1>5, <1>8 DEF BlockingPutScoped, SignalPCs
<1>. QED  BY <1>3, <1>6, <1>7, <1>8

LEMMA QueueInvariant == QueueInv /\ [Next]_vars => QueueInv'
<1>. SUFFICES ASSUME QueueInv, [Next]_vars PROVE QueueInv'
  OBVIOUS
<1>1. CASE UNCHANGED vars
  <2>1. TypeOK'
    BY <1>1 DEF QueueInv, SizeAccounts, TypeOK, vars
  <2>2. ArgsFresh' /\ ProducersCovered' /\ NobodySleeps'
    BY <1>1 DEF QueueInv, ArgsFresh, ProducersCovered, NobodySleeps, At, vars
  <2>3. Movers' = Movers /\ Sleepers' = Sleepers
    BY <1>1 DEF Movers, Sleepers, At, vars
  <2>4. IsFiniteSet(Movers') /\ Cardinality(Movers) <= Cardinality(Movers')
    BY <2>3, MoversFinite, FS_CardinalityType
  <2>5. UNCHANGED <<list, size, sent, received>>
    BY <1>1 DEF vars
  <2>. QED  BY <2>1, <2>2, <2>3, <2>4, <2>5, ListStays
<1>2. ASSUME NEW p \in Threads,
             \/ \E v \in Elems \ Scoped : Put(p, v) \/ BlockingPut(p, v)
             \/ \E v \in Scoped : PutScoped(p, v) \/ BlockingPutScoped(p, v)
      PROVE  QueueInv'
  BY <1>2, PutStep, QueueAssumption
<1>3. ASSUME NEW p \in Threads, BlockingPutWoken(p) PROVE QueueInv'
  <2>1. /\ pc[p] = "put_ready" /\ BlockingPutBody(p, arg[p])
        /\ arg[p] \in Elems /\ arg[p] \notin ToSet(sent)
        /\ \A q \in Threads : arg[q] = arg[p] => q = p
    BY <1>3 DEF BlockingPutWoken, QueueInv, ArgsFresh, PutPCs
  <2>2. PICK v \in Elems : v = arg[p]
    BY <2>1
  <2>. QED  BY <2>1, <2>2, BlockingPutStep
<1>4. ASSUME NEW p \in Threads, BlockingGet(p) \/ BlockingDrainTo(p) PROVE QueueInv'
  BY <1>4, TakeBodies DEF BlockingGet, BlockingDrainTo
<1>5. ASSUME NEW p \in Threads, PutSignal(p) PROVE QueueInv'
  BY <1>5, PutSignalStep
<1>6. ASSUME NEW p \in Threads, Shutdown(p) \/ SpuriousWakeup(p) PROVE QueueInv'
  BY <1>6, WakeStep
<1>. QED  BY <1>1, <1>2, <1>3, <1>4, <1>5, <1>6 DEF Next

LEMMA QueueWakes == QueueInv => NoLostWakeup
<1>. SUFFICES ASSUME QueueInv PROVE NoLostWakeup
  OBVIOUS
<1>. DEFINE S == At(SignalPCs)  R == At({"get_ready", "drain_ready"})
<1>1. Movers = S \cup R /\ S \cap R = {}
  BY DEF Movers, At, SignalPCs
<1>2. IsFiniteSet(S) /\ IsFiniteSet(R)
  BY ThreadsFinite DEF At
<1>3. Cardinality(S \cup R) = Cardinality(S) + Cardinality(R) - Cardinality(S \cap R)
  BY <1>2, FS_Union
<1>4. Cardinality(S \cap R) = 0 /\ Cardinality(S) \in Nat /\ Cardinality(R) \in Nat
  BY <1>1, <1>2, FS_EmptySet, FS_CardinalityType
<1>5. Cardinality(Movers) = Cardinality(S) + Cardinality(R)
  BY <1>1, <1>3, <1>4
<1>. QED
  BY <1>5 DEF QueueInv, NoLostWakeup, ElementsCovered, ProducersCovered, Sleepers

LEMMA QueueIsInvariant == Spec => []QueueInv
BY QueueInitial, QueueInvariant, PTL DEF Spec

(* size_ is the total logical size of what is in list_, for lists of any   *)
(* length, and exceeds max_size_ by less than one element.                 *)
THEOREM SizeCorrect == Spec => []SizeAccounts
<1>1. QueueInv => SizeAccounts
  BY DEF QueueInv
<1>. QED  BY <1>1, QueueIsInvariant, PTL

(* Elements come out in the order in which they went in, each once, for    *)
(* any number of threads that put, get and drain.                          *)
THEOREM DeliveryCorrect == Spec => []FifoDelivery
<1>1. QueueInv => FifoDelivery
  BY DEF QueueInv
<1>. QED  BY <1>1, QueueIsInvariant, PTL

(* No wake-up is lost, for any number of threads, elements and capacity.   *)
THEOREM WakeupsCorrect == Spec => []NoLostWakeup
BY QueueIsInvariant, QueueWakes, PTL

(* After Shutdown() nobody sleeps in the queue and nothing is added to it. *)
THEOREM ShutdownCorrect == Spec => ShutdownFreezes
<1>1. QueueInv => (shutdown => At(SleepPCs) = {})
  BY DEF QueueInv, NobodySleeps
<1>2. QueueInv /\ [Next]_vars => [shutdown => sent' = sent]_vars
  <2>. SUFFICES ASSUME QueueInv, Next, shutdown PROVE sent' = sent
    OBVIOUS
  <2>1. PutStatus # "QUEUE_SUCCESS"
    <3>1. size \in Nat /\ MaxSize \in Nat \ {0}
      BY QueueAssumption DEF QueueInv, SizeAccounts, TypeOK
    <3>. QED  BY <3>1 DEF PutStatus
  <2>. QED
    BY <2>1 DEF Next, Put, BlockingPut, PutScoped, BlockingPutScoped, PutSignal,
                BlockingPutWoken, BlockingPutBody, BlockingGet, BlockingDrainTo,
                BlockingGetBody, BlockingDrainBody, Shutdown, SpuriousWakeup
<1>. QED  BY <1>1, <1>2, QueueIsInvariant, PTL DEF Spec, ShutdownFreezes

=============================================================================
