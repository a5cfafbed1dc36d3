--------------------------- MODULE SecurityProofs ---------------------------
(***************************************************************************)
(* Proofs that the token signer, its verifiers and the renewal thread keep *)
(* their safety properties, for any intervals, any number of verifiers,    *)
(* keys and crashes.                                                       *)
(***************************************************************************)
EXTENDS MCSecurity, SequenceTheorems, WellFoundedInduction, TLAPS

-----------------------------------------------------------------------------
(* Every non-empty set of natural numbers has a least element, and one     *)
(* that has a bound has a greatest: what CHOOSE needs in Max and Latest.   *)
LEMMA LeastNat ==
  ASSUME NEW T, T \subseteq Nat, T # {}
  PROVE  \E x \in T : \A y \in T : x <= y
<1>1. PICK R : R = OpToRel(<, Nat)
  OBVIOUS
<1>2. IsWellFoundedOn(R, Nat)
  BY <1>1, NatLessThanWellFounded
<1>3. \A x, y \in Nat : <<x, y>> \in R <=> x < y
  BY <1>1 DEF OpToRel
<1>4. PICK x \in T : \A y \in T : <<y, x>> \notin R
  BY <1>2, WFMin
<1>5. ASSUME NEW y \in T PROVE x <= y
  <2>1. x \in Nat /\ y \in Nat /\ <<y, x>> \notin R
    BY <1>4
  <2>2. ~(y < x)
    BY <1>3, <2>1
  <2>. QED  BY <2>1, <2>2
<1>. QED  BY <1>5

LEMMA GreatestNat ==
  ASSUME NEW S \in SUBSET Nat, S # {}, NEW b \in Nat, \A n \in S : n <= b
  PROVE  \E m \in S : \A n \in S : n <= m
<1> DEFINE Upper == {m \in Nat : \A n \in S : n <= m}
<1>1. PICK u \in Upper : \A m \in Upper : u <= m
  <2>1. Upper \subseteq Nat /\ b \in Upper
    OBVIOUS
  <2>. HIDE DEF Upper
  <2>. QED  BY <2>1, LeastNat
<1>2. CASE u \in S
  BY <1>1, <1>2
<1>3. CASE u \notin S
  <2>1. PICK s \in S : s \in Nat
    OBVIOUS
  <2>2. u \in Nat /\ u # 0 /\ u - 1 \in Nat
    BY <1>1, <1>3, <2>1
  <2>3. ASSUME NEW n \in S PROVE n <= u - 1
    BY <1>1, <1>3, <2>2
  <2>4. u - 1 \in Upper
    BY <2>2, <2>3
  <2>. QED  BY <1>1, <2>2, <2>4
<1>. QED  BY <1>2, <1>3

LEMMA MaxIs ==
  ASSUME NEW S \in SUBSET Nat, S # {}, NEW b \in Nat, \A n \in S : n <= b
  PROVE  Max(S) \in S /\ \A n \in S : n <= Max(S)
<1>1. PICK m \in S : \A n \in S : n <= m
  BY GreatestNat
<1>2. \A n \in S : m >= n
  BY <1>1
<1>3. Max(S) \in S /\ \A n \in S : Max(S) >= n
  BY <1>2 DEF Max
<1>. QED  BY <1>3

(* What the operators of the model return for a bounded set of keys. *)
LEMMA LatestIs ==
  ASSUME NEW K \in SUBSET Keys, K # {}, NEW b \in Nat, \A k \in K : k.seq <= b
  PROVE  Latest(K) \in K /\ \A j \in K : j.seq <= Latest(K).seq
<1> DEFINE S == {k.seq : k \in K}
<1>1. S \in SUBSET Nat /\ S # {} /\ \A n \in S : n <= b
  BY DEF Keys
<1>2. PICK m \in S : \A n \in S : n <= m
  <2>. HIDE DEF S
  <2>. QED  BY <1>1, GreatestNat
<1>3. PICK k \in K : \A j \in K : j.seq <= k.seq
  BY <1>2
<1>. QED  BY <1>3 DEF Latest

LEMMA NewestIs ==
  ASSUME NEW K \in SUBSET Keys, NEW b \in Nat, \A k \in K : k.seq <= b,
         \A j, k \in K : j.seq = k.seq => j = k,
         NEW D, D = Newest(K)
  PROVE  /\ D \in Seq(K) /\ Len(D) <= 2
         /\ Len(D) = 2 => D[1].seq < D[2].seq
         /\ K = {} => D = <<>>
         /\ K # {} => D # <<>> /\ \A j \in K : j.seq <= D[Len(D)].seq
<1>1. CASE K = {}
  BY <1>1 DEF Newest
<1>2. CASE K # {}
  <2> DEFINE a == Latest(K)
             c == Latest(K \ {a})
  <2>1. a \in K /\ \A j \in K : j.seq <= a.seq
    BY <1>2, LatestIs
  <2>2. CASE K = {a}
    <3>1. D = <<a>>
      BY <1>2, <2>2 DEF Newest
    <3>. HIDE DEF a
    <3>. QED  BY <1>2, <2>1, <3>1
  <2>3. CASE K # {a}
    <3>1. D = <<c, a>>
      BY <1>2, <2>3 DEF Newest
    <3>2. K \ {a} \in SUBSET Keys /\ K \ {a} # {}
      BY <2>1, <2>3
    <3>3. c \in K \ {a}
      <4>. HIDE DEF a
      <4>. QED  BY <3>2, LatestIs
    <3>. HIDE DEF a, c
    <3>4. c.seq <= a.seq /\ c.seq # a.seq /\ c.seq \in Nat /\ a.seq \in Nat
      BY <2>1, <3>3 DEF Keys
    <3>5. c.seq < a.seq
      BY <3>4
    <3>. QED  BY <1>2, <2>1, <3>1, <3>3, <3>5
  <2>. QED  BY <2>2, <2>3
<1>. QED  BY <1>1, <1>2

LEMMA MaxKnownIs ==
  ASSUME NEW K \in SUBSET Keys, NEW b \in Nat, \A k \in K : k.seq <= b,
         NEW n \in Nat
  PROVE  n <= GetMaxKnownKeySequenceNumber(K) <=> \E j \in K : n <= j.seq
<1>1. CASE K = {}
  BY <1>1 DEF GetMaxKnownKeySequenceNumber
<1>2. CASE K # {}
  <2>1. /\ SeqNums(K) \in SUBSET Nat /\ SeqNums(K) # {}
        /\ \A m \in SeqNums(K) : m <= b
    BY <1>2 DEF SeqNums, Keys
  <2>2. Max(SeqNums(K)) \in SeqNums(K) /\ \A m \in SeqNums(K) : m <= Max(SeqNums(K))
    BY <2>1, MaxIs
  <2>3. PICK j \in K : j.seq = Max(SeqNums(K))
    BY <2>2 DEF SeqNums
  <2>4. \A i \in K : i.seq \in Nat /\ i.seq <= Max(SeqNums(K))
    BY <2>2 DEF SeqNums, Keys
  <2>5. GetMaxKnownKeySequenceNumber(K) = Max(SeqNums(K))
    BY <1>2 DEF GetMaxKnownKeySequenceNumber
  <2>. QED  BY <2>3, <2>4, <2>5
<1>. QED  BY <1>1, <1>2

-----------------------------------------------------------------------------
Created(k) == k.expire - KeyValidity
Deque == ToSet(tsk_deque)
Newer == tsk_deque[Len(tsk_deque)]

(* The stored keys: in the order of their numbers they are a rotation      *)
(* interval apart.                                                         *)
Spaced ==
  /\ \A j, k \in stored : j.seq = k.seq => j = k
  /\ \A j, k \in stored : j.seq < k.seq => j.expire + Rotation <= k.expire
Bounded == \E b \in Nat : \A k \in stored : k.seq <= b
Numbered == maint # "start" => \A k \in stored : k.seq < next_key_seq_num

(* Whatever the signer and the verifiers have was stored. *)
Kept ==
  /\ Deque \subseteq keys_by_seq /\ keys_by_seq \subseteq stored
  /\ \A v \in Remotes : remote[v] \subseteq stored /\ reply[v] \subseteq stored
  /\ Len(tsk_deque) = 2 => tsk_deque[1].seq < tsk_deque[2].seq
  /\ maint = "start" => tsk_deque = <<>> /\ keys_by_seq = {}

(* The key that is on its way into the table and the signer. *)
Coming ==
  maint \in {"store", "add"} =>
    /\ tsk \in Keys /\ tsk.expire = round.began + KeyValidity
    /\ tsk.seq < next_key_seq_num /\ Len(tsk_deque) <= 1
    /\ maint = "store" <=> tsk \notin stored
    /\ tsk \notin keys_by_seq
    /\ \A j \in stored \ {tsk} :
         j.seq < tsk.seq /\ j.expire + Rotation <= tsk.expire

(* The signer has the live keys, and the newest of them in its deque. *)
Loaded ==
  maint # "start" =>
    \A k \in stored :
      \/ k.expire <= now
      \/ maint = "add" /\ k = tsk
      \/ k \in keys_by_seq /\ tsk_deque # <<>> /\ k.seq <= Newer.seq

(* A token was signed with a stored key. *)
Signed ==
  token # NoToken =>
    \E k \in stored : /\ k.seq = token.seq /\ k.rsa = token.rsa
                      /\ maint = "add" => k # tsk

KeyInv ==
  /\ TypeOK /\ Spaced /\ Bounded /\ Numbered /\ Kept /\ Coming /\ Loaded /\ Signed

(* The keys a verifier may ever be told of again. *)
Offered == keys_by_seq \cup {k \in stored : k.expire > now}

NoGaps ==
  \A v \in Remotes : \A k \in Offered :
    /\ \A j \in remote[v] : k.seq <= j.seq => k \in remote[v]
    /\ \A j \in reply[v] : k.seq <= j.seq => k \in remote[v] \cup reply[v]

(* Rounds follow one another, and at their end the active key is young. *)
Rounds ==
  /\ round.done <= round.began /\ round.began <= now
  /\ now <= round.done + MaxGap
  /\ stamp <= now + Validity
Longer == IF Rotation > Validity THEN Rotation ELSE Validity
ActiveYoung ==
  /\ tsk_deque # <<>> => Created(tsk_deque[1]) + Rotation + Longer > round.done
  /\ (maint = "rotate" /\ Len(tsk_deque) = 1) =>
       Created(tsk_deque[1]) + Rotation > round.began

AgeInv == Rounds /\ ActiveYoung /\ OverhangBounded

(* In a run without crashes the next key is asked for in time. *)
Propagated ==
  /\ \A r \in 1..MaxKeys : registered[r] <= now
  /\ crashes = 0 =>
       /\ maint = "start" => stored = {}
       /\ (Len(tsk_deque) = 1 /\ maint # "rotate") =>
            Created(tsk_deque[1]) + Rotation + MaxGap > round.done
       /\ Len(tsk_deque) = 2 =>
            /\ Created(tsk_deque[2]) + Rotation > round.done
            /\ registered[tsk_deque[2].rsa]
                 < Created(tsk_deque[1]) + Rotation + 2 * MaxGap

SignerInv == KeyInv /\ NoGaps /\ AgeInv /\ Propagated

(* What is in the deque: at most two keys. *)
LEMMA DequeIs ==
  ASSUME TypeOK
  PROVE  /\ Len(tsk_deque) \in {0, 1, 2}
         /\ tsk_deque = <<>> <=> Len(tsk_deque) = 0
         /\ \A i \in 1..Len(tsk_deque) :
              tsk_deque[i] \in Keys /\ tsk_deque[i] \in Deque
         /\ tsk_deque # <<>> => Head(tsk_deque) = tsk_deque[1]
<1>1. tsk_deque \in Seq(Keys) /\ Len(tsk_deque) \in Nat /\ Len(tsk_deque) <= 2
  BY DEF TypeOK
<1>2. Len(tsk_deque) \in {0, 1, 2}
  <2>1. \A n \in Nat : n <= 2 => n \in {0, 1, 2}
    OBVIOUS
  <2>. QED  BY <1>1, <2>1
<1>. QED  BY <1>1, <1>2 DEF Deque, ToSet

LEMMA TailOfTwo ==
  ASSUME NEW S, NEW s \in Seq(S), Len(s) = 2
  PROVE  Tail(s) = <<s[2]>>
<1>1. s # <<>>
  OBVIOUS
<1>2. /\ Tail(s) \in Seq(S) /\ Len(Tail(s)) = Len(s) - 1
      /\ \A i \in 1..Len(s) - 1 : Tail(s)[i] = s[i + 1]
  BY <1>1
<1>3. Len(Tail(s)) = 1 /\ Tail(s)[1] = s[2]
  BY <1>2
<1>4. s[2] \in S
  OBVIOUS
<1>5. <<s[2]>> \in Seq(S) /\ Len(<<s[2]>>) = 1 /\ <<s[2]>>[1] = s[2]
  BY <1>4
<1>6. \A i \in 1..Len(Tail(s)) : Tail(s)[i] = <<s[2]>>[i]
  <2>1. \A i \in 1..1 : i = 1
    OBVIOUS
  <2>. QED  BY <1>3, <1>5, <2>1
<1>. QED  BY <1>2, <1>3, <1>5, <1>6, SeqEqual

LEMMA FieldsAre ==
  ASSUME NEW k \in Keys
  PROVE  k.seq \in Nat /\ k.expire \in Nat /\ k.rsa \in 1..MaxKeys
  BY DEF Keys

(* What ImportKeys() makes of the stored keys. *)
LEMMA ImportIs ==
  ASSUME KeyInv, ImportKeys, NEW live, live = {k \in stored : k.expire > now}
  PROVE  /\ tsk_deque' \in Seq(live) /\ Len(tsk_deque') <= 2
         /\ Len(tsk_deque') = 2 => tsk_deque'[1].seq < tsk_deque'[2].seq
         /\ live = {} => tsk_deque' = <<>>
         /\ live # {} => /\ tsk_deque' # <<>>
                         /\ \A j \in live : j.seq <= tsk_deque'[Len(tsk_deque')].seq
         /\ keys_by_seq' = live
         /\ next_key_seq_num' \in Nat
         /\ \A k \in stored : k.seq < next_key_seq_num'
<1>1. /\ stored \in SUBSET Keys /\ live \in SUBSET Keys
      /\ tsk_deque = <<>> /\ keys_by_seq = {} /\ next_key_seq_num \in Nat
  BY DEF KeyInv, TypeOK, Kept, ImportKeys
<1>2. PICK b \in Nat : \A k \in stored : k.seq <= b
  BY DEF KeyInv, Bounded
<1>3. \A j, k \in stored : j.seq = k.seq => j = k
  BY DEF KeyInv, Spaced
<1> DEFINE first == Newest(live)
           both == ToSet(first) \cup ToSet(tsk_deque)
<1>4. /\ first \in Seq(live) /\ Len(first) <= 2
      /\ live = {} => first = <<>>
      /\ live # {} => first # <<>> /\ \A j \in live : j.seq <= first[Len(first)].seq
  <2>1. (\A k \in live : k.seq <= b) /\ \A j, k \in live : j.seq = k.seq => j = k
    BY <1>2, <1>3
  <2>. QED  BY <1>1, <2>1, NewestIs
<1>. HIDE DEF first
<1>5. /\ both \subseteq live
      /\ live = {} => both = {}
      /\ live # {} => \E l \in both : \A j \in live : j.seq <= l.seq
  <2>1. both = {first[i] : i \in 1..Len(first)} /\ Len(first) \in Nat
    BY <1>1, <1>4 DEF ToSet
  <2>2. live # {} => Len(first) \in 1..Len(first)
    BY <1>4
  <2>3. live = {} => Len(first) = 0
    BY <1>4
  <2>. HIDE DEF both
  <2>. QED  BY <1>4, <2>1, <2>2, <2>3
<1>6. tsk_deque' = Newest(both)
  BY DEF ImportKeys, first
<1>. HIDE DEF both
<1>7. /\ tsk_deque' \in Seq(both) /\ Len(tsk_deque') <= 2
      /\ Len(tsk_deque') = 2 => tsk_deque'[1].seq < tsk_deque'[2].seq
      /\ both = {} => tsk_deque' = <<>>
      /\ both # {} => /\ tsk_deque' # <<>>
                      /\ \A j \in both : j.seq <= tsk_deque'[Len(tsk_deque')].seq
  <2>1. both \in SUBSET Keys
    BY <1>1, <1>5
  <2>2. (\A k \in both : k.seq <= b) /\ \A j, k \in both : j.seq = k.seq => j = k
    BY <1>2, <1>3, <1>5
  <2>. QED  BY <1>6, <2>1, <2>2, NewestIs
<1>8. tsk_deque' \in Seq(live)
  BY <1>5, <1>7
<1>9. ASSUME NEW j \in live
      PROVE  tsk_deque' # <<>> /\ j.seq <= tsk_deque'[Len(tsk_deque')].seq
  <2>1. PICK l \in both : j.seq <= l.seq
    BY <1>5
  <2>2. tsk_deque' # <<>> /\ l.seq <= tsk_deque'[Len(tsk_deque')].seq
    BY <1>7
  <2>3. Len(tsk_deque') \in 1..Len(tsk_deque')
    BY <1>7, <2>2
  <2>4. tsk_deque'[Len(tsk_deque')] \in live
    BY <1>8, <2>3
  <2>5. j.seq \in Nat /\ l.seq \in Nat /\ tsk_deque'[Len(tsk_deque')].seq \in Nat
    BY <1>1, <1>5, <2>4, FieldsAre
  <2>. QED  BY <2>1, <2>2, <2>5
<1>10. keys_by_seq' = live
  BY <1>1 DEF ImportKeys, VerifierImport, SeqNums
<1>11. next_key_seq_num' \in Nat /\ \A k \in stored : k.seq < next_key_seq_num'
  <2> DEFINE S == {next_key_seq_num} \cup {k.seq + 1 : k \in stored}
             top == b + 1 + next_key_seq_num
  <2>1. \A k \in stored : k.seq \in Nat
    BY <1>1, FieldsAre
  <2>2. S \in SUBSET Nat /\ S # {} /\ top \in Nat /\ \A n \in S : n <= top
    BY <1>1, <1>2, <2>1
  <2>3. next_key_seq_num' = Max(S)
    BY DEF ImportKeys
  <2>4. \A k \in stored : k.seq + 1 \in S
    OBVIOUS
  <2>. HIDE DEF S, top
  <2>5. Max(S) \in S /\ \A n \in S : n <= Max(S)
    BY <2>2, MaxIs
  <2>6. ASSUME NEW k \in stored PROVE k.seq < next_key_seq_num'
    <3>1. k.seq + 1 <= Max(S) /\ Max(S) \in Nat /\ k.seq \in Nat
      BY <2>1, <2>2, <2>4, <2>5
    <3>. QED  BY <2>3, <3>1
  <2>7. next_key_seq_num' \in Nat
    BY <2>2, <2>3, <2>5
  <2>. QED  BY <2>6, <2>7
<1>. QED  BY <1>5, <1>7, <1>8, <1>9, <1>10, <1>11

(* What AddKey() does with a key that has not expired. *)
LEMMA AddIs ==
  ASSUME KeyInv, AddKey, tsk.expire > now
  PROVE  /\ next_key_seq_num' = next_key_seq_num
         /\ keys_by_seq' = keys_by_seq \cup {tsk}
         /\ tsk_deque' = Append(tsk_deque, tsk)
         /\ Len(tsk_deque) \in {0, 1} /\ Len(tsk_deque') = Len(tsk_deque) + 1
         /\ tsk_deque'[Len(tsk_deque')] = tsk
         /\ \A i \in 1..Len(tsk_deque) : tsk_deque'[i] = tsk_deque[i]
         /\ tsk \in stored /\ tsk \in Keys
<1>1. /\ tsk \in Keys /\ tsk \in stored /\ tsk.seq < next_key_seq_num
      /\ tsk \notin keys_by_seq
      /\ \A j \in stored \ {tsk} : j.seq < tsk.seq
      /\ Len(tsk_deque) <= 1
  BY DEF KeyInv, Coming, AddKey
<1>2. /\ tsk.seq \in Nat /\ next_key_seq_num \in Nat
      /\ tsk.expire \in Nat /\ now \in Nat
  BY <1>1, TokenAssumption, FieldsAre DEF KeyInv, TypeOK
<1>a. ~(tsk.expire <= now)
  BY <1>2
<1>3. next_key_seq_num' = next_key_seq_num
  <2>1. next_key_seq_num' = Max({next_key_seq_num, tsk.seq + 1})
    BY <1>a DEF AddKey
  <2>2. \A n \in {next_key_seq_num, tsk.seq + 1} : n \in Nat /\ n <= next_key_seq_num
    BY <1>1, <1>2
  <2>3. /\ Max({next_key_seq_num, tsk.seq + 1}) \in {next_key_seq_num, tsk.seq + 1}
        /\ next_key_seq_num <= Max({next_key_seq_num, tsk.seq + 1})
    BY <1>2, <2>2, MaxIs
  <2>. QED  BY <1>2, <2>1, <2>2, <2>3
<1>4. keys_by_seq' = keys_by_seq \cup {tsk}
  <2>1. keys_by_seq' = VerifierImport(keys_by_seq, {tsk})
    BY <1>a DEF AddKey
  <2>2. \A k \in keys_by_seq : k.seq # tsk.seq
    <3>1. keys_by_seq \subseteq stored \ {tsk} /\ keys_by_seq \subseteq Keys
      BY <1>1 DEF KeyInv, Kept, TypeOK
    <3>. QED  BY <1>1, <1>2, <3>1, FieldsAre
  <2>. QED  BY <2>1, <2>2 DEF VerifierImport, SeqNums
<1>5. tsk_deque' = Append(tsk_deque, tsk)
  BY <1>a DEF AddKey
<1>6. Len(tsk_deque) \in {0, 1} /\ tsk_deque \in Seq(Keys)
  <2>1. TypeOK
    BY DEF KeyInv
  <2>2. Len(tsk_deque) \in {0, 1, 2}
    BY <2>1, DequeIs
  <2>3. \A n \in {0, 1, 2} : n <= 1 => n \in {0, 1}
    OBVIOUS
  <2>. QED  BY <1>1, <2>1, <2>2, <2>3 DEF TypeOK
<1>. QED  BY <1>1, <1>3, <1>4, <1>5, <1>6

LEMMA TickKeys ==
  ASSUME KeyInv, Tick
  PROVE  KeyInv'
<1>1. TypeOK'
  BY TokenAssumption DEF KeyInv, TypeOK, Tick, vars, signer, caller, tokens, network, history
<1>2. Spaced'
  BY TokenAssumption DEF KeyInv, Spaced, Tick, vars, signer, caller, tokens, network, history
<1>3. Bounded'
  BY TokenAssumption DEF KeyInv, Bounded, Tick, vars, signer, caller, tokens, network, history
<1>4. Numbered'
  BY TokenAssumption DEF KeyInv, Numbered, Tick, vars, signer, caller, tokens, network, history
<1>5. Kept'
  BY DEF KeyInv, Kept, Deque, Tick, vars, signer, caller, tokens, network, history
<1>6. Coming'
  BY TokenAssumption DEF KeyInv, Coming, Tick, vars, signer, caller, tokens, network, history
<1>7. Loaded'
  <2>1. \A k \in stored : k.expire \in Nat
    BY DEF KeyInv, TypeOK, Keys
  <2>2. /\ now' = now + 1 /\ now \in Nat
        /\ UNCHANGED <<stored, maint, tsk, keys_by_seq, tsk_deque>>
    BY TokenAssumption DEF KeyInv, TypeOK, Tick, vars, signer, caller, tokens, network, history
  <2>. QED  BY <2>1, <2>2 DEF KeyInv, Loaded, Newer
<1>8. Signed'
  BY DEF KeyInv, Signed, Tick, vars, signer, caller, tokens, network, history
<1>. QED  BY <1>1, <1>2, <1>3, <1>4, <1>5, <1>6, <1>7, <1>8 DEF KeyInv

LEMMA CrashKeys ==
  ASSUME KeyInv, Crash
  PROVE  KeyInv'
<1>1. TypeOK'
  BY TokenAssumption DEF KeyInv, TypeOK, Crash, vars, signer, caller, tokens, network, history
<1>2. Spaced'
  BY TokenAssumption DEF KeyInv, Spaced, Crash, vars, signer, caller, tokens, network, history
<1>3. Bounded'
  BY TokenAssumption DEF KeyInv, Bounded, Crash, vars, signer, caller, tokens, network, history
<1>4. Numbered'
  BY TokenAssumption DEF KeyInv, Numbered, Crash, vars, signer, caller, tokens, network, history
<1>5. Kept'
  BY DEF KeyInv, Kept, Deque, ToSet, Crash, vars, signer, caller, tokens, network, history
<1>6. Coming'
  BY TokenAssumption DEF KeyInv, Coming, Crash, vars, signer, caller, tokens, network, history
<1>7. Loaded'
  BY TokenAssumption DEF KeyInv, Loaded, Newer, Crash, vars, signer, caller, tokens, network, history
<1>8. Signed'
  BY DEF KeyInv, Signed, Crash, vars, signer, caller, tokens, network, history
<1>. QED  BY <1>1, <1>2, <1>3, <1>4, <1>5, <1>6, <1>7, <1>8 DEF KeyInv

LEMMA ImportKeysKeys ==
  ASSUME KeyInv, ImportKeys
  PROVE  KeyInv'
<1> DEFINE live == {k \in stored : k.expire > now}
<1>0. /\ tsk_deque' \in Seq(live) /\ Len(tsk_deque') <= 2
      /\ Len(tsk_deque') = 2 => tsk_deque'[1].seq < tsk_deque'[2].seq
      /\ live = {} => tsk_deque' = <<>>
      /\ live # {} => /\ tsk_deque' # <<>>
                      /\ \A j \in live : j.seq <= tsk_deque'[Len(tsk_deque')].seq
      /\ keys_by_seq' = live
      /\ next_key_seq_num' \in Nat
      /\ \A k \in stored : k.seq < next_key_seq_num'
  BY ImportIs
<1>a. /\ live \subseteq stored /\ stored \subseteq Keys /\ stored' = stored
      /\ maint' = "check" /\ now' = now /\ tsk' = tsk
      /\ \A k \in stored : k.expire \in Nat /\ (k \in live \/ k.expire <= now)
  BY TokenAssumption DEF KeyInv, TypeOK, ImportKeys, Keys
<1>. HIDE DEF live
<1>1. TypeOK'
  <2>1. tsk_deque' \in Seq(Keys) /\ keys_by_seq' \subseteq Keys
    BY <1>0, <1>a
  <2>2. registered' \in [1..MaxKeys -> Nat \cup {-1}]
    BY TokenAssumption DEF KeyInv, TypeOK, ImportKeys, Registered
  <2>. QED  BY <1>0, <2>1, <2>2 DEF KeyInv, TypeOK, ImportKeys, tokens, network
<1>2. Spaced'
  BY TokenAssumption DEF KeyInv, Spaced, ImportKeys, vars, signer, caller, tokens, network, history
<1>3. Bounded'
  BY TokenAssumption DEF KeyInv, Bounded, ImportKeys, vars, signer, caller, tokens, network, history
<1>4. Numbered'
  BY <1>0, <1>a DEF Numbered
<1>5. Kept'
  <2>1. Deque' \subseteq live
    BY <1>0 DEF Deque, ToSet
  <2>. QED  BY <1>0, <1>a, <2>1 DEF KeyInv, Kept, ImportKeys, network
<1>6. Coming'
  BY TokenAssumption DEF KeyInv, Coming, ImportKeys, vars, signer, caller, tokens, network, history
<1>7. Loaded'
  BY <1>0, <1>a DEF Loaded, Newer
<1>8. Signed'
  BY DEF KeyInv, Signed, ImportKeys, vars, signer, caller, tokens, network, history
<1>. QED  BY <1>1, <1>2, <1>3, <1>4, <1>5, <1>6, <1>7, <1>8 DEF KeyInv

LEMMA CheckNeedKeyKeys ==
  ASSUME KeyInv, CheckNeedKey
  PROVE  KeyInv'
<1>0. /\ KeyValidity = Rotation + Validity /\ Rotation \in Nat /\ Validity \in Nat
      /\ now \in Nat /\ next_key_seq_num \in Nat /\ generated \in 0..MaxKeys
      /\ MaxKeys \in Nat
  BY TokenAssumption DEF KeyInv, TypeOK, KeyValidity
<1>a. /\ stored \in SUBSET Keys /\ stored' = stored /\ now' = now
      /\ tsk_deque' = tsk_deque /\ keys_by_seq' = keys_by_seq /\ token' = token
      /\ round' = [round EXCEPT !.began = now] /\ round \in [began : Nat, done : Nat]
      /\ round'.began = now
      /\ maint = "check" /\ maint' \in {"check", "rotate", "store"}
  BY DEF KeyInv, TypeOK, CheckNeedKey, tokens
<1>b. maint' = "store" =>
        /\ NeedKey /\ generated < MaxKeys /\ generated' = generated + 1
        /\ next_key_seq_num' = next_key_seq_num + 1
        /\ tsk' = [seq |-> next_key_seq_num, expire |-> now + KeyValidity,
                   rsa |-> generated + 1]
  BY <1>a DEF CheckNeedKey
<1>1. TypeOK'
  <2>1. tsk' \in Keys \cup {NoKey} /\ generated' \in 0..MaxKeys
    <3>1. CASE maint' = "store"
      BY <1>0, <1>b, <3>1 DEF Keys
    <3>2. CASE maint' # "store"
      BY <1>0, <3>2 DEF KeyInv, TypeOK, CheckNeedKey
    <3>. QED  BY <3>1, <3>2
  <2>2. next_key_seq_num' \in Nat /\ round' \in [began : Nat, done : Nat]
    BY <1>0, <1>a DEF CheckNeedKey
  <2>. QED  BY <1>a, <2>1, <2>2 DEF KeyInv, TypeOK, CheckNeedKey, tokens, network
<1>2. Spaced'
  BY TokenAssumption DEF KeyInv, Spaced, CheckNeedKey, vars, signer, caller, tokens, network, history
<1>3. Bounded'
  BY TokenAssumption DEF KeyInv, Bounded, CheckNeedKey, vars, signer, caller, tokens, network, history
<1>4. Numbered'
  <2>1. next_key_seq_num' \in {next_key_seq_num, next_key_seq_num + 1}
    BY <1>0 DEF CheckNeedKey
  <2>2. \A k \in stored : k.seq \in Nat /\ k.seq < next_key_seq_num
    BY <1>a, FieldsAre DEF KeyInv, Numbered
  <2>. QED  BY <1>0, <1>a, <2>1, <2>2 DEF Numbered
<1>5. Kept'
  BY DEF KeyInv, Kept, Deque, CheckNeedKey, vars, signer, caller, tokens, network, history
<1>6. Coming'
  <2>. SUFFICES ASSUME maint' = "store"
                PROVE  /\ tsk' \in Keys /\ tsk'.expire = now + KeyValidity
                       /\ tsk'.seq < next_key_seq_num' /\ Len(tsk_deque) <= 1
                       /\ tsk' \notin stored /\ tsk' \notin keys_by_seq
                       /\ \A j \in stored :
                            /\ j.seq < tsk'.seq
                            /\ j.expire + Rotation <= tsk'.expire
    BY <1>a DEF Coming
  <2>1. /\ tsk' \in Keys /\ tsk'.expire = now + KeyValidity
        /\ tsk'.seq = next_key_seq_num /\ tsk'.seq < next_key_seq_num'
    BY <1>0, <1>b DEF Keys
  <2>2. Len(tsk_deque) \in {0, 1} /\ (tsk_deque = <<>> <=> Len(tsk_deque) = 0)
    <3>1. TypeOK
      BY DEF KeyInv
    <3>2. tsk_deque = <<>> <=> Len(tsk_deque) = 0
      BY <3>1, DequeIs
    <3>. QED  BY <1>b, <3>2 DEF NeedKey
  <2>6. Len(tsk_deque) <= 1
    BY <2>2
  <2>3. ASSUME NEW j \in stored
        PROVE  /\ j.seq < tsk'.seq /\ j.expire + Rotation <= tsk'.expire
    <3>1. j.seq < next_key_seq_num /\ j.seq \in Nat /\ j.expire \in Nat
      BY <1>a, FieldsAre DEF KeyInv, Numbered
    <3>2. CASE j.expire <= now
      BY <1>0, <2>1, <3>1, <3>2
    <3>3. CASE ~(j.expire <= now)
      <4>1. tsk_deque # <<>> /\ j.seq <= Newer.seq /\ Len(tsk_deque) = 1
        BY <1>a, <2>2, <3>3 DEF KeyInv, Loaded
      <4>2. /\ Newer = tsk_deque[1] /\ Head(tsk_deque) = Newer
            /\ Newer \in Keys /\ Newer \in stored
        <5>1. TypeOK /\ 1 \in 1..Len(tsk_deque)
          BY <4>1 DEF KeyInv
        <5>2. tsk_deque[1] \in Keys /\ tsk_deque[1] \in Deque
              /\ Head(tsk_deque) = tsk_deque[1]
          BY <4>1, <5>1, DequeIs
        <5>. QED  BY <4>1, <5>2 DEF Newer, KeyInv, Kept
      <4>3. Newer.expire - KeyValidity + Rotation <= now
        BY <1>b, <4>1, <4>2 DEF NeedKey
      <4>4. j = Newer \/ j.expire + Rotation <= Newer.expire
        <5>1. Newer.seq \in Nat
          BY <4>2, FieldsAre
        <5>2. j.seq = Newer.seq \/ j.seq < Newer.seq
          BY <3>1, <4>1, <5>1
        <5>. QED  BY <4>2, <5>2 DEF KeyInv, Spaced
      <4>5. Newer.expire \in Nat
        BY <4>2, FieldsAre
      <4>6. tsk'.expire = now + Rotation + Validity
        BY <1>0, <2>1
      <4>7. j.expire + Rotation <= tsk'.expire
        BY <1>0, <3>1, <4>3, <4>4, <4>5, <4>6
      <4>. QED  BY <2>1, <3>1, <4>7
    <3>. QED  BY <3>2, <3>3
  <2>4. tsk' \notin stored
    <3>1. \A j \in stored : j.seq < tsk'.seq
      BY <2>3
    <3>2. ~(tsk'.seq < tsk'.seq)
      BY <1>0, <2>1
    <3>. QED  BY <3>1, <3>2
  <2>5. tsk' \notin keys_by_seq
    BY <2>4 DEF KeyInv, Kept
  <2>. QED  BY <2>1, <2>3, <2>4, <2>5, <2>6
<1>7. Loaded'
  BY TokenAssumption DEF KeyInv, Loaded, Newer, CheckNeedKey, vars, signer, caller, tokens, network, history
<1>8. Signed'
  BY DEF KeyInv, Signed, CheckNeedKey, vars, signer, caller, tokens, network, history
<1>. QED  BY <1>1, <1>2, <1>3, <1>4, <1>5, <1>6, <1>7, <1>8 DEF KeyInv

LEMMA StoreKeyKeys ==
  ASSUME KeyInv, StoreKey
  PROVE  KeyInv'
<1>0. /\ stored \in SUBSET Keys /\ tsk \in Keys /\ stored' = stored \cup {tsk}
      /\ tsk \notin stored /\ tsk.seq < next_key_seq_num
      /\ \A j \in stored : j.seq < tsk.seq /\ j.expire + Rotation <= tsk.expire
      /\ maint = "store" /\ maint' = "add"
      /\ UNCHANGED <<tsk, token, next_key_seq_num>>
  BY DEF KeyInv, TypeOK, Coming, StoreKey, signer, tokens
<1>a. tsk.seq \in Nat /\ \A j \in stored : j.seq \in Nat
  BY <1>0, FieldsAre
<1>1. TypeOK'
  <2>1. stored' \subseteq Keys
    BY <1>0
  <2>. QED  BY <2>1 DEF KeyInv, TypeOK, StoreKey, vars, signer, caller, tokens, network, history
<1>2. Spaced'
  <2>1. /\ \A j, k \in stored : j.seq = k.seq => j = k
        /\ \A j, k \in stored : j.seq < k.seq => j.expire + Rotation <= k.expire
    BY DEF KeyInv, Spaced
  <2>2. \A j, k \in stored' : j.seq = k.seq => j = k
    BY <1>0, <1>a, <2>1
  <2>3. \A j, k \in stored' : j.seq < k.seq => j.expire + Rotation <= k.expire
    BY <1>0, <1>a, <2>1
  <2>. QED  BY <2>2, <2>3 DEF Spaced
<1>3. Bounded'
  <2>1. \A k \in stored' : k.seq <= tsk.seq
    BY <1>0, <1>a
  <2>. QED  BY <1>a, <2>1 DEF Bounded
<1>4. Numbered'
  BY <1>0 DEF KeyInv, Numbered
<1>5. Kept'
  BY DEF KeyInv, Kept, Deque, StoreKey, vars, signer, caller, tokens, network, history
<1>6. Coming'
  BY TokenAssumption DEF KeyInv, Coming, StoreKey, vars, signer, caller, tokens, network, history
<1>7. Loaded'
  BY TokenAssumption DEF KeyInv, Loaded, Newer, StoreKey, vars, signer, caller, tokens, network, history
<1>8. Signed'
  <2>. SUFFICES ASSUME token # NoToken
                PROVE  \E k \in stored' : /\ k.seq = token.seq /\ k.rsa = token.rsa
                                           /\ k # tsk
    BY <1>0 DEF Signed
  <2>. QED  BY <1>0 DEF KeyInv, Signed
<1>. QED  BY <1>1, <1>2, <1>3, <1>4, <1>5, <1>6, <1>7, <1>8 DEF KeyInv

LEMMA AddKeyKeys ==
  ASSUME KeyInv, AddKey
  PROVE  KeyInv'
<1>0. /\ tsk \in Keys /\ tsk \in stored /\ tsk.expire \in Nat /\ tsk.seq \in Nat
      /\ tsk.seq < next_key_seq_num /\ now \in Nat
      /\ \A j \in stored \ {tsk} : j.seq < tsk.seq /\ j.seq \in Nat
      /\ maint = "add" /\ maint' \in {"check", "rotate"}
      /\ UNCHANGED <<stored, token, now, remote, reply>>
  BY FieldsAre DEF KeyInv, TypeOK, Coming, AddKey, tokens, network
<1>a. CASE tsk.expire <= now
  <2>1. UNCHANGED <<tsk_deque, next_key_seq_num, keys_by_seq, registered>> /\ tsk' = NoKey
    BY <1>0, <1>a DEF AddKey, signer
  <2>2. TypeOK'
    BY <1>0, <2>1 DEF KeyInv, TypeOK, AddKey, tokens, network
  <2>3. Spaced' /\ Bounded' /\ Numbered' /\ Kept'
    BY <1>0, <2>1 DEF KeyInv, Spaced, Bounded, Numbered, Kept, Deque
  <2>4. Coming' /\ Signed'
    BY <1>0, <2>1 DEF KeyInv, Coming, Signed
  <2>5. Loaded'
    BY <1>a, <1>0, <2>1 DEF KeyInv, Loaded, Newer
  <2>. QED  BY <2>2, <2>3, <2>4, <2>5 DEF KeyInv
<1>. SUFFICES ASSUME tsk.expire > now PROVE KeyInv'
  BY <1>0, <1>a
<1>b. /\ next_key_seq_num' = next_key_seq_num
      /\ keys_by_seq' = keys_by_seq \cup {tsk}
      /\ tsk_deque' = Append(tsk_deque, tsk)
      /\ Len(tsk_deque) \in {0, 1} /\ Len(tsk_deque') = Len(tsk_deque) + 1
      /\ tsk_deque'[Len(tsk_deque')] = tsk
      /\ \A i \in 1..Len(tsk_deque) : tsk_deque'[i] = tsk_deque[i]
  BY AddIs
<1>1. TypeOK'
  <2>1. tsk_deque' \in Seq(Keys) /\ Len(tsk_deque') <= 2 /\ keys_by_seq' \subseteq Keys
    <3>1. tsk_deque \in Seq(Keys) /\ keys_by_seq \subseteq Keys
      BY DEF KeyInv, TypeOK
    <3>2. tsk_deque' \in Seq(Keys)
      BY <1>0, <1>b, <3>1
    <3>3. Len(tsk_deque') <= 2
      <4>1. \A n \in {0, 1} : n + 1 <= 2
        OBVIOUS
      <4>. QED  BY <1>b, <4>1
    <3>. QED  BY <1>0, <1>b, <3>1, <3>2, <3>3
  <2>2. registered' \in [1..MaxKeys -> Nat \cup {-1}]
    BY <1>0 DEF KeyInv, TypeOK, AddKey, Registered
  <2>. QED  BY <1>b, <2>1, <2>2 DEF KeyInv, TypeOK, AddKey, tokens, network
<1>2. Spaced'
  BY TokenAssumption DEF KeyInv, Spaced, AddKey, vars, signer, caller, tokens, network, history
<1>3. Bounded'
  BY TokenAssumption DEF KeyInv, Bounded, AddKey, vars, signer, caller, tokens, network, history
<1>4. Numbered'
  BY <1>0, <1>b DEF KeyInv, Numbered
<1>5. Kept'
  <2>1. Deque' = Deque \cup {tsk}
    <3>1. tsk_deque \in Seq(Keys) /\ Len(tsk_deque) \in Nat
      BY DEF KeyInv, TypeOK
    <3>2. Deque' = {tsk_deque'[i] : i \in 1..Len(tsk_deque) + 1}
      BY <1>b, <3>1 DEF Deque, ToSet
    <3>3. Deque = {tsk_deque[i] : i \in 1..Len(tsk_deque)}
      BY <3>1 DEF Deque, ToSet
    <3>. QED  BY <1>b, <3>1, <3>2, <3>3
  <2>2. Len(tsk_deque') = 2 => tsk_deque'[1].seq < tsk_deque'[2].seq
    <3>. SUFFICES ASSUME Len(tsk_deque') = 2
                  PROVE  tsk_deque[1].seq < tsk.seq
      BY <1>b
    <3>1. tsk_deque[1] \in Deque
      BY <1>b DEF Deque, ToSet, KeyInv, TypeOK
    <3>2. tsk_deque[1] \in stored \ {tsk}
      BY <1>0, <3>1 DEF KeyInv, Kept, Coming
    <3>. QED  BY <1>0, <3>2
  <2>. QED  BY <1>0, <1>b, <2>1, <2>2 DEF KeyInv, Kept
<1>6. Coming'
  BY TokenAssumption DEF KeyInv, Coming, AddKey, vars, signer, caller, tokens, network, history
<1>7. Loaded'
  <2>. SUFFICES ASSUME NEW k \in stored, ~(k.expire <= now)
                PROVE  k \in keys_by_seq' /\ tsk_deque' # <<>> /\ k.seq <= tsk.seq
    BY <1>0, <1>b DEF Loaded, Newer
  <2>1. tsk_deque' # <<>>
    BY <1>b
  <2>2. CASE k = tsk
    BY <1>0, <1>b, <2>1, <2>2
  <2>3. CASE k # tsk
    <3>1. k \in keys_by_seq
      BY <1>0, <2>3 DEF KeyInv, Loaded
    <3>2. k.seq < tsk.seq /\ k.seq \in Nat
      BY <1>0, <2>3
    <3>3. k.seq <= tsk.seq
      BY <1>0, <3>2
    <3>. QED  BY <1>b, <2>1, <3>1, <3>3
  <2>. QED  BY <2>2, <2>3
<1>8. Signed'
  BY <1>0 DEF KeyInv, Signed
<1>. QED  BY <1>1, <1>2, <1>3, <1>4, <1>5, <1>6, <1>7, <1>8 DEF KeyInv

LEMMA TryRotateKeyKeys ==
  ASSUME KeyInv, TryRotateKey
  PROVE  KeyInv'
<1>0. /\ \/ tsk_deque' = tsk_deque
         \/ Len(tsk_deque) = 2 /\ tsk_deque' = <<tsk_deque[2]>>
      /\ maint = "rotate" /\ maint' = "check"
      /\ UNCHANGED <<now, next_key_seq_num, keys_by_seq, tsk, stored, token, remote, reply>>
  <2>1. tsk_deque \in Seq(Keys) /\ Len(tsk_deque) \in Nat /\ Len(tsk_deque) <= 2
    BY DEF KeyInv, TypeOK
  <2>2. Len(tsk_deque) >= 2 => Tail(tsk_deque) = <<tsk_deque[2]>> /\ Len(tsk_deque) = 2
    <3>. SUFFICES ASSUME Len(tsk_deque) >= 2
                  PROVE  Tail(tsk_deque) = <<tsk_deque[2]>> /\ Len(tsk_deque) = 2
      OBVIOUS
    <3>1. Len(tsk_deque) = 2
      <4>1. \A n \in Nat : n <= 2 /\ n >= 2 => n = 2
        OBVIOUS
      <4>. QED  BY <2>1, <4>1
    <3>2. Tail(tsk_deque) = <<tsk_deque[2]>>
      BY <2>1, <3>1, TailOfTwo
    <3>. QED  BY <3>1, <3>2
  <2>. QED  BY <2>2 DEF TryRotateKey, tokens, network
<1>a. Len(tsk_deque) = 2 => tsk_deque[2] \in Keys /\ tsk_deque[2] \in Deque /\ Newer = tsk_deque[2]
  BY DEF KeyInv, TypeOK, Newer, Deque, ToSet
<1>1. TypeOK'
  <2>1. tsk_deque' \in Seq(Keys) /\ Len(tsk_deque') <= 2
    BY <1>0, <1>a DEF KeyInv, TypeOK
  <2>2. round' \in [began : Nat, done : Nat]
    BY DEF TryRotateKey, KeyInv, TypeOK
  <2>. QED  BY <2>1, <2>2 DEF KeyInv, TypeOK, TryRotateKey, tokens, network, history
<1>2. Spaced'
  BY TokenAssumption DEF KeyInv, Spaced, TryRotateKey, vars, signer, caller, tokens, network, history
<1>3. Bounded'
  BY TokenAssumption DEF KeyInv, Bounded, TryRotateKey, vars, signer, caller, tokens, network, history
<1>4. Numbered'
  BY TokenAssumption DEF KeyInv, Numbered, TryRotateKey, vars, signer, caller, tokens, network, history
<1>5. Kept'
  <2>1. Deque' \subseteq Deque
    BY <1>0, <1>a DEF Deque, ToSet
  <2>2. Len(tsk_deque') = 2 => tsk_deque' = tsk_deque
    BY <1>0
  <2>. QED  BY <1>0, <2>1, <2>2 DEF KeyInv, Kept
<1>6. Coming'
  BY TokenAssumption DEF KeyInv, Coming, TryRotateKey, vars, signer, caller, tokens, network, history
<1>7. Loaded'
  <2>1. tsk_deque # <<>> => tsk_deque' # <<>> /\ Newer' = Newer
    BY <1>0, <1>a DEF Newer
  <2>. QED  BY <1>0, <2>1 DEF KeyInv, Loaded
<1>8. Signed'
  BY DEF KeyInv, Signed, TryRotateKey, vars, signer, caller, tokens, network, history
<1>. QED  BY <1>1, <1>2, <1>3, <1>4, <1>5, <1>6, <1>7, <1>8 DEF KeyInv

LEMMA GenerateAuthnTokenKeys ==
  ASSUME KeyInv, GenerateAuthnToken
  PROVE  KeyInv'
<1>1. TypeOK'
  BY TokenAssumption DEF KeyInv, TypeOK, GenerateAuthnToken, vars, signer, caller, tokens, network, history
<1>2. Spaced'
  BY TokenAssumption DEF KeyInv, Spaced, GenerateAuthnToken, vars, signer, caller, tokens, network, history
<1>3. Bounded'
  BY TokenAssumption DEF KeyInv, Bounded, GenerateAuthnToken, vars, signer, caller, tokens, network, history
<1>4. Numbered'
  BY TokenAssumption DEF KeyInv, Numbered, GenerateAuthnToken, vars, signer, caller, tokens, network, history
<1>5. Kept'
  BY DEF KeyInv, Kept, Deque, GenerateAuthnToken, vars, signer, caller, tokens, network, history
<1>6. Coming'
  BY TokenAssumption DEF KeyInv, Coming, GenerateAuthnToken, vars, signer, caller, tokens, network, history
<1>7. Loaded'
  BY TokenAssumption DEF KeyInv, Loaded, Newer, GenerateAuthnToken, vars, signer, caller, tokens, network, history
<1>8. Signed'
  BY DEF KeyInv, Signed, GenerateAuthnToken, vars, signer, caller, tokens, network, history
<1>. QED  BY <1>1, <1>2, <1>3, <1>4, <1>5, <1>6, <1>7, <1>8 DEF KeyInv

LEMMA SignTokenKeys ==
  ASSUME KeyInv, SignToken
  PROVE  KeyInv'
<1>1. TypeOK'
  <2>1. token' = NoToken \/ token' \in [form : {"good"}, seq : Nat,
                                         rsa : 1..MaxKeys, expire : Nat]
    <3>1. CASE tsk_deque = <<>>
      BY <3>1 DEF KeyInv, TypeOK, SignToken
    <3>2. CASE tsk_deque # <<>>
      <4>1. Head(tsk_deque) \in Keys /\ stamp \in Nat
        BY <3>2 DEF KeyInv, TypeOK, SignToken
      <4>. QED  BY <3>2, <4>1 DEF SignToken, Keys
    <3>. QED  BY <3>1, <3>2
  <2>. QED  BY <2>1 DEF KeyInv, TypeOK, SignToken, vars, signer, caller, tokens, network, history
<1>2. Spaced'
  BY TokenAssumption DEF KeyInv, Spaced, SignToken, vars, signer, caller, tokens, network, history
<1>3. Bounded'
  BY TokenAssumption DEF KeyInv, Bounded, SignToken, vars, signer, caller, tokens, network, history
<1>4. Numbered'
  BY TokenAssumption DEF KeyInv, Numbered, SignToken, vars, signer, caller, tokens, network, history
<1>5. Kept'
  BY DEF KeyInv, Kept, Deque, SignToken, vars, signer, caller, tokens, network, history
<1>6. Coming'
  BY TokenAssumption DEF KeyInv, Coming, SignToken, vars, signer, caller, tokens, network, history
<1>7. Loaded'
  BY TokenAssumption DEF KeyInv, Loaded, Newer, SignToken, vars, signer, caller, tokens, network, history
<1>8. Signed'
  <2>1. CASE tsk_deque = <<>>
    BY <2>1 DEF KeyInv, Signed, SignToken, caller
  <2>2. CASE tsk_deque # <<>>
    <3>1. Head(tsk_deque) \in Deque
      BY <2>2 DEF Deque, ToSet, KeyInv, TypeOK
    <3>2. /\ Head(tsk_deque) \in stored
          /\ maint = "add" => Head(tsk_deque) # tsk
      BY <3>1 DEF KeyInv, Kept, Coming
    <3>3. /\ token'.seq = Head(tsk_deque).seq /\ token'.rsa = Head(tsk_deque).rsa
          /\ UNCHANGED <<stored, maint, tsk>>
      BY <2>2 DEF SignToken, caller
    <3>. QED  BY <3>2, <3>3 DEF Signed
  <2>. QED  BY <2>1, <2>2
<1>. QED  BY <1>1, <1>2, <1>3, <1>4, <1>5, <1>6, <1>7, <1>8 DEF KeyInv

LEMMA FetchKeysKeys ==
  ASSUME KeyInv, NEW v \in Remotes, FetchKeys(v)
  PROVE  KeyInv'
<1>1. TypeOK'
  <2>1. reply' \in [Remotes -> SUBSET Keys]
    BY DEF KeyInv, TypeOK, FetchKeys, ExportKeys
  <2>. QED  BY <2>1 DEF KeyInv, TypeOK, FetchKeys, vars, signer, caller, tokens, network, history
<1>2. Spaced'
  BY TokenAssumption DEF KeyInv, Spaced, FetchKeys, vars, signer, caller, tokens, network, history
<1>3. Bounded'
  BY TokenAssumption DEF KeyInv, Bounded, FetchKeys, vars, signer, caller, tokens, network, history
<1>4. Numbered'
  BY TokenAssumption DEF KeyInv, Numbered, FetchKeys, vars, signer, caller, tokens, network, history
<1>5. Kept'
  <2>1. \A u \in Remotes : reply'[u] \subseteq stored
    BY DEF KeyInv, TypeOK, Kept, FetchKeys, ExportKeys
  <2>. QED  BY <2>1 DEF KeyInv, Kept, Deque, FetchKeys, vars, signer, caller, tokens, network, history
<1>6. Coming'
  BY TokenAssumption DEF KeyInv, Coming, FetchKeys, vars, signer, caller, tokens, network, history
<1>7. Loaded'
  BY TokenAssumption DEF KeyInv, Loaded, Newer, FetchKeys, vars, signer, caller, tokens, network, history
<1>8. Signed'
  BY DEF KeyInv, Signed, FetchKeys, vars, signer, caller, tokens, network, history
<1>. QED  BY <1>1, <1>2, <1>3, <1>4, <1>5, <1>6, <1>7, <1>8 DEF KeyInv

LEMMA ReceiveKeysKeys ==
  ASSUME KeyInv, NEW v \in Remotes, ReceiveKeys(v)
  PROVE  KeyInv'
<1>1. TypeOK'
  <2>1. remote' \in [Remotes -> SUBSET Keys]
    BY DEF KeyInv, TypeOK, ReceiveKeys, VerifierImport
  <2>. QED  BY <2>1 DEF KeyInv, TypeOK, ReceiveKeys, vars, signer, caller, tokens, network, history
<1>2. Spaced'
  BY TokenAssumption DEF KeyInv, Spaced, ReceiveKeys, vars, signer, caller, tokens, network, history
<1>3. Bounded'
  BY TokenAssumption DEF KeyInv, Bounded, ReceiveKeys, vars, signer, caller, tokens, network, history
<1>4. Numbered'
  BY TokenAssumption DEF KeyInv, Numbered, ReceiveKeys, vars, signer, caller, tokens, network, history
<1>5. Kept'
  <2>1. \A u \in Remotes : remote'[u] \subseteq stored
    BY DEF KeyInv, TypeOK, Kept, ReceiveKeys, VerifierImport
  <2>. QED  BY <2>1 DEF KeyInv, Kept, Deque, ReceiveKeys, vars, signer, caller, tokens, network, history
<1>6. Coming'
  BY TokenAssumption DEF KeyInv, Coming, ReceiveKeys, vars, signer, caller, tokens, network, history
<1>7. Loaded'
  BY TokenAssumption DEF KeyInv, Loaded, Newer, ReceiveKeys, vars, signer, caller, tokens, network, history
<1>8. Signed'
  BY DEF KeyInv, Signed, ReceiveKeys, vars, signer, caller, tokens, network, history
<1>. QED  BY <1>1, <1>2, <1>3, <1>4, <1>5, <1>6, <1>7, <1>8 DEF KeyInv

LEMMA StutterKeys ==
  ASSUME KeyInv, UNCHANGED vars
  PROVE  KeyInv'
<1>1. TypeOK'
  BY TokenAssumption DEF KeyInv, TypeOK, vars, signer, caller, tokens, network, history
<1>2. Spaced'
  BY TokenAssumption DEF KeyInv, Spaced, vars, signer, caller, tokens, network, history
<1>3. Bounded'
  BY TokenAssumption DEF KeyInv, Bounded, vars, signer, caller, tokens, network, history
<1>4. Numbered'
  BY TokenAssumption DEF KeyInv, Numbered, vars, signer, caller, tokens, network, history
<1>5. Kept'
  BY DEF KeyInv, Kept, Deque, vars, signer, caller, tokens, network, history
<1>6. Coming'
  BY TokenAssumption DEF KeyInv, Coming, vars, signer, caller, tokens, network, history
<1>7. Loaded'
  BY TokenAssumption DEF KeyInv, Loaded, Newer, vars, signer, caller, tokens, network, history
<1>8. Signed'
  BY DEF KeyInv, Signed, vars, signer, caller, tokens, network, history
<1>. QED  BY <1>1, <1>2, <1>3, <1>4, <1>5, <1>6, <1>7, <1>8 DEF KeyInv

LEMMA KeyInit == Init => KeyInv
<1>. SUFFICES ASSUME Init PROVE KeyInv
  OBVIOUS
<1>1. TypeOK
  <2>1. <<>> \in Seq(Keys) /\ Len(<<>>) = 0
    OBVIOUS
  <2>. QED  BY <2>1, TokenAssumption DEF Init, TypeOK
<1>2. Spaced /\ Bounded /\ Numbered /\ Coming /\ Loaded /\ Signed
  BY DEF Init, Spaced, Bounded, Numbered, Coming, Loaded, Signed
<1>3. Kept
  BY DEF Init, Kept, Deque, ToSet
<1>. QED  BY <1>1, <1>2, <1>3 DEF KeyInv

LEMMA KeyStep == KeyInv /\ [Next]_vars => KeyInv'
<1>. SUFFICES ASSUME KeyInv, [Next]_vars PROVE KeyInv'
  OBVIOUS
<1>. QED
  BY TickKeys, CrashKeys, ImportKeysKeys, CheckNeedKeyKeys, StoreKeyKeys, AddKeyKeys,
     TryRotateKeyKeys, GenerateAuthnTokenKeys, SignTokenKeys, FetchKeysKeys,
     ReceiveKeysKeys, StutterKeys DEF Next

-----------------------------------------------------------------------------
(* Two stored keys are compared by their numbers. *)
LEMMA StoredAre ==
  ASSUME KeyInv
  PROVE  /\ stored \in SUBSET Keys
         /\ \A k \in stored : k.seq \in Nat /\ k.expire \in Nat
         /\ \A j, k \in stored : j.seq = k.seq => j = k
         /\ keys_by_seq \subseteq stored
         /\ \A v \in Remotes : remote[v] \subseteq stored /\ reply[v] \subseteq stored
  BY FieldsAre DEF KeyInv, TypeOK, Spaced, Kept

(* An answer to a verifier leaves out only what it has or will never need. *)
LEMMA FetchNoGaps ==
  ASSUME KeyInv, NoGaps, NEW v \in Remotes, FetchKeys(v)
  PROVE  NoGaps'
<1> DEFINE known == GetMaxKnownKeySequenceNumber(remote[v])
<1>1. /\ reply'[v] = {k \in keys_by_seq : k.seq > known}
      /\ \A u \in Remotes \ {v} : reply'[u] = reply[u]
      /\ remote' = remote /\ Offered' = Offered
  BY DEF FetchKeys, ExportKeys, KeyInv, TypeOK, signer, caller, Offered
<1>2. \A k \in stored : k.seq <= known <=> \E j \in remote[v] : k.seq <= j.seq
  <2>1. PICK b \in Nat : \A k \in stored : k.seq <= b
    BY DEF KeyInv, Bounded
  <2>2. remote[v] \in SUBSET Keys /\ \A k \in remote[v] : k.seq <= b
    BY <2>1, StoredAre
  <2>. QED  BY <2>2, StoredAre, MaxKnownIs
<1>3. known \in Int
  <2>1. CASE remote[v] = {}
    BY <2>1 DEF GetMaxKnownKeySequenceNumber
  <2>2. CASE remote[v] # {}
    <3>1. PICK b \in Nat : \A k \in stored : k.seq <= b
      BY DEF KeyInv, Bounded
    <3>2. /\ SeqNums(remote[v]) \in SUBSET Nat /\ SeqNums(remote[v]) # {}
          /\ \A m \in SeqNums(remote[v]) : m <= b
      BY <2>2, <3>1, StoredAre DEF SeqNums
    <3>3. Max(SeqNums(remote[v])) \in Nat
      BY <3>2, MaxIs
    <3>. QED  BY <2>2, <3>3 DEF GetMaxKnownKeySequenceNumber
  <2>. QED  BY <2>1, <2>2
<1>. HIDE DEF known
<1>4. ASSUME NEW k \in Offered, NEW j \in reply'[v], k.seq <= j.seq
      PROVE  k \in remote[v] \cup reply'[v]
  <2>1. k \in stored /\ j \in stored /\ j \in keys_by_seq /\ k.seq \in Nat /\ j.seq \in Nat
    BY <1>1, <1>4, StoredAre DEF Offered
  <2>2. k \in keys_by_seq
    <3>. SUFFICES ASSUME k \notin keys_by_seq PROVE FALSE
      OBVIOUS
    <3>1. k.expire > now
      BY DEF Offered
    <3>2. maint # "start"
      BY <2>1 DEF KeyInv, Kept
    <3>3. maint = "add" /\ k = tsk
      <4>1. ~(k.expire <= now)
        BY <2>1, <3>1, StoredAre, TokenAssumption DEF KeyInv, TypeOK
      <4>. QED  BY <2>1, <3>2, <4>1 DEF KeyInv, Loaded
    <3>4. j.seq < k.seq
      BY <2>1, <3>3 DEF KeyInv, Coming
    <3>. QED  BY <1>4, <2>1, <3>4
  <2>3. CASE k.seq > known
    BY <1>1, <2>2, <2>3
  <2>4. CASE ~(k.seq > known)
    <3>1. PICK i \in remote[v] : k.seq <= i.seq
      BY <1>2, <1>3, <2>1, <2>4
    <3>. QED  BY <3>1 DEF NoGaps
  <2>. QED  BY <2>3, <2>4
<1>. QED  BY <1>1, <1>4 DEF NoGaps

LEMMA ReceiveNoGaps ==
  ASSUME KeyInv, NoGaps, NEW v \in Remotes, ReceiveKeys(v)
  PROVE  NoGaps'
<1>1. /\ remote'[v] = VerifierImport(remote[v], reply[v])
      /\ \A u \in Remotes \ {v} : remote'[u] = remote[u]
      /\ reply' = reply /\ Offered' = Offered
  BY DEF ReceiveKeys, KeyInv, TypeOK, signer, caller, Offered
<1>2. remote'[v] = remote[v] \cup reply[v]
  BY <1>1, StoredAre DEF VerifierImport, SeqNums
<1>. QED  BY <1>1, <1>2 DEF NoGaps

LEMMA NoGapsStep == KeyInv /\ NoGaps /\ [Next]_vars => NoGaps'
<1>. SUFFICES ASSUME KeyInv, NoGaps, [Next]_vars PROVE NoGaps'
  OBVIOUS
<1>0. ASSUME remote' = remote, reply' = reply, Offered' \subseteq Offered PROVE NoGaps'
  BY <1>0 DEF NoGaps
<1>1. CASE Tick
  <2>1. /\ now' = now + 1 /\ now \in Nat
        /\ UNCHANGED <<stored, keys_by_seq, remote, reply>>
    BY <1>1, TokenAssumption DEF Tick, KeyInv, TypeOK, signer, caller, network
  <2>2. \A k \in stored : k.expire > now + 1 => k.expire > now
    BY <2>1, StoredAre
  <2>3. Offered' \subseteq Offered
    BY <2>1, <2>2 DEF Offered
  <2>. QED  BY <1>0, <2>1, <2>3
<1>2. CASE Crash
  BY <1>0, <1>2 DEF Crash, Offered, network
<1>3. CASE ImportKeys
  <2>1. keys_by_seq' = {k \in stored : k.expire > now}
    BY <1>3, ImportIs
  <2>. QED  BY <1>0, <1>3, <2>1 DEF ImportKeys, Offered, network
<1>4. CASE StoreKey
  <2>1. /\ Offered' \subseteq Offered \cup {tsk} /\ remote' = remote /\ reply' = reply
        /\ \A j \in stored : j.seq < tsk.seq
        /\ tsk.seq \in Nat
    BY <1>4, FieldsAre
    DEF StoreKey, Offered, signer, network, KeyInv, Coming
  <2>2. ASSUME NEW v \in Remotes, NEW j \in remote[v] \cup reply[v] PROVE ~(tsk.seq <= j.seq)
    <3>1. j \in stored /\ j.seq \in Nat
      BY StoredAre
    <3>. QED  BY <2>1, <3>1
  <2>. QED  BY <2>1, <2>2 DEF NoGaps
<1>5. CASE AddKey
  <2>0. tsk.expire \in Nat /\ now \in Nat /\ tsk \in stored
    BY <1>5, FieldsAre, TokenAssumption DEF AddKey, KeyInv, Coming, TypeOK
  <2>1. CASE tsk.expire <= now
    BY <1>0, <1>5, <2>0, <2>1 DEF AddKey, Offered, signer, network
  <2>2. CASE tsk.expire > now
    <3>1. keys_by_seq' = keys_by_seq \cup {tsk}
      BY <1>5, <2>2, AddIs
    <3>. QED  BY <1>0, <1>5, <2>0, <2>2, <3>1 DEF AddKey, Offered, network
  <2>. QED  BY <2>0, <2>1, <2>2
<1>6. ASSUME NEW v \in Remotes, FetchKeys(v) \/ ReceiveKeys(v) PROVE NoGaps'
  BY <1>6, FetchNoGaps, ReceiveNoGaps
<1>7. CASE CheckNeedKey \/ TryRotateKey \/ GenerateAuthnToken \/ SignToken \/ UNCHANGED vars
  BY <1>0, <1>7 DEF CheckNeedKey, TryRotateKey, GenerateAuthnToken, SignToken, Offered,
     vars, signer, caller, network
<1>. QED  BY <1>1, <1>2, <1>3, <1>4, <1>5, <1>6, <1>7 DEF Next

LEMMA NoGapsInit == Init => NoGaps
  BY DEF Init, NoGaps, Offered

(* A verifier asks only for what comes after the last key it knows, so the *)
(* keys up to that one must not have gaps.                                 *)
LEMMA NoGapsMeans == KeyInv /\ NoGaps => RemotesHaveNoGaps
<1>. SUFFICES ASSUME KeyInv, NoGaps, NEW v \in Remotes, NEW k \in keys_by_seq,
                     k.seq <= GetMaxKnownKeySequenceNumber(remote[v])
              PROVE  k \in remote[v]
  BY DEF RemotesHaveNoGaps
<1>1. PICK b \in Nat : \A j \in stored : j.seq <= b
  BY DEF KeyInv, Bounded
<1>2. /\ remote[v] \in SUBSET Keys /\ \A j \in remote[v] : j.seq <= b
      /\ k.seq \in Nat
  BY <1>1, StoredAre
<1>3. PICK j \in remote[v] : k.seq <= j.seq
  BY <1>2, MaxKnownIs
<1>. QED  BY <1>3 DEF NoGaps, Offered

-----------------------------------------------------------------------------
(* The quantities that the arguments about time are made of. *)
LEMMA Times ==
  ASSUME KeyInv
  PROVE  /\ now \in Nat /\ round.began \in Nat /\ round.done \in Nat /\ stamp \in Int
         /\ Rotation \in Nat /\ Validity \in Nat /\ MaxGap \in Nat
         /\ 1 <= MaxGap /\ MaxGap <= Rotation
         /\ KeyValidity = Rotation + Validity
         /\ Longer \in Nat /\ Rotation <= Longer /\ Validity <= Longer
         /\ Max({Rotation, Validity}) = Longer
         /\ \A k \in Keys : k.expire \in Nat /\ Created(k) = k.expire - (Rotation + Validity)
         /\ \A i \in 1..Len(tsk_deque) : tsk_deque[i] \in stored /\ tsk_deque[i] \in Keys
<1>1. /\ now \in Nat /\ round.began \in Nat /\ round.done \in Nat /\ stamp \in Int
  BY TokenAssumption DEF KeyInv, TypeOK
<1>2. /\ Rotation \in Nat /\ Validity \in Nat /\ MaxGap \in Nat
      /\ 1 <= MaxGap /\ MaxGap <= Rotation
      /\ KeyValidity = Rotation + Validity
  BY TokenAssumption DEF KeyValidity
<1>3. Longer \in Nat /\ Rotation <= Longer /\ Validity <= Longer
  BY <1>2 DEF Longer
<1>4. Max({Rotation, Validity}) = Longer
  <2>1. {Rotation, Validity} \in SUBSET Nat /\ \A n \in {Rotation, Validity} : n <= Longer
    BY <1>2, <1>3
  <2>2. /\ Max({Rotation, Validity}) \in {Rotation, Validity}
        /\ \A n \in {Rotation, Validity} : n <= Max({Rotation, Validity})
    BY <1>3, <2>1, MaxIs
  <2>3. Longer \in {Rotation, Validity}
    BY DEF Longer
  <2>. QED  BY <1>2, <1>3, <2>1, <2>2, <2>3
<1>5. \A k \in Keys : k.expire \in Nat /\ Created(k) = k.expire - (Rotation + Validity)
  BY <1>2, FieldsAre DEF Created
<1>6. \A i \in 1..Len(tsk_deque) : tsk_deque[i] \in stored /\ tsk_deque[i] \in Keys
  <2>1. TypeOK /\ Deque \subseteq stored
    BY DEF KeyInv, Kept
  <2>. QED  BY <2>1, DequeIs
<1>. QED  BY <1>1, <1>2, <1>3, <1>4, <1>5, <1>6

(* In all its cases the deque is what TryRotateKey() leaves of it. *)
LEMMA RotateIs ==
  ASSUME KeyInv, TryRotateKey
  PROVE  \/ tsk_deque' = <<>> /\ tsk_deque = <<>>
         \/ Len(tsk_deque) = 1 /\ tsk_deque' = tsk_deque
         \/ /\ Len(tsk_deque) = 2 /\ tsk_deque' = tsk_deque
            /\ Created(tsk_deque[1]) + 2 * Rotation > now
            /\ Created(tsk_deque[1]) + Rotation <= Created(tsk_deque[2])
         \/ /\ Len(tsk_deque) = 2 /\ tsk_deque' = <<tsk_deque[2]>>
            /\ Created(tsk_deque[1]) + 2 * Rotation <= now
            /\ Created(tsk_deque[1]) + Rotation <= Created(tsk_deque[2])
<1>0. TypeOK /\ now \in Nat /\ Rotation \in Nat
  BY Times DEF KeyInv
<1>1. CASE Len(tsk_deque) = 0
  <2>1. tsk_deque = <<>>
    BY <1>0, <1>1, DequeIs
  <2>2. tsk_deque' = tsk_deque
    BY <1>1 DEF TryRotateKey
  <2>. QED  BY <2>1, <2>2
<1>2. CASE Len(tsk_deque) = 1
  BY <1>2 DEF TryRotateKey
<1>3. CASE Len(tsk_deque) = 2
  <2>1. /\ tsk_deque[1] \in stored /\ tsk_deque[2] \in stored
        /\ tsk_deque[1] \in Keys /\ tsk_deque[2] \in Keys
    BY <1>3, Times
  <2>2. Head(tsk_deque) = tsk_deque[1] /\ Tail(tsk_deque) = <<tsk_deque[2]>>
    BY <1>0, <1>3, TailOfTwo DEF TypeOK
  <2>3. Created(tsk_deque[1]) + Rotation <= Created(tsk_deque[2])
    <3>1. tsk_deque[1].expire + Rotation <= tsk_deque[2].expire
      BY <1>3, <2>1 DEF KeyInv, Kept, Spaced
    <3>2. /\ tsk_deque[1].expire \in Nat /\ tsk_deque[2].expire \in Nat
          /\ Rotation \in Nat /\ Validity \in Nat
          /\ Created(tsk_deque[1]) = tsk_deque[1].expire - (Rotation + Validity)
          /\ Created(tsk_deque[2]) = tsk_deque[2].expire - (Rotation + Validity)
      BY <2>1, Times
    <3>. QED  BY <3>1, <3>2
  <2>4. Created(tsk_deque[1]) \in Int
    BY <2>1, Times
  <2>. DEFINE c == Created(tsk_deque[1])
  <2>5. tsk_deque' = IF c + 2 * Rotation <= now THEN <<tsk_deque[2]>> ELSE tsk_deque
    <3>1. Len(tsk_deque) >= 2
      BY <1>3
    <3>. QED  BY <2>2, <3>1 DEF TryRotateKey, Created
  <2>. HIDE DEF c
  <2>6. c \in Int
    BY <2>4 DEF c
  <2>7. CASE c + 2 * Rotation <= now
    BY <1>3, <2>3, <2>5, <2>7 DEF c
  <2>8. CASE ~(c + 2 * Rotation <= now)
    <3>1. c + 2 * Rotation > now
      BY <1>0, <2>6, <2>8
    <3>. QED  BY <1>3, <2>3, <2>5, <2>8, <3>1 DEF c
  <2>. QED  BY <2>7, <2>8
<1>. QED  BY <1>0, <1>1, <1>2, <1>3, DequeIs

LEMMA RoundsStep == KeyInv /\ Rounds /\ [Next]_vars => Rounds'
<1>. SUFFICES ASSUME KeyInv, Rounds, [Next]_vars PROVE Rounds'
  OBVIOUS
<1>1. CASE Tick
  BY SMTT(30), <1>1, Times DEF Rounds, Tick, caller, tokens
<1>2. CASE Crash
  BY <1>2, Times DEF Rounds, Crash
<1>3. CASE ImportKeys \/ StoreKey \/ AddKey
  BY <1>3 DEF Rounds, ImportKeys, StoreKey, AddKey, tokens
<1>4. CASE CheckNeedKey
  <2>1. /\ round'.began = now /\ round'.done = round.done
        /\ now' = now /\ stamp' = stamp
    BY <1>4 DEF CheckNeedKey, tokens, KeyInv, TypeOK
  <2>. QED  BY <2>1, Times DEF Rounds
<1>5. CASE TryRotateKey
  <2>1. /\ round'.began = round.began /\ round'.done = round.began
        /\ now' = now /\ stamp' = stamp
    BY <1>5 DEF TryRotateKey, tokens, KeyInv, TypeOK
  <2>. QED  BY <2>1, Times DEF Rounds
<1>6. CASE GenerateAuthnToken \/ SignToken
  BY <1>6, Times DEF Rounds, GenerateAuthnToken, SignToken, caller
<1>7. ASSUME NEW v \in Remotes, FetchKeys(v) \/ ReceiveKeys(v) PROVE Rounds'
  BY <1>7 DEF Rounds, FetchKeys, ReceiveKeys, caller, tokens
<1>8. CASE UNCHANGED vars
  BY <1>8 DEF Rounds, vars, caller, tokens
<1>. QED  BY <1>1, <1>2, <1>3, <1>4, <1>5, <1>6, <1>7, <1>8 DEF Next

LEMMA ActiveYoungStep == KeyInv /\ AgeInv /\ [Next]_vars => ActiveYoung'
<1>. SUFFICES ASSUME KeyInv, Rounds, ActiveYoung, [Next]_vars PROVE ActiveYoung'
  BY DEF AgeInv
<1>0. TypeOK
  BY DEF KeyInv
<1>1. CASE Crash
  BY <1>1 DEF ActiveYoung, Crash
<1>2. CASE ImportKeys
  <2>. SUFFICES ASSUME tsk_deque' # <<>>
                PROVE  Created(tsk_deque'[1]) + Rotation + Longer > round.done
    BY <1>2 DEF ActiveYoung, ImportKeys
  <2> DEFINE live == {k \in stored : k.expire > now}
  <2>1. tsk_deque' \in Seq(live)
    <3>. HIDE DEF KeyInv, ImportKeys
    <3>. QED  BY <1>2, ImportIs
  <2>2. tsk_deque'[1] \in live
    <3>. HIDE DEF live
    <3>1. Len(tsk_deque') \in Nat /\ Len(tsk_deque') # 0
      BY <2>1
    <3>. QED  BY <2>1, <3>1
  <2>3. tsk_deque'[1] \in Keys /\ tsk_deque'[1].expire > now
    BY <2>2, StoredAre
  <2>4. /\ tsk_deque'[1].expire \in Nat
        /\ Created(tsk_deque'[1]) = tsk_deque'[1].expire - (Rotation + Validity)
    BY <2>3, Times
  <2>5. round.done <= round.began /\ round.began <= now
    BY DEF Rounds
  <2>. HIDE DEF live
  <2>. QED  BY SMTT(30), <2>3, <2>4, <2>5, Times
<1>3. CASE CheckNeedKey
  <2>1. round'.began = now /\ round'.done = round.done /\ tsk_deque' = tsk_deque
    BY <1>3 DEF CheckNeedKey, KeyInv, TypeOK
  <2>2. ASSUME maint' = "rotate", Len(tsk_deque) = 1
        PROVE  Created(tsk_deque[1]) + Rotation > now
    <3>1. ~NeedKey
      BY <1>3, <2>2 DEF CheckNeedKey
    <3>2. tsk_deque # <<>> /\ Head(tsk_deque) = tsk_deque[1]
      BY <1>0, <2>2, DequeIs
    <3>3. ~(Created(tsk_deque[1]) + Rotation <= now)
      BY <2>2, <3>1, <3>2 DEF NeedKey, Created
    <3>4. Created(tsk_deque[1]) \in Int
      BY <2>2, Times
    <3>. QED  BY <3>3, <3>4, Times
  <2>. QED  BY <2>1, <2>2 DEF ActiveYoung
<1>4. CASE AddKey
  <2>0. round' = round /\ maint = "add"
    BY <1>4 DEF AddKey
  <2>1. CASE tsk.expire > now
    <3>1. /\ Len(tsk_deque) \in {0, 1} /\ Len(tsk_deque') = Len(tsk_deque) + 1
          /\ tsk_deque'[Len(tsk_deque')] = tsk
          /\ \A i \in 1..Len(tsk_deque) : tsk_deque'[i] = tsk_deque[i]
          /\ tsk \in Keys
      BY <1>4, <2>1, AddIs
    <3>2. CASE Len(tsk_deque) = 0
      <4>1. tsk_deque'[1] = tsk /\ Created(tsk) = round.began
        BY <2>0, <3>1, <3>2, Times DEF KeyInv, Coming
      <4>. QED  BY <2>0, <4>1, Times DEF ActiveYoung, Rounds
    <3>3. CASE Len(tsk_deque) = 1
      <4>1. tsk_deque'[1] = tsk_deque[1] /\ Len(tsk_deque') # 1 /\ tsk_deque # <<>>
        BY <1>0, <3>1, <3>3, DequeIs
      <4>. QED  BY <2>0, <4>1 DEF ActiveYoung
    <3>. QED  BY <3>1, <3>2, <3>3
  <2>2. CASE ~(tsk.expire > now)
    BY <1>4, <2>0, <2>2 DEF AddKey, ActiveYoung, signer
  <2>. QED  BY <2>1, <2>2
<1>5. CASE TryRotateKey
  <2>1. round'.done = round.began /\ maint' # "rotate" /\ maint = "rotate"
    BY <1>5 DEF TryRotateKey, KeyInv, TypeOK
  <2>. SUFFICES ASSUME tsk_deque' # <<>>
                PROVE  Created(tsk_deque'[1]) + Rotation + Longer > round.began
    BY <2>1 DEF ActiveYoung
  <2>2. CASE Len(tsk_deque) = 1 /\ tsk_deque' = tsk_deque
    <3>1. Created(tsk_deque[1]) + Rotation > round.began /\ Created(tsk_deque[1]) \in Int
      BY <2>1, <2>2, Times DEF ActiveYoung
    <3>. QED  BY <2>2, <3>1, Times
  <2>3. CASE /\ Len(tsk_deque) = 2 /\ tsk_deque' = tsk_deque
             /\ Created(tsk_deque[1]) + 2 * Rotation > now
    <3>1. Created(tsk_deque[1]) \in Int
      BY <2>3, Times
    <3>. QED  BY SMTT(30), <2>3, <3>1, Times DEF Rounds
  <2>4. CASE /\ Len(tsk_deque) = 2 /\ tsk_deque' = <<tsk_deque[2]>>
             /\ Created(tsk_deque[1]) + Rotation <= Created(tsk_deque[2])
    <3>1. Created(tsk_deque[1]) \in Int /\ Created(tsk_deque[2]) \in Int
      BY <2>4, Times
    <3>2. Created(tsk_deque[1]) + Rotation + Longer > round.done
      <4>1. tsk_deque # <<>>
        BY <1>0, <2>4, DequeIs
      <4>. QED  BY <4>1 DEF ActiveYoung
    <3>3. tsk_deque'[1] = tsk_deque[2]
      BY <2>4
    <3>. QED  BY <2>4, <3>1, <3>2, <3>3, Times DEF Rounds
  <2>. QED  BY <1>5, <2>2, <2>3, <2>4, RotateIs
<1>6. CASE Tick \/ StoreKey \/ GenerateAuthnToken \/ SignToken \/ UNCHANGED vars
  BY <1>6 DEF ActiveYoung, Tick, StoreKey, GenerateAuthnToken, SignToken, vars, signer, caller
<1>7. ASSUME NEW v \in Remotes, FetchKeys(v) \/ ReceiveKeys(v) PROVE ActiveYoung'
  BY <1>7 DEF ActiveYoung, FetchKeys, ReceiveKeys, signer, caller
<1>. QED  BY <1>1, <1>2, <1>3, <1>4, <1>5, <1>6, <1>7 DEF Next

LEMMA OverhangStep == KeyInv /\ AgeInv /\ [Next]_vars => OverhangBounded'
<1>. SUFFICES ASSUME KeyInv, Rounds, ActiveYoung, OverhangBounded, [Next]_vars
              PROVE  OverhangBounded'
  BY DEF AgeInv
<1>0. TypeOK
  BY DEF KeyInv
<1>1. CASE SignToken
  <2>0. stored' = stored
    BY <1>1 DEF SignToken, caller
  <2>1. CASE tsk_deque = <<>>
    BY <1>1, <2>0, <2>1 DEF SignToken, OverhangBounded
  <2>2. CASE tsk_deque # <<>>
    <3> DEFINE h == tsk_deque[1]
    <3>1. token'.seq = h.seq /\ token'.expire = stamp
      BY <1>0, <1>1, <2>2, DequeIs DEF SignToken
    <3>2. h \in stored /\ h \in Keys
      <4>1. 1 \in 1..Len(tsk_deque)
        BY <1>0, <2>2, DequeIs
      <4>. QED  BY <4>1, Times
    <3>3. Created(h) + Rotation + Longer > round.done
      BY <2>2 DEF ActiveYoung
    <3>. HIDE DEF h
    <3>4. stamp - h.expire <= Longer - 1 + MaxGap
      <4>1. h.expire \in Nat /\ Created(h) = h.expire - (Rotation + Validity)
        BY <3>2, Times
      <4>2. stamp <= now + Validity /\ now <= round.done + MaxGap
        BY DEF Rounds
      <4>3. /\ now \in Nat /\ round.done \in Nat /\ stamp \in Int /\ MaxGap \in Nat
            /\ Rotation \in Nat /\ Validity \in Nat /\ Longer \in Nat
        BY Times
      <4>. QED  BY <3>3, <4>1, <4>2, <4>3
    <3>5. \A k \in stored : k.seq = h.seq => k = h
      BY <3>2, StoredAre
    <3>. QED  BY <2>0, <3>1, <3>4, <3>5, Times DEF OverhangBounded
  <2>. QED  BY <2>1, <2>2
<1>2. CASE StoreKey
  <2>1. stored' = stored \cup {tsk} /\ token' = token /\ tsk \notin stored /\ maint = "store"
    BY <1>2 DEF StoreKey, tokens, KeyInv, Coming
  <2>2. ASSUME token # NoToken PROVE tsk.seq # token.seq
    <3>1. PICK j \in stored : j.seq = token.seq
      BY <2>2 DEF KeyInv, Signed
    <3>2. j.seq < tsk.seq /\ j.seq \in Nat
      BY <2>1, StoredAre DEF KeyInv, Coming
    <3>. QED  BY <3>1, <3>2
  <2>. QED  BY <2>1, <2>2 DEF OverhangBounded
<1>3. ASSUME stored' = stored, token' = token PROVE OverhangBounded'
  BY <1>3 DEF OverhangBounded
<1>4. CASE Tick \/ Crash \/ ImportKeys \/ CheckNeedKey \/ AddKey \/ TryRotateKey
             \/ GenerateAuthnToken \/ UNCHANGED vars
  BY <1>3, <1>4 DEF Tick, Crash, ImportKeys, CheckNeedKey, AddKey, TryRotateKey,
     GenerateAuthnToken, vars, caller, tokens
<1>5. ASSUME NEW v \in Remotes, FetchKeys(v) \/ ReceiveKeys(v) PROVE OverhangBounded'
  BY <1>3, <1>5 DEF FetchKeys, ReceiveKeys, caller, tokens
<1>. QED  BY <1>1, <1>2, <1>3, <1>4, <1>5 DEF Next

LEMMA AgeInit == Init => AgeInv
<1>. SUFFICES ASSUME Init PROVE AgeInv
  OBVIOUS
<1>. QED
  BY TokenAssumption DEF Init, AgeInv, Rounds, ActiveYoung, OverhangBounded

-----------------------------------------------------------------------------
(* registered[r] is never in the future. *)
LEMMA RegisteredStep ==
  ASSUME KeyInv, Propagated, [Next]_vars
  PROVE  \A r \in 1..MaxKeys : registered'[r] <= now' /\ registered'[r] \in Int
<1>0. /\ \A r \in 1..MaxKeys : registered[r] <= now /\ registered[r] \in Int
      /\ now \in Nat
  BY SMTT(30), Times DEF Propagated, KeyInv, TypeOK
<1>1. CASE Tick
  BY <1>0, <1>1 DEF Tick, history
<1>2. ASSUME NEW K, now' = now, registered' = Registered(K)
      PROVE  \A r \in 1..MaxKeys : registered'[r] <= now' /\ registered'[r] \in Int
  BY <1>0, <1>2 DEF Registered
<1>3. CASE registered' = registered /\ now' = now
  BY <1>0, <1>3
<1>4. CASE ImportKeys
  BY <1>2, <1>4 DEF ImportKeys
<1>5. CASE AddKey
  BY <1>2, <1>3, <1>5 DEF AddKey
<1>6. CASE Crash \/ CheckNeedKey \/ StoreKey \/ TryRotateKey \/ GenerateAuthnToken
             \/ SignToken \/ UNCHANGED vars
  BY <1>3, <1>6 DEF Crash, CheckNeedKey, StoreKey, TryRotateKey, GenerateAuthnToken, SignToken,
     vars, history
<1>7. ASSUME NEW v \in Remotes, FetchKeys(v) \/ ReceiveKeys(v)
      PROVE registered' = registered /\ now' = now
  BY <1>7 DEF FetchKeys, ReceiveKeys, history
<1>. QED  BY <1>1, <1>3, <1>4, <1>5, <1>6, <1>7 DEF Next

LEMMA PropagatedStep == KeyInv /\ AgeInv /\ Propagated /\ [Next]_vars => Propagated'
<1>. SUFFICES ASSUME KeyInv, Rounds, ActiveYoung, Propagated, [Next]_vars
              PROVE  Propagated'
  BY DEF AgeInv
<1>a. \A r \in 1..MaxKeys : registered'[r] <= now'
  BY RegisteredStep
<1>b. crashes \in Nat /\ TypeOK
  BY DEF KeyInv, TypeOK
<1>1. CASE Crash
  <2>1. crashes' # 0
    BY <1>1, <1>b DEF Crash
  <2>. QED  BY <1>a, <2>1 DEF Propagated
<1>. SUFFICES ASSUME ~Crash, crashes' = 0 PROVE Propagated'
  BY <1>1, <1>a DEF Propagated
<1>c. crashes = 0
  <2>1. ASSUME NEW v \in Remotes, FetchKeys(v) \/ ReceiveKeys(v) PROVE crashes = 0
    BY <2>1 DEF FetchKeys, ReceiveKeys, history
  <2>. QED
    BY <2>1 DEF Next, Tick, ImportKeys, CheckNeedKey, StoreKey, AddKey, TryRotateKey,
       GenerateAuthnToken, SignToken, vars, history
<1>2. ASSUME maint' = maint, stored' = stored, UNCHANGED <<tsk_deque, round, registered>>
      PROVE  Propagated'
  BY <1>2, <1>a, <1>c DEF Propagated
<1>3. CASE Tick \/ GenerateAuthnToken \/ SignToken \/ UNCHANGED vars
  BY <1>2, <1>3 DEF Tick, GenerateAuthnToken, SignToken, vars, signer, caller, history
<1>4. ASSUME NEW v \in Remotes, FetchKeys(v) \/ ReceiveKeys(v) PROVE Propagated'
  BY <1>2, <1>4 DEF FetchKeys, ReceiveKeys, signer, caller, history
<1>5. CASE ImportKeys
  <2>1. tsk_deque' = <<>>
    <3>1. {k \in stored : k.expire > now} = {}
      BY <1>5, <1>c DEF Propagated, ImportKeys
    <3>. QED  BY <1>5, <3>1, ImportIs
  <2>2. Len(tsk_deque') # 1 /\ Len(tsk_deque') # 2
    BY <2>1
  <2>. QED  BY <1>5, <1>a, <2>2 DEF Propagated, ImportKeys
<1>6. CASE CheckNeedKey
  <2>1. /\ maint = "check" /\ maint' # "start"
        /\ round'.done = round.done /\ UNCHANGED <<tsk_deque, registered>>
    BY <1>6 DEF CheckNeedKey, KeyInv, TypeOK
  <2>. QED  BY <1>a, <1>c, <2>1 DEF Propagated
<1>7. CASE StoreKey
  <2>1. /\ maint = "store" /\ maint' # "start"
        /\ round' = round /\ UNCHANGED <<tsk_deque, registered>>
    BY <1>7 DEF StoreKey, signer, history
  <2>. QED  BY <1>a, <1>c, <2>1 DEF Propagated
<1>8. CASE AddKey
  <2>0. maint = "add" /\ round' = round /\ maint' # "start" /\ now' = now
    BY <1>8 DEF AddKey
  <2>1. CASE ~(tsk.expire > now)
    <3>1. UNCHANGED <<tsk_deque, registered>>
      BY <1>8, <2>1 DEF AddKey, signer
    <3>. QED  BY <1>a, <1>c, <2>0, <3>1 DEF Propagated
  <2>2. CASE tsk.expire > now
    <3>0. ~(tsk.expire <= now)
      BY <2>2, <2>0, FieldsAre, Times DEF KeyInv, Coming
    <3>1. maint' = "rotate"
      BY <1>8, <3>0 DEF AddKey
    <3>2. /\ Len(tsk_deque) \in {0, 1} /\ Len(tsk_deque') = Len(tsk_deque) + 1
          /\ tsk_deque'[Len(tsk_deque')] = tsk
          /\ \A i \in 1..Len(tsk_deque) : tsk_deque'[i] = tsk_deque[i]
          /\ tsk \in Keys
      BY <1>8, <2>2, AddIs
    <3>. SUFFICES ASSUME Len(tsk_deque') = 2
                  PROVE  /\ Created(tsk_deque'[2]) + Rotation > round.done
                         /\ registered'[tsk_deque'[2].rsa]
                              < Created(tsk_deque'[1]) + Rotation + 2 * MaxGap
      BY <1>a, <2>0, <3>1 DEF Propagated
    <3>3. Len(tsk_deque) = 1 /\ tsk_deque'[2] = tsk /\ tsk_deque'[1] = tsk_deque[1]
      BY <3>2
    <3>4. Created(tsk) = round.began
      BY <2>0, <3>2, Times DEF KeyInv, Coming
    <3>5. Created(tsk_deque[1]) + Rotation + MaxGap > round.done
      BY <1>c, <2>0, <3>3 DEF Propagated
    <3>6. registered'[tsk.rsa] <= now /\ registered'[tsk.rsa] \in Int
      BY <2>0, <3>2, FieldsAre, RegisteredStep
    <3>7. Created(tsk_deque[1]) \in Int
      BY <3>3, Times
    <3>8. Created(tsk) + Rotation > round.done
      BY <3>4, Times DEF Rounds
    <3>9. registered'[tsk.rsa] < Created(tsk_deque[1]) + Rotation + 2 * MaxGap
      BY SMTT(30), <3>5, <3>6, <3>7, Times DEF Rounds
    <3>. QED  BY <3>3, <3>8, <3>9
  <2>. QED  BY <2>1, <2>2
<1>9. CASE TryRotateKey
  <2>1. /\ round'.done = round.began /\ maint' = "check" /\ maint = "rotate"
        /\ registered' = registered
    BY <1>9 DEF TryRotateKey, KeyInv, TypeOK, history
  <2>2. CASE tsk_deque' = <<>>
    <3>1. Len(tsk_deque') # 1 /\ Len(tsk_deque') # 2
      BY <2>2
    <3>. QED  BY <1>a, <2>1, <3>1 DEF Propagated
  <2>3. CASE Len(tsk_deque) = 1 /\ tsk_deque' = tsk_deque
    <3>1. Created(tsk_deque[1]) + Rotation > round.began /\ Created(tsk_deque[1]) \in Int
      BY <2>1, <2>3, Times DEF ActiveYoung
    <3>2. Created(tsk_deque[1]) + Rotation + MaxGap > round.began
      BY <3>1, Times
    <3>3. Len(tsk_deque') # 2
      BY <2>3
    <3>. QED  BY <1>a, <2>1, <2>3, <3>2, <3>3 DEF Propagated
  <2>4. CASE /\ Len(tsk_deque) = 2 /\ tsk_deque' = tsk_deque
             /\ Created(tsk_deque[1]) + 2 * Rotation > now
             /\ Created(tsk_deque[1]) + Rotation <= Created(tsk_deque[2])
    <3>1. Created(tsk_deque[1]) \in Int /\ Created(tsk_deque[2]) \in Int
      BY <2>4, Times
    <3>2. Created(tsk_deque[2]) + Rotation > round.began
      BY <2>4, <3>1, Times DEF Rounds
    <3>3. Len(tsk_deque') # 1
      BY <2>4
    <3>. QED  BY <1>a, <1>c, <2>1, <2>4, <3>2, <3>3 DEF Propagated
  <2>5. CASE Len(tsk_deque) = 2 /\ tsk_deque' = <<tsk_deque[2]>>
    <3>1. Created(tsk_deque[2]) \in Int
      BY <2>5, Times
    <3>2. Created(tsk_deque[2]) + Rotation > round.done
      BY <1>c, <2>5 DEF Propagated
    <3>3. Created(tsk_deque[2]) + Rotation + MaxGap > round.began
      BY SMTT(30), <3>1, <3>2, Times DEF Rounds
    <3>4. Len(tsk_deque') = 1 /\ tsk_deque'[1] = tsk_deque[2]
      BY <2>5
    <3>. QED  BY <1>a, <2>1, <3>3, <3>4 DEF Propagated
  <2>. QED  BY <1>9, <2>2, <2>3, <2>4, <2>5, RotateIs
<1>. QED  BY <1>3, <1>4, <1>5, <1>6, <1>7, <1>8, <1>9 DEF Next

LEMMA PropagatedInit == Init => Propagated
<1>. SUFFICES ASSUME Init PROVE Propagated
  OBVIOUS
<1>1. Len(tsk_deque) = 0 /\ \A r \in 1..MaxKeys : registered[r] = -1
  BY DEF Init
<1>. QED  BY <1>1 DEF Init, Propagated

(* What KeysPropagateBeforeUse says of one step. *)
UsesNext ==
  (crashes' = 0 /\ Len(tsk_deque) = 2 /\ Len(tsk_deque') = 1) =>
    registered[Head(tsk_deque').rsa] + Rotation + 1 - 2 * MaxGap <= now

LEMMA UsesNextStep == KeyInv /\ Propagated /\ [Next]_vars => UsesNext
<1>. SUFFICES ASSUME KeyInv, Propagated, [Next]_vars,
                     crashes' = 0, Len(tsk_deque) = 2, Len(tsk_deque') = 1
              PROVE  registered[Head(tsk_deque').rsa] + Rotation + 1 - 2 * MaxGap <= now
  BY DEF UsesNext
<1>1. TryRotateKey
  <2>1. ASSUME Crash PROVE FALSE
    BY <2>1 DEF Crash, KeyInv, TypeOK
  <2>2. ASSUME ImportKeys PROVE FALSE
    <3>1. tsk_deque = <<>>
      BY <2>2 DEF ImportKeys, KeyInv, Kept
    <3>. QED  BY <3>1
  <2>3. ASSUME AddKey PROVE FALSE
    <3>1. CASE tsk.expire > now
      BY <2>3, <3>1, AddIs
    <3>2. CASE ~(tsk.expire > now)
      BY <2>3, <3>2 DEF AddKey, signer
    <3>. QED  BY <3>1, <3>2
  <2>4. ASSUME NEW v \in Remotes, FetchKeys(v) \/ ReceiveKeys(v) PROVE FALSE
    BY <2>4 DEF FetchKeys, ReceiveKeys, signer
  <2>. QED
    BY <2>1, <2>2, <2>3, <2>4 DEF Next, Tick, CheckNeedKey, StoreKey, GenerateAuthnToken,
       SignToken, vars, signer
<1>2. /\ tsk_deque' = <<tsk_deque[2]>>
      /\ Created(tsk_deque[1]) + 2 * Rotation <= now
  <2>1. tsk_deque' # <<>> /\ tsk_deque' # tsk_deque
    OBVIOUS
  <2>. QED  BY <1>1, <2>1, RotateIs
<1>3. crashes = 0
  BY <1>1 DEF TryRotateKey, history
<1>4. registered[tsk_deque[2].rsa] < Created(tsk_deque[1]) + Rotation + 2 * MaxGap
  BY <1>3 DEF Propagated
<1>5. tsk_deque[1] \in Keys /\ tsk_deque[2] \in Keys
  BY Times
<1>6. Created(tsk_deque[1]) \in Int /\ registered[tsk_deque[2].rsa] \in Int
  <2>1. Created(tsk_deque[1]) \in Int
    BY <1>5, Times
  <2>2. registered[tsk_deque[2].rsa] \in Int
    BY <1>5, FieldsAre DEF KeyInv, TypeOK
  <2>. QED  BY <2>1, <2>2
<1>7. registered[tsk_deque[2].rsa] + Rotation + 1 - 2 * MaxGap <= now
  BY <1>2, <1>4, <1>6, Times
<1>8. Head(tsk_deque') = tsk_deque[2]
  BY <1>2
<1>. QED  BY <1>7, <1>8

-----------------------------------------------------------------------------
LEMMA SignerInit == Init => SignerInv
  BY KeyInit, NoGapsInit, AgeInit, PropagatedInit DEF SignerInv

LEMMA SignerStep == SignerInv /\ [Next]_vars => SignerInv' /\ UsesNext
  BY KeyStep, NoGapsStep, RoundsStep, ActiveYoungStep, OverhangStep, PropagatedStep,
     UsesNextStep
  DEF SignerInv, AgeInv

(* Nothing is anywhere that was not stored, and in the table the numbers   *)
(* differ.                                                                 *)
LEMMA NumbersIdentify == SignerInv => SequenceNumbersIdentifyKeys
<1>. SUFFICES ASSUME KeyInv PROVE SequenceNumbersIdentifyKeys
  BY DEF SignerInv
<1>1. AllKeys = stored
  BY DEF KeyInv, Kept, Deque, AllKeys
<1>2. ASSUME NEW k \in stored, k.seq = token.seq PROVE k.rsa = token.rsa
  <2>1. token # NoToken
    <3>1. k.seq \in Nat
      BY StoredAre
    <3>2. NoToken.seq = -1
      BY DEF NoToken
    <3>. QED  BY <1>2, <3>1, <3>2
  <2>2. PICK j \in stored : j.seq = token.seq /\ j.rsa = token.rsa
    BY <2>1 DEF KeyInv, Signed
  <2>3. j = k
    BY <1>2, <2>2, StoredAre
  <2>. QED  BY <2>2, <2>3
<1>. QED  BY <1>1, <1>2, StoredAre DEF SequenceNumbersIdentifyKeys, KeyInv, Numbered

(* A live key that the signer has used is in the embedded verifier.        *)
LEMMA KnowsKeys == SignerInv => SignerKnowsItsKeys
<1>. SUFFICES ASSUME KeyInv PROVE SignerKnowsItsKeys
  BY DEF SignerInv
<1>0. TypeOK
  BY DEF KeyInv
<1>. SUFFICES
       ASSUME token # NoToken, maint # "start",
              NEW key, key = CHOOSE k \in stored : k.seq = token.seq,
              VerifyTokenSignature(keys_by_seq, token, now)
                \in {"EXPIRED_SIGNING_KEY", "UNKNOWN_SIGNING_KEY"}
       PROVE  key.expire <= now
  BY <1>0 DEF SignerKnowsItsKeys
<1>1. PICK k \in stored : k.seq = token.seq /\ (maint = "add" => k # tsk)
  BY DEF KeyInv, Signed
<1>2. key = k
  BY <1>1, StoredAre
<1>3. k \in stored /\ k.expire \in Nat /\ now \in Nat
  BY <1>0, <1>1, StoredAre, Times
<1>4. token.form = "good" /\ token.expire \in Nat
  BY <1>0 DEF TypeOK
<1>. SUFFICES ASSUME ~(k.expire <= now) PROVE FALSE
  BY <1>2
<1>5. {j \in keys_by_seq : j.seq = token.seq} = {k}
  <2>1. k \in keys_by_seq
    BY <1>1, <1>3 DEF KeyInv, Loaded
  <2>. QED  BY <1>1, <2>1, StoredAre
<1>6. ~(k.expire < now) /\ k.expire >= now
  BY <1>3
<1>7. VerifyTokenSignature(keys_by_seq, token, now)
        \in {"EXPIRED_TOKEN", "INVALID_SIGNATURE", "VALID"}
  <2>1. CASE token.expire < now
    <3>1. ~(token.expire >= now)
      BY <1>3, <1>4, <2>1
    <3>. QED  BY <1>4, <2>1, <3>1 DEF VerifyTokenSignature
  <2>2. CASE token.expire >= now
    <3>1. ~(token.expire < now)
      BY <1>3, <1>4, <2>2
    <3>. QED  BY <1>4, <1>5, <1>6, <2>2, <3>1 DEF VerifyTokenSignature
  <2>. QED  BY <1>3, <1>4, <2>1, <2>2
<1>. QED  BY <1>7

(* A step of the composition is one of the signer, or leaves it alone. *)
LEMMA SignerLift ==
  /\ SecurityInit => Init
  /\ [SecurityNext]_<<subject, vars, kinitVars>> => [Next]_vars
  BY DEF SecurityInit, SecurityNext

LEMMA SignerInvHolds == SecuritySpec => []SignerInv
<1>1. SecurityInit => SignerInv
  BY SignerLift, SignerInit
<1>2. SignerInv /\ [SecurityNext]_<<subject, vars, kinitVars>> => SignerInv'
  BY SignerLift, SignerStep
<1>. QED  BY <1>1, <1>2, PTL DEF SecuritySpec

(* A sequence number names one key pair for ever, in the signer, the table *)
(* and every verifier, and ImportKeys() never hands one out again after a  *)
(* crash.                                                                  *)
THEOREM NumbersCorrect == SecuritySpec => []SequenceNumbersIdentifyKeys
<1>. QED  BY SignerInvHolds, NumbersIdentify, PTL

(* VerifyTokenSignature() of the embedded verifier refuses a live token    *)
(* that SignToken() made only when its key has expired.                    *)
THEOREM EmbeddedVerifierCorrect == SecuritySpec => []SignerKnowsItsKeys
<1>. QED  BY SignerInvHolds, KnowsKeys, PTL

(* ExportKeys() after the last known key leaves no gap in a verifier, with *)
(* answers lost, late or repeated.                                         *)
THEOREM ExportCorrect == SecuritySpec => []RemotesHaveNoGaps
<1>1. SignerInv => RemotesHaveNoGaps
  BY NoGapsMeans DEF SignerInv
<1>. QED  BY <1>1, SignerInvHolds, PTL

(* A token outlives its key by less than the longer of the two intervals   *)
(* and a round of maintenance.                                             *)
THEOREM OverhangCorrect == SecuritySpec => []OverhangBounded
<1>1. SignerInv => OverhangBounded
  BY DEF SignerInv, AgeInv
<1>. QED  BY <1>1, SignerInvHolds, PTL

(* TryRotateKey() does not make a key active before the verifier has had   *)
(* it for a rotation interval less two rounds of maintenance.              *)
THEOREM RotationCorrect == SecuritySpec => KeysPropagateBeforeUse
<1>1. SignerInv /\ [SecurityNext]_<<subject, vars, kinitVars>> => [UsesNext]_vars
  BY SignerLift, SignerStep
<1>. QED  BY <1>1, SignerInvHolds, PTL DEF SecuritySpec, KeysPropagateBeforeUse, UsesNext

=============================================================================
