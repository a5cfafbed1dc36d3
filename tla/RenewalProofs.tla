---------------------------- MODULE RenewalProofs ----------------------------
(***************************************************************************)
(* Proofs about the thread that renews the Kerberos ticket, for any        *)
(* lifetimes, margins and jitters.                                         *)
(***************************************************************************)
EXTENDS MCSecurity, WellFoundedInduction, TLAPS

(* next_interval in GetBackedOffRenewInterval(). *)
NextInterval == IF TimeRemaining > MinBackoff THEN TimeRemaining ELSE MinBackoff

(* The cache has at most one ticket. *)
Cached ==
  /\ cache \subseteq [end : Nat, till : Nat] /\ ticket_end_timestamp_ \in Nat
  /\ \A t, u \in cache : t = u

(* Without a failure since the last renewal the cache has the ticket whose *)
(* end the thread knows, and it has not expired.                           *)
InTime ==
  ~failedSinceRenewal =>
    /\ failure_retries = 0
    /\ \E t \in cache : /\ cache = {t} /\ t.end = ticket_end_timestamp_
                        /\ clock <= ticket_end_timestamp_

(* What is renewed may be renewed: a ticket stored now has not expired,    *)
(* whatever has failed before.                                             *)
Renewable == kpc = "store" => \A t \in cache : clock <= t.till

(* The end of the ticket is near once the thread has slept; failing does   *)
(* not put it off.                                                         *)
Near == (failure_retries > 0 \/ kpc # "sleep") => TimeRemaining <= Short

(* The intervals slept since the first failure add up to at least the last *)
(* power of two, less one.                                                 *)
BackedOff ==
  failure_retries > 0 =>
    LET retries == IF kpc = "sleep" THEN failure_retries - 1 ELSE failure_retries
    IN  NextInterval * PowerOfTwo(retries) <= clock - firstFailure + NextInterval

SleptEnough ==
  (kpc = "renew" /\ failure_retries > 0) =>
    slept <= 3 * (clock - slept - firstFailure) + 3 * (Short + MinBackoff)

RenewInv ==
  KinitTypeOK /\ Cached /\ InTime /\ Renewable /\ Near /\ BackedOff /\ SleptEnough

-----------------------------------------------------------------------------
(* Every non-empty set of natural numbers has a least element: what the    *)
(* induction over the number of retries rests on.                          *)
LEMMA LeastNat ==
  ASSUME NEW T, T \subseteq Nat, T # {}
  PROVE  \E x \in T : \A y \in T : x <= y
<1>1. PICK R : R = OpToRel(<, Nat)
  OBVIOUS
<1>2. IsWellFoundedOn(R, Nat)
  BY <1>1, NatLessThanWellFounded
<1>3. \A x, y \in Nat : <<x, y>> \in R <=> x < y
  BY <1>1 DEF OpToRel
<1>4. PICK x \in T : \A y \in T : <<y, x>> \notin R
  BY <1>2, WFMin
<1>5. ASSUME NEW y \in T PROVE x <= y
  <2>1. x \in Nat /\ y \in Nat /\ <<y, x>> \notin R
    BY <1>4
  <2>2. ~(y < x)
    BY <1>3, <2>1
  <2>. QED  BY <2>1, <2>2
<1>. QED  BY <1>5

(* The powers of two up to the n-th. *)
Powers(f, n) == f[0] = 1 /\ \A i \in 1..n : f[i] = 2 * f[i - 1]

LEMMA PowersExist ==
  ASSUME NEW n \in Nat
  PROVE  \E f \in [0..n -> Nat \ {0}] : Powers(f, n)
<1>. DEFINE Good(m) == \E f \in [0..m -> Nat \ {0}] : Powers(f, m)
            Bad == {m \in Nat : ~Good(m)}
<1>1. Good(0)
  <2>. DEFINE f == [i \in 0..0 |-> 1]
  <2>1. f \in [0..0 -> Nat \ {0}] /\ Powers(f, 0)
    BY DEF Powers
  <2>. QED  BY <2>1
<1>2. ASSUME NEW m \in Nat, Good(m) PROVE Good(m + 1)
  <2>1. PICK f \in [0..m -> Nat \ {0}] : Powers(f, m)
    BY <1>2
  <2>. DEFINE g == [i \in 0..(m + 1) |-> IF i = m + 1 THEN 2 * f[m] ELSE f[i]]
  <2>2. g \in [0..(m + 1) -> Nat \ {0}] /\ Powers(g, m + 1)
    BY <2>1 DEF Powers
  <2>. QED  BY <2>2
<1>. HIDE DEF Good
<1>3. SUFFICES ASSUME Bad # {} PROVE FALSE
  BY DEF Good
<1>4. PICK m \in Bad : \A k \in Bad : m <= k
  <2>1. Bad \subseteq Nat
    OBVIOUS
  <2>. QED  BY <1>3, <2>1, LeastNat
<1>5. m # 0 /\ m \in Nat /\ m - 1 \in Nat
  BY <1>1
<1>6. Good(m - 1)
  BY <1>4, <1>5
<1>7. (m - 1) + 1 = m
  BY <1>5
<1>. QED  BY <1>2, <1>5, <1>6, <1>7

LEMMA PowersUnique ==
  ASSUME NEW n \in Nat, NEW f, NEW g, Powers(f, n), Powers(g, n)
  PROVE  \A i \in 0..n : f[i] = g[i]
<1>. DEFINE Bad == {i \in 0..n : f[i] # g[i]}
<1>1. SUFFICES ASSUME Bad # {} PROVE FALSE
  OBVIOUS
<1>2. PICK i \in Bad : \A k \in Bad : i <= k
  <2>1. Bad \subseteq Nat
    OBVIOUS
  <2>. HIDE DEF Bad
  <2>. QED  BY <1>1, <2>1, LeastNat
<1>3. i # 0 /\ i \in 1..n /\ i - 1 \in 0..n /\ i - 1 \notin Bad
  BY <1>2 DEF Powers
<1>. QED  BY <1>3 DEF Powers

LEMMA PowerIs ==
  ASSUME NEW n \in Nat, NEW f \in [0..n -> Nat \ {0}], Powers(f, n)
  PROVE  PowerOfTwo(n) = f[n]
<1>. DEFINE Def(h) == [i \in 0..n |-> IF i = 0 THEN 1 ELSE 2 * h[i - 1]]
            power == CHOOSE h : h = Def(h)
<1>1. f = Def(f)
  BY DEF Powers
<1>2. power = Def(power)
  BY <1>1
<1>3. PowerOfTwo(n) = power[n]
  BY DEF PowerOfTwo
<1>. HIDE DEF power
<1>4. Powers(power, n)
  BY <1>2 DEF Powers
<1>5. \A i \in 0..n : f[i] = power[i]
  BY <1>4, PowersUnique
<1>. QED  BY <1>3, <1>5

LEMMA PowerIsNat == ASSUME NEW n \in Nat PROVE PowerOfTwo(n) \in Nat \ {0}
<1>1. PICK f \in [0..n -> Nat \ {0}] : Powers(f, n)
  BY PowersExist
<1>2. n \in 0..n
  OBVIOUS
<1>. QED  BY <1>1, <1>2, PowerIs

LEMMA PowerOfZero == PowerOfTwo(0) = 1
<1>1. PICK n \in Nat : n = 0
  OBVIOUS
<1>2. PICK f \in [0..n -> Nat \ {0}] : Powers(f, n)
  BY PowersExist
<1>3. PowerOfTwo(n) = f[n]
  BY <1>2, PowerIs
<1>. QED  BY <1>1, <1>2, <1>3 DEF Powers

LEMMA PowerDoubles ==
  ASSUME NEW n \in Nat
  PROVE  PowerOfTwo(n + 1) = 2 * PowerOfTwo(n)
<1>1. PICK m \in Nat : m = n + 1
  OBVIOUS
<1>2. PICK f \in [0..m -> Nat \ {0}] : Powers(f, m)
  BY PowersExist
<1>. DEFINE g == [i \in 0..n |-> f[i]]
<1>3. g \in [0..n -> Nat \ {0}] /\ Powers(g, n)
  BY <1>1, <1>2 DEF Powers
<1>4. PowerOfTwo(n) = g[n] /\ g[n] = f[n]
  BY <1>3, PowerIs
<1>5. PowerOfTwo(m) = f[m] /\ f[m] = 2 * f[n]
  <2>1. m \in 1..m /\ m - 1 = n
    BY <1>1
  <2>2. PowerOfTwo(m) = f[m]
    BY <1>2, PowerIs
  <2>. QED  BY <1>2, <2>1, <2>2 DEF Powers
<1>. QED  BY <1>1, <1>4, <1>5

-----------------------------------------------------------------------------
(* Products are monotone: what the sums of the intervals are compared by.  *)
LEMMA ProductGrows ==
  ASSUME NEW a \in Nat, NEW b \in Nat, NEW p \in Nat, a <= b
  PROVE  a * p <= b * p
<1>1. PICK d \in Nat : b = a + d
  <2>1. b - a \in Nat /\ b = a + (b - a)
    OBVIOUS
  <2>. QED  BY <2>1
<1>2. d * p \in Nat /\ a * p \in Nat
  OBVIOUS
<1>3. (a + d) * p = a * p + d * p
  OBVIOUS
<1>. QED  BY <1>1, <1>2, <1>3

(* The types that the arguments use. *)
LEMMA KinitTypes ==
  ASSUME RenewInv
  PROVE  /\ clock \in Nat /\ failure_retries \in Nat /\ slept \in Nat
         /\ firstFailure \in Nat /\ ticket_end_timestamp_ \in Nat
         /\ TimeRemaining = ticket_end_timestamp_ - clock
         /\ NextInterval \in Nat /\ MinBackoff <= NextInterval
         /\ TimeRemaining <= NextInterval
         /\ MinEarly \in Nat /\ ShortEarly \in Nat /\ Short \in Nat /\ Long \in Nat
         /\ MinBackoff \in Nat /\ RenewMargin \in Nat /\ Lifetime \in Nat
         /\ RenewWindow \in Nat /\ ShortEarly <= Short /\ Short <= Long
         /\ \A t \in cache : t.end \in Nat /\ t.till \in Nat /\ t.end <= t.till
<1>1. /\ clock \in Nat /\ failure_retries \in Nat /\ slept \in Nat
      /\ firstFailure \in Nat /\ ticket_end_timestamp_ \in Nat
      /\ \A t \in cache : t.end \in Nat /\ t.till \in Nat /\ t.end <= t.till
  BY DEF RenewInv, KinitTypeOK, Cached
<1>2. /\ MinEarly \in Nat /\ ShortEarly \in Nat /\ Short \in Nat /\ Long \in Nat
      /\ MinBackoff \in Nat /\ RenewMargin \in Nat /\ Lifetime \in Nat
      /\ RenewWindow \in Nat /\ ShortEarly <= Short /\ Short <= Long
  BY KinitAssumption
<1>3. /\ NextInterval \in Nat /\ MinBackoff <= NextInterval
      /\ TimeRemaining <= NextInterval
  BY <1>1, <1>2 DEF NextInterval, TimeRemaining
<1>. QED  BY <1>1, <1>2, <1>3 DEF TimeRemaining

(* A ticket of the Kerberos library. *)
LEMMA TicketIs ==
  ASSUME NEW from \in Nat, NEW till \in Nat
  PROVE  /\ Ticket(from, till) \in [end : Nat, till : Nat]
         /\ Ticket(from, till).end <= Ticket(from, till).till
         /\ from <= till => from <= Ticket(from, till).end
  BY KinitAssumption DEF Ticket

(* How long the thread may sleep. *)
LEMMA IntervalIs ==
  ASSUME RenewInv, NEW i \in GetNextRenewInterval
  PROVE  /\ i \in Int
         /\ failure_retries = 0 => i <= TimeRemaining /\ TimeRemaining - i <= Short
         /\ failure_retries > 0 =>
              LET part == NextInterval * PowerOfTwo(failure_retries - 1)
              IN  part \in Nat /\ part <= i /\ i <= 3 * part
<1>1. CASE failure_retries = 0
  <2>0. ~(failure_retries > 0) /\ TimeRemaining \in Int
    BY <1>1, KinitTypes
  <2>1. CASE TimeRemaining > Long
    <3>1. GetNextRenewInterval = {TimeRemaining - j : j \in MinEarly .. Short}
      <4>1. ~(TimeRemaining \in Short + 1 .. Long)
        BY <2>0, <2>1, KinitTypes
      <4>. QED  BY <1>1, <2>0, <2>1, <4>1 DEF GetNextRenewInterval
    <3>2. PICK j \in MinEarly .. Short : i = TimeRemaining - j
      BY <3>1
    <3>. QED  BY <2>0, <3>2, KinitTypes
  <2>2. CASE TimeRemaining \in Short + 1 .. Long
    <3>1. ~(TimeRemaining > Long)
      BY <2>0, <2>2, KinitTypes
    <3>2. GetNextRenewInterval = {TimeRemaining - j : j \in MinEarly .. ShortEarly}
      BY <1>1, <2>0, <2>2, <3>1 DEF GetNextRenewInterval
    <3>3. PICK j \in MinEarly .. ShortEarly : i = TimeRemaining - j
      BY <3>2
    <3>. QED  BY <2>0, <3>3, KinitTypes
  <2>3. CASE ~(TimeRemaining > Long) /\ TimeRemaining \notin Short + 1 .. Long
    <3>1. GetNextRenewInterval = {TimeRemaining}
      BY <1>1, <2>0, <2>3 DEF GetNextRenewInterval
    <3>2. TimeRemaining <= Short
      BY <2>0, <2>3, KinitTypes
    <3>. QED  BY <2>0, <3>1, <3>2, KinitTypes
  <2>. QED  BY <2>1, <2>2, <2>3
<1>2. CASE failure_retries > 0
  <2> DEFINE part == NextInterval * PowerOfTwo(failure_retries - 1)
             base == NextInterval * PowerOfTwo(failure_retries)
  <2>1. failure_retries - 1 \in Nat /\ (failure_retries - 1) + 1 = failure_retries
    BY <1>2, KinitTypes
  <2>2. /\ PowerOfTwo(failure_retries - 1) \in Nat
        /\ PowerOfTwo(failure_retries) = 2 * PowerOfTwo(failure_retries - 1)
        /\ NextInterval \in Nat
    BY <2>1, PowerIsNat, PowerDoubles, KinitTypes
  <2>3. part \in Nat /\ base = 2 * part
    <3>1. \A n, p \in Nat : n * p \in Nat /\ n * (2 * p) = 2 * (n * p)
      OBVIOUS
    <3>. QED  BY <2>2, <3>1
  <2>4. GetNextRenewInterval = GetBackedOffRenewInterval
    BY <1>2, <2>1, KinitTypes DEF GetNextRenewInterval
  <2>5. GetBackedOffRenewInterval = (base \div 2) .. ((3 * base) \div 2)
    BY DEF GetBackedOffRenewInterval, NextInterval
  <2>. HIDE DEF part, base
  <2>6. base \div 2 = part /\ (3 * base) \div 2 = 3 * part
    BY <2>3
  <2>. QED  BY <1>1, <1>2, <2>3, <2>4, <2>5, <2>6, KinitTypes DEF part
<1>. QED  BY <1>1, <1>2, KinitTypes

LEMMA SleepForStep == ASSUME RenewInv, SleepFor PROVE RenewInv'
<1>0. PICK i \in GetNextRenewInterval :
        /\ slept' = IF i > 0 THEN i ELSE 0
        /\ clock' = clock + slept'
  BY DEF SleepFor
<1>1. /\ kpc = "sleep" /\ kpc' = "renew"
      /\ UNCHANGED <<cache, ticket_end_timestamp_, failure_retries, firstFailure,
                     failedSinceRenewal, returnedOK>>
  BY DEF SleepFor
<1>2. i \in Int /\ slept' \in Nat /\ i <= slept' /\ (i <= 0 => slept' = 0)
      /\ (i > 0 => slept' = i) /\ clock' \in Nat
  BY <1>0, IntervalIs, KinitTypes
<1>3. TimeRemaining' = TimeRemaining - slept' /\ TimeRemaining \in Int
  BY <1>0, <1>1, <1>2, KinitTypes DEF TimeRemaining
<1>4. KinitTypeOK' /\ Cached'
  BY <1>1, <1>2 DEF RenewInv, KinitTypeOK, Cached
<1>5. InTime'
  <2>. SUFFICES ASSUME ~failedSinceRenewal PROVE clock' <= ticket_end_timestamp_
    BY <1>1 DEF RenewInv, InTime
  <2>1. failure_retries = 0 /\ clock <= ticket_end_timestamp_
    BY DEF RenewInv, InTime
  <2>2. i <= TimeRemaining
    BY <2>1, IntervalIs
  <2>. QED  BY <1>0, <1>2, <2>1, <2>2, KinitTypes
<1>6. TimeRemaining' <= Short
  <2>1. CASE failure_retries = 0
    <3>1. TimeRemaining - i <= Short
      BY <2>1, IntervalIs
    <3>. QED  BY <1>2, <1>3, <3>1, KinitTypes
  <2>2. CASE failure_retries > 0
    <3>1. TimeRemaining <= Short
      BY <2>2 DEF RenewInv, Near
    <3>. QED  BY <1>2, <1>3, <3>1, KinitTypes
  <2>. QED  BY <2>1, <2>2, KinitTypes
<1>7. ASSUME failure_retries > 0
      PROVE  /\ NextInterval' * PowerOfTwo(failure_retries)
                  <= clock' - firstFailure + NextInterval'
             /\ slept' <= 3 * (clock' - slept' - firstFailure) + 3 * (Short + MinBackoff)
  <2> DEFINE half == PowerOfTwo(failure_retries - 1)
             part == NextInterval * half
  <2>1. part \in Nat /\ part <= i /\ i <= 3 * part
    BY <1>7, IntervalIs
  <2>2. failure_retries - 1 \in Nat /\ (failure_retries - 1) + 1 = failure_retries
    BY <1>7, KinitTypes
  <2>3. half \in Nat /\ half >= 1 /\ PowerOfTwo(failure_retries) = 2 * half
    BY <2>2, PowerIsNat, PowerDoubles
  <2>4. part <= clock - firstFailure + NextInterval
    BY <1>1, <1>7 DEF RenewInv, BackedOff
  <2>5. NextInterval <= Short + MinBackoff
    <3>1. TimeRemaining <= Short
      BY <1>7 DEF RenewInv, Near
    <3>. QED  BY <3>1, <1>3, KinitTypes DEF NextInterval
  <2>6. /\ NextInterval \in Nat /\ NextInterval' \in Nat /\ NextInterval' <= NextInterval
        /\ slept' = i
    <3>1. NextInterval \in Nat /\ MinBackoff \in Nat
      BY KinitTypes
    <3>2. NextInterval' = IF TimeRemaining' > MinBackoff THEN TimeRemaining' ELSE MinBackoff
      BY DEF NextInterval
    <3>3. slept' = i
      BY <1>2, <2>1
    <3>. QED  BY <1>2, <1>3, <3>1, <3>2, <3>3 DEF NextInterval
  <2>7. NextInterval' * (2 * half) - NextInterval' <= NextInterval * (2 * half) - NextInterval
    <3>1. 2 * half - 1 \in Nat
      BY <2>3
    <3>2. NextInterval' * (2 * half - 1) <= NextInterval * (2 * half - 1)
      BY <2>6, <3>1, ProductGrows
    <3>3. \A n, p \in Int : n * (p - 1) = n * p - n
      OBVIOUS
    <3>4. 2 * half \in Int
      BY <2>3
    <3>. QED  BY <2>6, <3>2, <3>3, <3>4
  <2>8. NextInterval * (2 * half) = 2 * part
    <3>1. \A n, p \in Nat : n * (2 * p) = 2 * (n * p)
      OBVIOUS
    <3>. QED  BY <2>3, <2>6, <3>1
  <2>9. NextInterval' * (2 * half) \in Int
    BY <2>3, <2>6
  <2>10. clock \in Nat /\ firstFailure \in Nat /\ Short \in Nat /\ MinBackoff \in Nat
         /\ clock' = clock + i
    BY <1>0, <2>6, KinitTypes
  <2>. HIDE DEF half, part
  <2>11. NextInterval' * (2 * half) <= clock' - firstFailure + NextInterval'
    BY <1>2, <2>1, <2>4, <2>6, <2>7, <2>8, <2>9, <2>10
  <2>12. i <= 3 * (clock' - i - firstFailure) + 3 * (Short + MinBackoff)
    BY <1>2, <2>1, <2>4, <2>5, <2>6, <2>10
  <2>. QED  BY <2>3, <2>6, <2>11, <2>12
<1>8. Near' /\ BackedOff' /\ SleptEnough' /\ Renewable'
  BY <1>1, <1>6, <1>7 DEF Near, BackedOff, SleptEnough, Renewable
<1>. QED  BY <1>4, <1>5, <1>8 DEF RenewInv

(* DoRenewal() ends with an error. *)
LEMMA ErrorStep ==
  ASSUME RenewInv, kpc # "sleep", Error, cache' \in {cache, {}}
  PROVE  RenewInv'
<1>1. /\ kpc' = "sleep" /\ failure_retries' = failure_retries + 1 /\ failedSinceRenewal' = TRUE
      /\ returnedOK' = FALSE
      /\ UNCHANGED <<clock, slept, ticket_end_timestamp_>>
      /\ firstFailure' = IF failure_retries = 0 THEN clock ELSE firstFailure
  BY DEF Error
<1>2. /\ clock \in Nat /\ failure_retries \in Nat /\ slept \in Nat /\ firstFailure' \in Nat
      /\ failure_retries' \in Nat /\ failure_retries' > 0
  BY <1>1, KinitTypes
<1>3. KinitTypeOK'
  BY <1>1, <1>2 DEF RenewInv, KinitTypeOK
<1>4. Cached' /\ InTime'
  BY <1>1 DEF RenewInv, Cached, InTime
<1>5. Near'
  BY <1>1 DEF RenewInv, Near, TimeRemaining
<1>6. BackedOff'
  <2>1. NextInterval' = NextInterval /\ NextInterval \in Nat
    BY <1>1, KinitTypes DEF NextInterval, TimeRemaining
  <2>2. failure_retries' - 1 = failure_retries
    BY <1>1, <1>2
  <2>. SUFFICES NextInterval * PowerOfTwo(failure_retries)
                  <= clock - firstFailure' + NextInterval
    BY <1>1, <2>1, <2>2 DEF BackedOff
  <2>3. CASE failure_retries = 0
    <3>1. NextInterval * PowerOfTwo(0) = NextInterval
      BY <2>1, PowerOfZero
    <3>. QED  BY <1>1, <1>2, <2>1, <2>3, <3>1
  <2>4. CASE failure_retries > 0
    BY <1>1, <2>4 DEF RenewInv, BackedOff
  <2>. QED  BY <1>2, <2>3, <2>4
<1>7. SleptEnough' /\ Renewable'
  BY <1>1 DEF SleptEnough, Renewable
<1>. QED  BY <1>3, <1>4, <1>5, <1>6, <1>7 DEF RenewInv

(* DoRenewal() ends well, with a ticket from now on, also after failures.  *)
LEMMA RenewedStep ==
  ASSUME RenewInv, NEW till \in Nat, clock <= till, Renewed(Ticket(clock, till))
  PROVE  RenewInv'
<1> DEFINE t == Ticket(clock, till)
<1>1. /\ kpc' = "sleep" /\ failure_retries' = 0 /\ returnedOK' = TRUE
      /\ cache' = {t} /\ ticket_end_timestamp_' = t.end /\ failedSinceRenewal' = FALSE
      /\ UNCHANGED <<clock, slept, firstFailure>>
  BY DEF Renewed, Ok, RetriesAfterSuccess
<1>2. t \in [end : Nat, till : Nat] /\ t.end <= t.till /\ clock <= t.end
  BY KinitTypes, TicketIs
<1>. HIDE DEF t
<1>3. KinitTypeOK'
  <2>1. \A k \in cache' : k.end <= k.till
    BY <1>1, <1>2
  <2>2. {clock', failure_retries', slept', firstFailure'} \subseteq Nat
    BY <1>1, KinitTypes
  <2>3. {failedSinceRenewal', returnedOK'} \subseteq BOOLEAN
    BY <1>1
  <2>. QED  BY <1>1, <2>1, <2>2, <2>3 DEF KinitTypeOK
<1>4. Cached' /\ InTime'
  BY <1>1, <1>2 DEF Cached, InTime
<1>5. Renewable' /\ Near' /\ BackedOff' /\ SleptEnough'
  BY <1>1 DEF Renewable, Near, BackedOff, SleptEnough
<1>. QED  BY <1>3, <1>4, <1>5 DEF RenewInv

(* DoRenewal() ends well with nothing renewed: at the end of a cache with  *)
(* no ticket, or at an error it takes for the end.                         *)
LEMMA NotRenewedStep ==
  ASSUME RenewInv, NotRenewed,
         \/ failedSinceRenewal' = TRUE
         \/ cache = {} /\ UNCHANGED failedSinceRenewal
  PROVE  RenewInv'
<1>1. /\ kpc' = "sleep" /\ failure_retries' = 0 /\ returnedOK' = TRUE
      /\ UNCHANGED <<clock, slept, firstFailure, cache, ticket_end_timestamp_>>
  BY DEF NotRenewed, Ok, RetriesAfterSuccess
<1>2. failedSinceRenewal' = TRUE
  BY DEF RenewInv, InTime, KinitTypeOK
<1>3. KinitTypeOK'
  BY <1>1, <1>2 DEF RenewInv, KinitTypeOK
<1>4. Cached' /\ InTime'
  BY <1>1, <1>2 DEF RenewInv, Cached, InTime
<1>5. Renewable' /\ Near' /\ BackedOff' /\ SleptEnough'
  BY <1>1 DEF Renewable, Near, BackedOff, SleptEnough
<1>. QED  BY <1>3, <1>4, <1>5 DEF RenewInv

LEMMA GetRenewedCredsStep == ASSUME RenewInv, GetRenewedCreds PROVE RenewInv'
<1>1. /\ kpc = "renew" /\ kpc' = "store"
      /\ UNCHANGED <<clock, cache, ticket_end_timestamp_, failure_retries, slept,
                     firstFailure, failedSinceRenewal, returnedOK>>
  BY DEF GetRenewedCreds
<1>2. TimeRemaining' = TimeRemaining /\ NextInterval' = NextInterval
  BY <1>1 DEF TimeRemaining, NextInterval
<1>3. KinitTypeOK' /\ Cached'
  BY <1>1 DEF RenewInv, KinitTypeOK, Cached
<1>4. InTime'
  BY <1>1 DEF RenewInv, InTime
<1>5. Near' /\ BackedOff' /\ SleptEnough'
  BY <1>1, <1>2 DEF RenewInv, Near, BackedOff, SleptEnough
<1>6. Renewable'
  <2>1. PICK t \in cache : ~MustReacquire(t)
    BY DEF GetRenewedCreds
  <2>2. clock <= t.till
    BY <2>1, KinitTypes DEF MustReacquire
  <2>3. \A u \in cache : u = t
    BY <2>1 DEF RenewInv, Cached
  <2>. QED  BY <1>1, <2>2, <2>3 DEF Renewable
<1>. QED  BY <1>3, <1>4, <1>5, <1>6 DEF RenewInv

LEMMA KinitInvInit == KinitInit => RenewInv
<1>. SUFFICES ASSUME KinitInit PROVE RenewInv
  OBVIOUS
<1>0. RenewWindow \in Nat /\ 0 \in Nat /\ 0 <= RenewWindow
  BY KinitAssumption
<1> DEFINE t == Ticket(0, RenewWindow)
<1>1. t \in [end : Nat, till : Nat] /\ t.end <= t.till /\ 0 <= t.end
  BY <1>0, TicketIs
<1>2. /\ clock = 0 /\ kpc = "sleep" /\ cache = {t} /\ ticket_end_timestamp_ = t.end
      /\ failure_retries = 0 /\ slept = 0 /\ firstFailure = 0
      /\ failedSinceRenewal = FALSE /\ returnedOK = TRUE
  BY DEF KinitInit
<1>. HIDE DEF t
<1>3. KinitTypeOK
  <2>1. \A k \in cache : k.end <= k.till
    BY <1>1, <1>2
  <2>2. {clock, failure_retries, slept, firstFailure} \subseteq Nat
    BY <1>2
  <2>3. {failedSinceRenewal, returnedOK} \subseteq BOOLEAN
    BY <1>2
  <2>. QED  BY <1>2, <2>1, <2>2, <2>3 DEF KinitTypeOK
<1>4. Cached /\ InTime
  BY <1>1, <1>2 DEF Cached, InTime
<1>5. Renewable /\ Near /\ BackedOff /\ SleptEnough
  BY <1>2 DEF Renewable, Near, BackedOff, SleptEnough
<1>. QED  BY <1>3, <1>4, <1>5 DEF RenewInv

LEMMA KinitInvStep == RenewInv /\ [KinitNext]_kinitVars => RenewInv'
<1>. SUFFICES ASSUME RenewInv, [KinitNext]_kinitVars PROVE RenewInv'
  OBVIOUS
<1>1. CASE SleepFor
  BY <1>1, SleepForStep
<1>2. CASE KerberosFails
  <2>1. kpc # "sleep" /\ Error /\ cache' \in {cache, {}}
    BY <1>2 DEF KerberosFails
  <2>. QED  BY <2>1, ErrorStep
<1>3. CASE NothingToRenew
  BY <1>3, NotRenewedStep DEF NothingToRenew
<1>8. CASE NextCredFails
  BY <1>8, NotRenewedStep DEF NextCredFails
<1>4. CASE Reacquire
  <2>1. Renewed(Ticket(clock, clock + RenewWindow))
    BY <1>4 DEF Reacquire
  <2>2. clock + RenewWindow \in Nat /\ clock <= clock + RenewWindow
    BY KinitTypes
  <2>. QED  BY <2>1, <2>2, RenewedStep
<1>5. CASE GetRenewedCreds
  BY <1>5, GetRenewedCredsStep
<1>6. CASE ClearAndStore
  <2>1. ASSUME Error, cache' \in {cache, {}} PROVE RenewInv'
    <3>1. kpc # "sleep"
      BY <1>6 DEF ClearAndStore
    <3>. QED  BY <2>1, <3>1, ErrorStep
  <2>2. ASSUME NEW t \in cache, Renewed(Ticket(clock, t.till)) PROVE RenewInv'
    <3>1. t.till \in Nat /\ clock <= t.till
      BY <1>6, KinitTypes DEF ClearAndStore, RenewInv, Renewable
    <3>. QED  BY <2>2, <3>1, RenewedStep
  <2>. QED  BY <1>6, <2>1, <2>2 DEF ClearAndStore
<1>7. CASE UNCHANGED kinitVars
  <2>1. UNCHANGED <<clock, kpc, cache, ticket_end_timestamp_, failure_retries, slept,
                    firstFailure, failedSinceRenewal, returnedOK>>
    BY <1>7 DEF kinitVars
  <2>2. TimeRemaining' = TimeRemaining /\ NextInterval' = NextInterval
    BY <2>1 DEF TimeRemaining, NextInterval
  <2>3. KinitTypeOK' /\ Cached'
    BY <2>1 DEF RenewInv, KinitTypeOK, Cached
  <2>4. InTime'
    BY <2>1 DEF RenewInv, InTime
  <2>5. Near' /\ BackedOff' /\ SleptEnough' /\ Renewable'
    BY <2>1, <2>2 DEF RenewInv, Near, BackedOff, SleptEnough, Renewable
  <2>. QED  BY <2>3, <2>4, <2>5 DEF RenewInv
<1>. QED  BY <1>1, <1>2, <1>3, <1>4, <1>5, <1>6, <1>7, <1>8 DEF KinitNext

LEMMA RenewInvMeans == RenewInv => RenewalKeepsUp
<1>. SUFFICES ASSUME RenewInv PROVE RenewalKeepsUp
  OBVIOUS
<1>1. ~failedSinceRenewal => \E t \in cache : clock <= t.end
  BY DEF RenewInv, InTime
<1>. QED  BY <1>1 DEF RenewInv, SleptEnough, RenewalKeepsUp

(* RenewThread() is back before the ticket expires as long as no call of   *)
(* the library, noticed or not, has failed since the last renewal, for any *)
(* jitter, and after failures it never sleeps longer than about three      *)
(* times what they have lasted.                                            *)
THEOREM RenewalCorrect == SecuritySpec => []RenewalKeepsUp
<1>1. SecurityInit => RenewInv
  BY KinitInvInit DEF SecurityInit
<1>2. RenewInv /\ [SecurityNext]_<<subject, vars, kinitVars>> => RenewInv'
  <2>1. [SecurityNext]_<<subject, vars, kinitVars>> => [KinitNext]_kinitVars
    BY DEF SecurityNext
  <2>. QED  BY <2>1, KinitInvStep
<1>. QED  BY <1>1, <1>2, RenewInvMeans, PTL DEF SecuritySpec

=============================================================================
