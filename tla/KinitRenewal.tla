---------------------------- MODULE KinitRenewal ----------------------------
(***************************************************************************)
(* The renewal thread of security/init.cc: RenewThread(), the intervals it *)
(* sleeps and DoRenewal() on the credential cache.                         *)
(*                                                                         *)
(* Time is to scale: the 5, 60, 300 and 600 seconds of the code are        *)
(* constants in the same order, and a jitter is any value of its range.    *)
(* The Kerberos library may fail in every call; not every failure is seen. *)
(***************************************************************************)
EXTENDS Integers

CONSTANTS
  MinEarly, ShortEarly, \* 5 and 60 seconds: the jitter of a short ticket
  Short, Long,          \* 300 and 600 seconds
  MinBackoff,           \* 60 seconds
  RenewMargin,          \* 30 seconds
  Lifetime,             \* of a ticket
  RenewWindow,          \* for how long a ticket can be renewed
  MaxKinitTime          \* bound on the time

ASSUME KinitAssumption ==
  /\ {MinEarly, ShortEarly, Short, Long, MinBackoff, RenewMargin, Lifetime, RenewWindow,
      MaxKinitTime} \subseteq Nat
  /\ MinEarly <= ShortEarly /\ ShortEarly <= Short /\ Short <= Long

VARIABLES
  clock,                 \* time(nullptr)
  kpc,                   \* "sleep", or "renew", then "store" in DoRenewal()
  cache,                 \* the TGT in the cache, a set of at most one
  ticket_end_timestamp_,
  failure_retries,
  slept,                 \* how long the last sleep was
  firstFailure,          \* when the current series of failures began
  failedSinceRenewal,    \* some call has failed since the ticket was got
  returnedOK             \* the last DoRenewal() returned OK

kinitVars == <<clock, kpc, cache, ticket_end_timestamp_, failure_retries, slept,
               firstFailure, failedSinceRenewal, returnedOK>>

Ticket(from, till) ==
  [end |-> IF from + Lifetime < till THEN from + Lifetime ELSE till, till |-> till]

KinitTypeOK ==
  /\ kpc \in {"sleep", "renew", "store"}
  /\ {clock, failure_retries, slept, firstFailure} \subseteq Nat
  /\ \A t \in cache : t.end <= t.till
  /\ {failedSinceRenewal, returnedOK} \subseteq BOOLEAN

(* Kinit() has logged in. *)
KinitInit ==
  /\ clock = 0 /\ kpc = "sleep" /\ cache = {Ticket(0, RenewWindow)}
  /\ ticket_end_timestamp_ = Ticket(0, RenewWindow).end
  /\ failure_retries = 0 /\ slept = 0 /\ firstFailure = 0
  /\ failedSinceRenewal = FALSE /\ returnedOK = TRUE

-----------------------------------------------------------------------------
TimeRemaining == ticket_end_timestamp_ - clock

(* 1 << n *)
PowerOfTwo(n) ==
  LET power[i \in 0..n] == IF i = 0 THEN 1 ELSE 2 * power[i - 1] IN power[n]

(* GetBackedOffRenewInterval(): half to one and a half times the base.     *)
(* The 32-bit product overflows only after decades of failures.            *)
GetBackedOffRenewInterval ==
  LET next == IF TimeRemaining > MinBackoff THEN TimeRemaining ELSE MinBackoff
      baseTime == next * PowerOfTwo(failure_retries)
  IN (baseTime \div 2) .. ((3 * baseTime) \div 2)

GetNextRenewInterval ==
  CASE failure_retries > 0 -> GetBackedOffRenewInterval
    [] failure_retries = 0 /\ TimeRemaining > Long ->
         {TimeRemaining - j : j \in MinEarly .. Short}
    [] failure_retries = 0 /\ TimeRemaining \in Short + 1 .. Long ->
         {TimeRemaining - j : j \in MinEarly .. ShortEarly}
    [] OTHER -> {TimeRemaining}

(* SleepFor() does not sleep at all for a negative time. *)
SleepFor ==
  /\ kpc = "sleep" /\ kpc' = "renew"
  /\ \E i \in GetNextRenewInterval :
       /\ slept' = IF i > 0 THEN i ELSE 0
       /\ clock' = clock + slept' /\ clock' <= MaxKinitTime
  /\ UNCHANGED <<cache, ticket_end_timestamp_, failure_retries, firstFailure, failedSinceRenewal,
                 returnedOK>>

(* Fault: a success does not end the series of failures. *)
RetriesAfterSuccess_Kept == failure_retries

(* DoRenewal() returns to RenewThread(). *)
RetriesAfterSuccess == 0

Ok ==
  /\ kpc' = "sleep" /\ failure_retries' = RetriesAfterSuccess /\ returnedOK' = TRUE
  /\ UNCHANGED <<clock, slept, firstFailure>>

(* The ticket t is in the cache and its end is noted. *)
Renewed(t) ==
  /\ Ok /\ cache' = {t} /\ ticket_end_timestamp_' = t.end /\ failedSinceRenewal' = FALSE

(* The loop over the cache has ended without a ticket: that is OK too. *)
NotRenewed == kpc = "renew" /\ Ok /\ UNCHANGED <<cache, ticket_end_timestamp_>>

Error ==
  /\ kpc' = "sleep" /\ failure_retries' = failure_retries + 1 /\ returnedOK' = FALSE
  /\ firstFailure' = IF failure_retries = 0 THEN clock ELSE firstFailure
  /\ failedSinceRenewal' = TRUE
  /\ UNCHANGED <<clock, slept, ticket_end_timestamp_>>

MustReacquire(t) == t.end < clock \/ t.till - RenewMargin < clock

(* krb5_cc_start_seq_get(), the login from the keytab or the renewal       *)
(* fails.  A login that fails may already have emptied the cache that it   *)
(* was to fill.                                                            *)
KerberosFails ==
  /\ kpc = "renew" /\ Error
  /\ cache' = cache \/ (cache' = {} /\ \E t \in cache : MustReacquire(t))

(* krb5_cc_next_cred() finds the end of the cache, and no TGT before it.   *)
NothingToRenew == NotRenewed /\ cache = {} /\ UNCHANGED failedSinceRenewal

(* krb5_cc_next_cred() fails, whatever is in the cache.  Its error ends    *)
(* the loop just as the end of the cache does, and nobody looks at it.     *)
NextCredFails == NotRenewed /\ failedSinceRenewal' = TRUE

(* A new ticket from the keytab; the library puts it in the cache. *)
Reacquire ==
  /\ kpc = "renew" /\ \E t \in cache : MustReacquire(t)
  /\ Renewed(Ticket(clock, clock + RenewWindow))

(* krb5_get_renewed_creds() has a renewed ticket, valid no longer than the *)
(* old one could be renewed.                                               *)
GetRenewedCreds ==
  /\ kpc = "renew" /\ \E t \in cache : ~MustReacquire(t)
  /\ kpc' = "store"
  /\ UNCHANGED <<clock, cache, ticket_end_timestamp_, failure_retries, slept, firstFailure,
                 failedSinceRenewal, returnedOK>>

(* Under the write lock, so that nobody who negotiates sees the steps:     *)
(* krb5_cc_initialize() empties the cache and krb5_cc_store_cred() fills   *)
(* it; either may fail.                                                    *)
ClearAndStore ==
  /\ kpc = "store"
  /\ \/ Error /\ cache' \in {cache, {}}
     \/ \E t \in cache : Renewed(Ticket(clock, t.till))

KinitNext ==
  \/ SleepFor \/ KerberosFails \/ NothingToRenew \/ NextCredFails \/ Reacquire
  \/ GetRenewedCreds \/ ClearAndStore

KinitSpec == KinitInit /\ [][KinitNext]_kinitVars

-----------------------------------------------------------------------------
(* As long as no call has failed since the last renewal the thread comes   *)
(* back before the ticket has expired, whatever the jitter, however close  *)
(* the end of the renewal window and whatever failed before that renewal;  *)
(* and after failures it sleeps no more than about three times as long as  *)
(* they have lasted.  A failure is also one that DoRenewal() does not see. *)
RenewalKeepsUp ==
  /\ KinitTypeOK
  /\ (kpc = "renew" /\ ~failedSinceRenewal) => \E t \in cache : clock <= t.end
  /\ (kpc = "renew" /\ failure_retries > 0) =>
       slept <= 3 * (clock - slept - firstFailure) + 3 * (Short + MinBackoff)

(* DoRenewal(): "Renews the existing ticket if possible, or acquires a new *)
(* Ticket Granting Ticket (TGT)."  It returns OK without one when a failed *)
(* store has left the cache empty.                                         *)
OkMeansTicket == returnedOK => cache # {}

=============================================================================
