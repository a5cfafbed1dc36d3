----------------------------- MODULE TokenSigner -----------------------------
(***************************************************************************)
(* TokenSigner of bboy/security/token_signer.{h,cc} with its embedded      *)
(* TokenVerifier, used the way the class comment prescribes: one           *)
(* maintenance task imports the stored keys and then goes round            *)
(* CheckNeedKey(), store, AddKey(), TryRotateKey(); other threads sign     *)
(* tokens; remote verifiers fetch public keys over an unreliable link; and *)
(* the signer's process may crash between any two steps.                   *)
(*                                                                         *)
(* Critical sections of lock_ are actions.  Key generation in              *)
(* CheckNeedKey() happens after its unlock, hence StoreKey is a later      *)
(* step; GenerateAuthnToken() reads the clock before SignToken() takes the *)
(* lock, hence they are two steps.                                         *)
(***************************************************************************)
EXTENDS Integers, Sequences, SequencesExt, TokenVerifier

CONSTANTS
  Rotation,    \* key_rotation_seconds_
  Validity,    \* authn_token_validity_seconds_
  Remotes,     \* verifiers on other nodes
  MaxGap,      \* environment: a maintenance round completes this often
  MaxTime,     \* bound on the clock
  MaxKeys,     \* bound on generated keys
  MaxSeq,      \* bound on sequence numbers
  MaxCrashes   \* bound on crashes

ASSUME TokenAssumption ==
  /\ Rotation \in Nat /\ Validity \in Nat
  /\ MaxGap \in 1..Rotation
  /\ MaxTime \in Nat /\ MaxKeys \in Nat /\ MaxSeq \in Nat /\ MaxCrashes \in Nat

VARIABLES
  now,          \* WallTime_Now()
  tsk_deque,    \* tsk_deque_
  next_key_seq_num, \* next_key_seq_num_
  keys_by_seq,  \* the embedded verifier's map
  maint,        \* where the maintenance task is
  tsk,          \* the key it got from CheckNeedKey()
  round,        \* when the round under way, or the last complete one, began
  stored,       \* the system table, which survives crashes
  stamp,        \* expiration put in the token being made, or -1
  token,        \* some token that was issued
  remote,       \* each remote verifier's map
  reply,        \* the answer of the signer on its way to a remote verifier
  registered,   \* history: when each key pair was added, or -1
  generated,    \* history: number of RSA pairs generated
  crashes       \* history: number of crashes

signer == <<tsk_deque, next_key_seq_num, keys_by_seq>>
caller == <<maint, tsk, round, stored>>
tokens == <<stamp, token>>
network == <<remote, reply>>
history == <<registered, generated, crashes>>
vars == <<now, signer, caller, tokens, network, history>>

(* key_validity_seconds_ *)
KeyValidity == Rotation + Validity

NoKey == [seq |-> -1, expire |-> -1, rsa |-> 0]
NoToken == [form |-> "none", seq |-> -1, rsa |-> 0, expire |-> -1]
Keys == [seq : Nat, expire : Nat, rsa : 1..MaxKeys]

(* The complete rounds are at most MaxGap apart; round.done is the start   *)
(* of the last one.                                                        *)
TypeOK ==
  /\ now \in 0..MaxTime
  /\ tsk_deque \in Seq(Keys) /\ Len(tsk_deque) <= 2
  /\ next_key_seq_num \in Nat
  /\ keys_by_seq \subseteq Keys
  /\ maint \in {"start", "check", "store", "add", "rotate"}
  /\ tsk \in Keys \cup {NoKey}
  /\ round \in [began : Nat, done : Nat]
  /\ stored \subseteq Keys
  /\ stamp \in Nat \cup {-1}
  /\ token = NoToken \/ token \in [form : {"good"}, seq : Nat,
                                   rsa : 1..MaxKeys, expire : Nat]
  /\ remote \in [Remotes -> SUBSET Keys]
  /\ reply \in [Remotes -> SUBSET Keys]
  /\ registered \in [1..MaxKeys -> Nat \cup {-1}]
  /\ generated \in 0..MaxKeys /\ crashes \in 0..MaxCrashes

Init ==
  /\ now = 0
  /\ tsk_deque = <<>> /\ next_key_seq_num = 0 /\ keys_by_seq = {}
  /\ maint = "start" /\ tsk = NoKey /\ round = [began |-> 0, done |-> 0]
  /\ stored = {}
  /\ stamp = -1 /\ token = NoToken
  /\ remote = [v \in Remotes |-> {}] /\ reply = [v \in Remotes |-> {}]
  /\ registered = [r \in 1..MaxKeys |-> -1]
  /\ generated = 0 /\ crashes = 0

-----------------------------------------------------------------------------
(* Time passes as long as maintenance keeps up. *)
Tick ==
  /\ now < MaxTime
  /\ now - round.done < MaxGap
  /\ now' = now + 1
  /\ UNCHANGED <<signer, caller, tokens, network, history>>

(* The process dies; the caller's state and the signer's go with it. *)
Crash ==
  /\ crashes < MaxCrashes
  /\ crashes' = crashes + 1
  /\ tsk_deque' = <<>> /\ next_key_seq_num' = 0 /\ keys_by_seq' = {}
  /\ maint' = "start" /\ tsk' = NoKey /\ stamp' = -1
  /\ UNCHANGED <<now, round, stored, token, network, registered, generated>>

(* The two keys of a set with the highest sequence numbers, in order: what *)
(* a std::map holds when its smallest entries are erased until it has two. *)
Latest(keys) == CHOOSE k \in keys : \A j \in keys : j.seq <= k.seq

Newest(keys) ==
  LET last == Latest(keys)
  IN  IF keys = {} THEN <<>>
      ELSE IF keys = {last} THEN <<last>>
      ELSE <<Latest(keys \ {last}), last>>

(* The time from which the verifier has known each key. *)
Registered(keys) ==
  [r \in 1..MaxKeys |-> IF registered[r] = -1 /\ \E k \in keys : k.rsa = r
                        THEN now ELSE registered[r]]

(* Fault: the sequence number does not follow the imported keys. *)
ImportKeys_ForgetsSeq ==
  LET live == {k \in stored : k.expire > now}
  IN  /\ maint = "start"
      /\ keys_by_seq' = VerifierImport(keys_by_seq, live)
      /\ tsk_deque' = Newest(ToSet(Newest(live)) \cup ToSet(tsk_deque))
      /\ registered' = Registered(live)
      /\ maint' = "check"
      /\ UNCHANGED <<now, next_key_seq_num, tsk, round, stored, tokens, network,
                     generated, crashes>>

(* ImportKeys() with the stored keys.  Expired ones only advance the       *)
(* sequence number.                                                        *)
ImportKeys ==
  LET live == {k \in stored : k.expire > now}
  IN  /\ maint = "start"
      /\ next_key_seq_num' = Max({next_key_seq_num} \cup {k.seq + 1 : k \in stored})
      /\ keys_by_seq' = VerifierImport(keys_by_seq, live)
      /\ tsk_deque' = Newest(ToSet(Newest(live)) \cup ToSet(tsk_deque))
      /\ registered' = Registered(live)
      /\ maint' = "check"
      /\ UNCHANGED <<now, tsk, round, stored, tokens, network, generated,
                     crashes>>

(* CheckNeedKey(): no key at all, or one and it is old enough. *)
NeedKey ==
  \/ tsk_deque = <<>>
  \/ /\ Len(tsk_deque) = 1
     /\ Head(tsk_deque).expire - KeyValidity + Rotation <= now

(* CheckNeedKey() up to its unlock.  When a key is needed its sequence     *)
(* number is taken and GenerateSigningKey() follows, which may fail.       *)
CheckNeedKey ==
  /\ maint = "check"
  /\ round' = [round EXCEPT !.began = now]
  /\ \/ /\ ~NeedKey
        /\ maint' = "rotate" /\ tsk' = NoKey
        /\ UNCHANGED <<next_key_seq_num, generated>>
     \/ /\ NeedKey /\ generated < MaxKeys /\ next_key_seq_num <= MaxSeq
        /\ next_key_seq_num' = next_key_seq_num + 1
        /\ \/ /\ generated' = generated + 1
              /\ tsk' = [seq |-> next_key_seq_num, expire |-> now + KeyValidity,
                         rsa |-> generated + 1]
              /\ maint' = "store"
           \/ UNCHANGED <<generated, tsk, maint>>
  /\ UNCHANGED <<now, tsk_deque, keys_by_seq, stored, tokens, network,
                 registered, crashes>>

(* The caller puts the new key into the system table. *)
StoreKey ==
  /\ maint = "store"
  /\ stored' = stored \cup {tsk}
  /\ maint' = "add"
  /\ UNCHANGED <<now, signer, tsk, round, tokens, network, history>>

(* Fault: the verifier is not told. *)
AddKey_KeepsToItself ==
  /\ maint = "add" /\ tsk.expire > now
  /\ next_key_seq_num' = Max({next_key_seq_num, tsk.seq + 1})
  /\ tsk_deque' = Append(tsk_deque, tsk)
  /\ maint' = "rotate" /\ tsk' = NoKey
  /\ UNCHANGED <<now, keys_by_seq, round, stored, tokens, network, history>>

(* AddKey(): refuses an expired key, else tells the verifier first and     *)
(* then appends to the deque.                                              *)
AddKey ==
  /\ maint = "add"
  /\ \/ /\ tsk.expire <= now
        /\ maint' = "check"
        /\ UNCHANGED <<signer, registered>>
     \/ /\ tsk.expire > now
        /\ next_key_seq_num' = Max({next_key_seq_num, tsk.seq + 1})
        /\ keys_by_seq' = VerifierImport(keys_by_seq, {tsk})
        /\ tsk_deque' = Append(tsk_deque, tsk)
        /\ registered' = Registered({tsk})
        /\ maint' = "rotate"
  /\ tsk' = NoKey
  /\ UNCHANGED <<now, round, stored, tokens, network, generated, crashes>>

(* Faults: the next key replaces the active one at once, or never. *)
TryRotateKey_Early ==
  /\ maint = "rotate"
  /\ tsk_deque' = IF Len(tsk_deque) >= 2 THEN Tail(tsk_deque) ELSE tsk_deque
  /\ maint' = "check"
  /\ round' = [round EXCEPT !.done = round.began]
  /\ UNCHANGED <<now, next_key_seq_num, keys_by_seq, tsk, stored, tokens,
                 network, history>>
TryRotateKey_Never ==
  /\ maint = "rotate"
  /\ maint' = "check"
  /\ round' = [round EXCEPT !.done = round.began]
  /\ UNCHANGED <<now, signer, tsk, stored, tokens, network, history>>

(* TryRotateKey(), the end of a maintenance round. *)
TryRotateKey ==
  /\ maint = "rotate"
  /\ tsk_deque' =
       IF /\ Len(tsk_deque) >= 2
          /\ Head(tsk_deque).expire - KeyValidity + 2 * Rotation <= now
       THEN Tail(tsk_deque) ELSE tsk_deque
  /\ maint' = "check"
  /\ round' = [round EXCEPT !.done = round.began]
  /\ UNCHANGED <<now, next_key_seq_num, keys_by_seq, tsk, stored, tokens,
                 network, history>>

-----------------------------------------------------------------------------
(* GenerateAuthnToken(): the clock is read, then SignToken() takes lock_.  *)
(* One token, made at any time, is followed; tokens do not change the      *)
(* signer, so it stands for all of them.                                   *)
GenerateAuthnToken ==
  /\ stamp = -1 /\ token = NoToken
  /\ stamp' = now + Validity
  /\ UNCHANGED <<now, signer, caller, token, network, history>>

(* SignToken(): with the key at the front, or not at all. *)
SignToken ==
  /\ stamp # -1
  /\ stamp' = -1
  /\ token' = IF tsk_deque = <<>> THEN token
              ELSE [form |-> "good", seq |-> Head(tsk_deque).seq,
                    rsa |-> Head(tsk_deque).rsa, expire |-> stamp]
  /\ UNCHANGED <<now, signer, caller, network, history>>

(* A remote verifier asks for the keys after the last one it knows.  The   *)
(* answer may get lost (overwritten), be late, or arrive more than once.   *)
FetchKeys(v) ==
  /\ reply' = [reply EXCEPT
       ![v] = ExportKeys(keys_by_seq, GetMaxKnownKeySequenceNumber(remote[v]))]
  /\ UNCHANGED <<now, signer, caller, tokens, remote, history>>

ReceiveKeys(v) ==
  /\ remote' = [remote EXCEPT ![v] = VerifierImport(@, reply[v])]
  /\ UNCHANGED <<now, signer, caller, tokens, reply, history>>

Next ==
  \/ Tick \/ Crash \/ ImportKeys \/ CheckNeedKey \/ StoreKey \/ AddKey
  \/ TryRotateKey \/ GenerateAuthnToken \/ SignToken
  \/ \E v \in Remotes : FetchKeys(v) \/ ReceiveKeys(v)

Spec == Init /\ [][Next]_vars

-----------------------------------------------------------------------------
AllKeys == ToSet(tsk_deque) \cup keys_by_seq \cup stored
             \cup UNION {remote[v] \cup reply[v] : v \in Remotes}

(* A sequence number names one RSA pair, everywhere and for ever, although *)
(* next_key_seq_num_ is lost in a crash and rebuilt from the stored keys,  *)
(* expired ones included; ImportKeys() of the verifier, which keeps the    *)
(* first key it sees under a number, relies on it.                         *)
SequenceNumbersIdentifyKeys ==
  /\ \A j, k \in AllKeys : j.seq = k.seq => j = k
  /\ \A k \in AllKeys : k.seq = token.seq => k.rsa = token.rsa
  /\ maint # "start" => \A k \in AllKeys : k.seq < next_key_seq_num

(* The embedded verifier can check what the signer signs: a token that is  *)
(* not expired is rejected only because its key is, or, after a restart,   *)
(* because that key was not loaded again for being expired.                *)
SignerKnowsItsKeys ==
  /\ TypeOK
  /\ (token # NoToken /\ maint # "start") =>
       LET key == CHOOSE k \in stored : k.seq = token.seq
           verdict == VerifyTokenSignature(keys_by_seq, token, now)
       IN  verdict \in {"EXPIRED_SIGNING_KEY", "UNKNOWN_SIGNING_KEY"} =>
             key.expire <= now

(* A remote verifier has no gap: it knows every key of the signer up to    *)
(* the last one it knows, whatever became of earlier answers.  Otherwise   *)
(* it would never ask for the missing one again.                           *)
RemotesHaveNoGaps ==
  \A v \in Remotes : \A k \in keys_by_seq :
    k.seq <= GetMaxKnownKeySequenceNumber(remote[v]) => k \in remote[v]

(* A next key is not made active before the verifier has known it for a    *)
(* rotation interval, less what the maintenance task may be late, twice:   *)
(* with the activation of the key before it, and with asking for this one. *)
(* A crash can cost another round: ImportKeys() brings back a key that was *)
(* rotated out and has not expired.                                        *)
KeysPropagateBeforeUse ==
  [][(crashes' = 0 /\ Len(tsk_deque) = 2 /\ Len(tsk_deque') = 1) =>
       registered[Head(tsk_deque').rsa] + Rotation + 1 - 2 * MaxGap <= now]_vars

(* How long a token can outlive the key that signed it. *)
OverhangBounded ==
  token # NoToken =>
    \A k \in stored : k.seq = token.seq =>
      token.expire - k.expire <= Max({Rotation, Validity}) - 1 + MaxGap

(* "key_validity = key_rotation + authn_token_validity.  That corresponds  *)
(* to the maximum possible token lifetime": a token never outlives the key *)
(* its verification needs.                                                 *)
KeyOutlivesToken ==
  token # NoToken =>
    \A k \in stored : k.seq = token.seq => token.expire <= k.expire

=============================================================================
