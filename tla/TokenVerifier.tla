---------------------------- MODULE TokenVerifier ----------------------------
(***************************************************************************)
(* TokenVerifier of bboy/security/token_verifier.{h,cc}: what its methods  *)
(* do to, and read from, keys_by_seq_.  A key is a record                  *)
(* [seq, expire, rsa] with its sequence number, its expiration time and    *)
(* the identity of its RSA pair; keys_by_seq_ is a set of keys, one per    *)
(* sequence number.  Every method is one critical section of lock_.        *)
(***************************************************************************)
EXTENDS Integers, FiniteSets, FiniteSetsExt

SeqNums(keys) == {k.seq : k \in keys}

(* GetMaxKnownKeySequenceNumber() *)
GetMaxKnownKeySequenceNumber(keys) == IF keys = {} THEN -1 ELSE Max(SeqNums(keys))

(* ImportKeys(): emplace() leaves a key alone that is already there under  *)
(* the same sequence number.                                               *)
VerifierImport(keys, new) == keys \cup {k \in new : k.seq \notin SeqNums(keys)}

(* Fault: only the newest key is exported. *)
ExportKeys_NewestOnly(keys, after) ==
  {k \in keys : k.seq > after /\ k.seq = GetMaxKnownKeySequenceNumber(keys)}

(* ExportKeys(after_sequence_number): from upper_bound() on. *)
ExportKeys(keys, after) == {k \in keys : k.seq > after}

(* VerifyTokenSignature() at time now.  A token is a record [form, seq,    *)
(* rsa, expire]; form says whether its fields are there and known.         *)
VerifyTokenSignature(keys, token, now) ==
  LET tsk == {k \in keys : k.seq = token.seq}
  IN  CASE token.form = "incomplete" -> "INVALID_TOKEN"
        [] token.form # "incomplete" /\ token.expire < now -> "EXPIRED_TOKEN"
        [] token.form = "unknown_feature" /\ token.expire >= now ->
             "INCOMPATIBLE_FEATURE"
        [] token.form = "good" /\ token.expire >= now ->
             CASE tsk = {} -> "UNKNOWN_SIGNING_KEY"
               [] \E k \in tsk : k.expire < now -> "EXPIRED_SIGNING_KEY"
               [] \E k \in tsk : k.expire >= now /\ k.rsa # token.rsa ->
                    "INVALID_SIGNATURE"
               [] OTHER -> "VALID"

=============================================================================
