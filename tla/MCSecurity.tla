----------------------------- MODULE MCSecurity -----------------------------
(***************************************************************************)
(* The security library for TLC: the token signer with its verifiers, and  *)
(* the thread that renews the Kerberos ticket.  They share no state, so a  *)
(* behaviour is about one of them, the subject.                            *)
(***************************************************************************)
EXTENDS TokenSigner, KinitRenewal

VARIABLE subject

SecurityInit == subject \in {"signer", "kinit"} /\ Init /\ KinitInit

SecurityNext ==
  /\ UNCHANGED subject
  /\ \/ subject = "signer" /\ Next /\ UNCHANGED kinitVars
     \/ subject = "kinit" /\ KinitNext /\ UNCHANGED vars

SecuritySpec == SecurityInit /\ [][SecurityNext]_<<subject, vars, kinitVars>>

=============================================================================
