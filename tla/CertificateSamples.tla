-------------------------- MODULE CertificateSamples --------------------------
(***************************************************************************)
(* Well-formed certificates for the MC modules, by what differs.           *)
(***************************************************************************)
EXTENDS Naturals, Sequences

Self(created, sign, expires) ==
  [issuer |-> TRUE, created |-> created, verifies |-> TRUE, sign |-> sign,
   expires |-> expires]
Bind(created, sign, expires) ==
  [typ |-> "binding", created |-> created, sign |-> sign, expires |-> expires]
Revoke == [typ |-> "revocation", created |-> 3, sign |-> FALSE, expires |-> 0]
Subkey(f, sigs) == [fp |-> f, created |-> 0, sigs |-> sigs, bindingsVerify |-> TRUE]
Certificate(f, selfSigs, subkeys) ==
  [fp |-> f, v4 |-> TRUE, revoked |-> FALSE, created |-> 0,
   selfSigs |-> selfSigs, subkeys |-> subkeys]
=============================================================================
