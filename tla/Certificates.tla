---------------------------- MODULE Certificates ----------------------------
(***************************************************************************)
(* The OpenPGP certificates of the allowlist and what                      *)
(* crates/tvc-gpg/src/allowlist.rs decides about one of them: which of its *)
(* keys can verify a signature at a given time (classify), which of them   *)
(* it reports as unusable (check), and which index the whole allowlist     *)
(* amounts to.  Times are seconds; a key id is the short form of a         *)
(* fingerprint, and two fingerprints may share one.                        *)
(*                                                                         *)
(* Whether a signature verifies is rPGP's business, and is a field of the  *)
(* data here.  The wording of the defect messages is left out: a defect is *)
(* the fingerprint of the key it is about.                                 *)
(***************************************************************************)
EXTENDS Naturals, Sequences

CONSTANTS
  Fingerprints,   \* fingerprints of primary keys and of subkeys
  KeyIds,         \* legacy key ids
  KeyIdOf,        \* the key id of each fingerprint
  None,           \* what a lookup that finds nothing returns
  Certs           \* the certificates that may stand in an allowlist file

-----------------------------------------------------------------------------
(* A self certification over a user id.  issuer: it names the primary as   *)
(* its issuer.  expires: key expiration in seconds after the creation of   *)
(* the key, zero when the subpacket is absent.                             *)
SelfSignatureType ==
  [issuer : BOOLEAN, created : Nat, verifies : BOOLEAN, sign : BOOLEAN,
   expires : Nat]

SubkeySignatureType ==
  [typ : {"binding", "revocation"}, created : Nat, sign : BOOLEAN,
   expires : Nat]

SubkeyType ==
  [fp : Fingerprints, created : Nat, sigs : Seq(SubkeySignatureType),
   bindingsVerify : BOOLEAN]

CertificateType ==
  [fp : Fingerprints, v4 : BOOLEAN, revoked : BOOLEAN, created : Nat,
   selfSigs : Seq(SelfSignatureType), subkeys : Seq(SubkeyType)]

ASSUME CertificatesAssumption ==
  /\ KeyIdOf \in [Fingerprints -> KeyIds]
  /\ None \notin Fingerprints
  /\ Certs \subseteq CertificateType

-----------------------------------------------------------------------------
(* Iterator::max_by_key over creation times: the last of the newest.       *)
Newest(sigs, I) ==
  sigs[CHOOSE i \in I : \A j \in I :
         \/ sigs[j].created < sigs[i].created
         \/ sigs[j].created = sigs[i].created /\ j <= i]

SelfSignatures(c) == {i \in DOMAIN c.selfSigs : c.selfSigs[i].issuer}

NewestSelfSignature(c) == Newest(c.selfSigs, SelfSignatures(c))

Bindings(s) == {i \in DOMAIN s.sigs : s.sigs[i].typ = "binding"}

NewestBinding(s) == Newest(s.sigs, Bindings(s))

(* The sum is taken in u64 over two u32 values, so it cannot wrap.         *)
ExpiredAt(created, sig, now) ==
  sig.expires # 0 /\ created + sig.expires <= now

-----------------------------------------------------------------------------
(* The checks that disqualify a whole certificate.                         *)
Sound(c, now) ==
  /\ c.v4
  /\ ~c.revoked
  /\ SelfSignatures(c) # {}
  /\ NewestSelfSignature(c).verifies
  /\ ~ExpiredAt(c.created, NewestSelfSignature(c), now)

IsSigningSubkey(s) == Bindings(s) # {} /\ NewestBinding(s).sign

SubkeyUsable(s, now) ==
  /\ \A i \in DOMAIN s.sigs : s.sigs[i].typ # "revocation"
  /\ ~ExpiredAt(s.created, NewestBinding(s), now)
  /\ s.bindingsVerify

(* The keys of a certificate in the order classify visits them: slot 0 is  *)
(* the primary, slot i the i-th subkey.                                    *)
Slots(c) == 0..Len(c.subkeys)

SlotKey(c, i) == IF i = 0 THEN c.fp ELSE c.subkeys[i].fp

SlotUsable(c, i, now) ==
  /\ Sound(c, now)
  /\ IF i = 0
       THEN NewestSelfSignature(c).sign
       ELSE IsSigningSubkey(c.subkeys[i]) /\ SubkeyUsable(c.subkeys[i], now)

UsableKeys(c, now) ==
  {SlotKey(c, i) : i \in {j \in Slots(c) : SlotUsable(c, j, now)}}

UnusableSubkeys(c, now) ==
  {c.subkeys[i].fp : i \in {j \in DOMAIN c.subkeys :
                              /\ IsSigningSubkey(c.subkeys[j])
                              /\ ~SubkeyUsable(c.subkeys[j], now)}}

(* Mutated: a certificate without any signing key goes unreported.         *)
DefectsOfSubkeysOnly(c, now) ==
  IF ~Sound(c, now) THEN {c.fp} ELSE UnusableSubkeys(c, now)

Defects(c, now) ==
  IF ~Sound(c, now) THEN {c.fp}
  ELSE IF UsableKeys(c, now) = {} /\ UnusableSubkeys(c, now) = {}
       THEN {c.fp}
       ELSE UnusableSubkeys(c, now)

-----------------------------------------------------------------------------
(* The index a list of certificates stands for, said without a loop.  A    *)
(* signer is the certificate a verifying key is attributed to; when two    *)
(* certificates carry the same key, the later one has it.                  *)
Holders(certificates, now, f) ==
  {i \in DOMAIN certificates : f \in UsableKeys(certificates[i], now)}

SignerIndex(certificates, now) ==
  [f \in Fingerprints |->
     IF Holders(certificates, now, f) = {} THEN None
     ELSE certificates[CHOOSE i \in Holders(certificates, now, f) :
                         \A j \in Holders(certificates, now, f) : j <= i].fp]

Indexed(signers) == {f \in Fingerprints : signers[f] # None}

Sharing(signers, k) == {f \in Indexed(signers) : KeyIdOf[f] = k}

(* A key id names a key only while no other verifying key shares it.       *)
KeyIdIndex(signers) ==
  [k \in KeyIds |->
     IF \E f \in Sharing(signers, k) : Sharing(signers, k) = {f}
       THEN CHOOSE f \in Sharing(signers, k) : TRUE
       ELSE None]

(* Allowlist::lookup, the fingerprint of the verifying key it settles on.  *)
(* The issuer fingerprint and key id are None when the signature has none. *)
Lookup(signers, keyIds, fp, kid) ==
  IF fp \in Indexed(signers) THEN fp
  ELSE IF kid \in KeyIds THEN keyIds[kid]
  ELSE None
=============================================================================
