---------------------------- MODULE MCAllowlist ----------------------------
(***************************************************************************)
(* Allowlist files for TLC: up to three certificates, in one or two        *)
(* blocks, out of a pool that meets every branch of classify.  f1 and f2   *)
(* share a key id; so do the primary f3 and the subkey f6, which two       *)
(* certificates carry.  Keys expire at 10, before, at and after which a    *)
(* build may start.                                                        *)
(***************************************************************************)
EXTENDS Allowlist, CertificateSamples

CONSTANTS f1, f2, f3, f4, f5, f6, k1, k2, k3, unreadable

MCFingerprints == {f1, f2, f3, f4, f5, f6}
MCKeyIds == {k1, k2, k3}
MCKeyIdOf == [f \in MCFingerprints |->
                IF f \in {f1, f2} THEN k1 ELSE IF f \in {f3, f6} THEN k2 ELSE k3]

Signer1 == Certificate(f1, <<Self(1, TRUE, 0)>>, <<>>)
Signer1Revoked == [Signer1 EXCEPT !.revoked = TRUE]
Signer2Expires == Certificate(f2, <<Self(1, TRUE, 10)>>, <<>>)
(* The newer self signature takes the expiry away and the sign flag too.   *)
Signer2Renewed ==
  Certificate(f2, <<Self(2, FALSE, 0), Self(1, TRUE, 10)>>,
              <<Subkey(f4, <<Bind(1, TRUE, 10), Bind(2, TRUE, 0)>>)>>)
Subkey3 == Certificate(f3, <<Self(1, FALSE, 0)>>, <<Subkey(f6, <<Bind(1, TRUE, 10)>>)>>)
Both3 == Certificate(f3, <<Self(1, TRUE, 0)>>,
                     <<Subkey(f6, <<Bind(1, TRUE, 0)>>),
                       Subkey(f4, <<Bind(1, TRUE, 0), Revoke>>)>>)
Subkey5 == Certificate(f5, <<Self(1, FALSE, 0)>>,
                       <<Subkey(f6, <<Bind(1, TRUE, 0)>>),
                         [Subkey(f4, <<Bind(1, TRUE, 0)>>) EXCEPT !.bindingsVerify = FALSE]>>)
EncryptOnly4 == Certificate(f4, <<Self(1, FALSE, 0)>>,
                            <<Subkey(f5, <<Bind(1, FALSE, 0)>>), Subkey(f6, <<>>)>>)
ThirdParty4 == Certificate(f4, <<[Self(1, TRUE, 0) EXCEPT !.issuer = FALSE]>>, <<>>)
(* The forged newest signature disqualifies, although an older one is good.*)
Forged5 == Certificate(f5, <<Self(1, TRUE, 0), [Self(2, TRUE, 0) EXCEPT !.verifies = FALSE]>>, <<>>)
Version3 == [Signer1 EXCEPT !.fp = f2, !.v4 = FALSE]

MCCerts == {Signer1, Signer1Revoked, Signer2Expires, Signer2Renewed, Subkey3,
            Both3, Subkey5, EncryptOnly4, ThirdParty4, Forged5, Version3}

Items == MCCerts \cup {unreadable}
Entangled == {Signer1, Signer1Revoked, Signer2Renewed, Subkey3, Subkey5}

(* Every pair in one block and in two, and triples of the certificates     *)
(* that share a fingerprint, a key id or a subkey.                         *)
MCInputs ==
  {<<>>, <<<<>>>>}
    \cup {<<<<c>>>> : c \in Items}
    \cup {<<<<c, d>>>> : c, d \in Items}
    \cup {<<<<c>>, <<d>>>> : c, d \in Items}
    \cup {<<<<c, d>>, <<e>>>> : c, d, e \in Entangled}

MCBuildTimes == {9, 10, 11}
=============================================================================
