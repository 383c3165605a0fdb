----------------------------- MODULE MCPackets -----------------------------
(***************************************************************************)
(* Messages: every stream of up to four octets; and up to three packets of *)
(* every kind, whole or with their bodies cut short, whose bodies look     *)
(* like headers of encrypted data where they can.                          *)
(***************************************************************************)
EXTENDS Packets

CONSTANT MaxOctets, MaxPackets

Short == UNION {[1..n -> Octets] : n \in 0..MaxOctets}

Parts ==
  {<<1, 2, 1, 4>>, <<1, 2, 1, 5>>, <<1, 2, 2, 2>>, <<1, 2, 3, 4>>,
   <<1, 2, 4, 1>>, <<1, 3, 1, 2, 3>>,
   <<2, 3, 1, 1, 2>>, <<2, 1, 2>>, <<2, 0>>, <<2, 4, 1>>,
   <<3, 1, 4>>, <<4, 0>>,
   <<5, 0>>, <<5, 2, 2, 1>>, <<5, 4, 1, 2, 1, 4>>, <<5, 3, 4, 1>>,
   <<0, 1, 1>>, <<1>>}

Long ==
  UNION {{FlattenSeq(parts) : parts \in [1..n -> Parts]} : n \in 1..MaxPackets}

Streams == Short \cup Long

AllMessages ==
  [armor : {"no"}, octets : Streams]
    \cup [armor : {"good", "broken"}, octets : Parts]

Ecdh(id) == [alg |-> "ECDH", id |-> id]
Eddsa(id) == [alg |-> "EdDSA", id |-> id]
AllCertificates ==
  {<<Ecdh(1)>>, <<Eddsa(2), Ecdh(1)>>, <<Ecdh(1), Ecdh(2)>>, <<Eddsa(1)>>}
=============================================================================
