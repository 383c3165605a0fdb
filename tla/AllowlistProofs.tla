-------------------------- MODULE AllowlistProofs --------------------------
(***************************************************************************)
(* Proofs about Allowlist for every set of certificates, every allowlist   *)
(* file and every assignment of key ids to fingerprints.                   *)
(***************************************************************************)
EXTENDS Allowlist, WellFoundedInduction, TLAPS

(* A nonempty set of naturals has a least element.                         *)
LEMMA LeastExists ==
  ASSUME NEW S \in SUBSET Nat, S # {}
  PROVE  \E m \in S : \A n \in S : m <= n
<1> DEFINE R == OpToRel(<, Nat)
<1>1. IsWellFoundedOn(R, Nat)
  BY NatLessThanWellFounded
<1>2. \A x, y \in Nat : <<y, x>> \in R <=> y < x
  BY DEF OpToRel
<1> HIDE DEF R
<1>3. PICK m \in S : \A n \in S : ~(<<n, m>> \in R)
  BY <1>1, WFMin
<1>4. ASSUME NEW n \in S PROVE m <= n
  <2>1. ~(n < m)
    BY <1>2, <1>3
  <2> QED BY <2>1
<1> QED BY <1>4

(* A nonempty set of naturals up to N has a greatest element: the last     *)
(* owner of a key.                                                         *)
LEMMA GreatestExists ==
  ASSUME NEW N \in Nat, NEW S \in SUBSET (0..N), S # {}
  PROVE  \E m \in S : \A n \in S : n <= m
<1> DEFINE T == {N - x : x \in S}
<1>1. T \in SUBSET Nat /\ T # {}
  <2>1. \A x \in S : N - x \in Nat
    <3> TAKE x \in S
    <3>1. x \in 0..N
      OBVIOUS
    <3> QED BY <3>1
  <2> QED BY <2>1
<1>2. PICK t \in T : \A u \in T : t <= u
  BY <1>1, LeastExists
<1>3. PICK m \in S : t = N - m
  BY <1>2
<1>4. ASSUME NEW n \in S PROVE n <= m
  <2>1. N - m <= N - n
    BY <1>2, <1>3
  <2>2. m \in 0..N /\ n \in 0..N
    OBVIOUS
  <2>3. m \in Nat /\ n \in Nat
    BY <2>2
  <2> HIDE DEF T
  <2> QED BY <2>1, <2>3
<1> QED BY <1>4

(* What an allowlist file is made of: an item that can be read is a        *)
(* certificate.                                                            *)
LEMMA ItemType ==
  ASSUME NEW w \in Inputs, NEW b \in 1..Len(w), NEW i \in 1..Len(w[b])
  PROVE  w[b][i] \in Certs \cup {Unreadable}
BY AllowlistAssumption

(* The shape of a certificate: its fingerprints are fingerprints.          *)
LEMMA SlotKeyType ==
  ASSUME NEW c \in Certs
  PROVE  /\ c.fp \in Fingerprints
         /\ Slots(c) \subseteq Nat
         /\ \A i \in Slots(c) : SlotKey(c, i) \in Fingerprints
<1>1. c \in CertificateType
  BY CertificatesAssumption
<1>2. c.fp \in Fingerprints /\ c.subkeys \in Seq(SubkeyType)
  BY <1>1 DEF CertificateType
<1>3. ASSUME NEW i \in Slots(c) PROVE SlotKey(c, i) \in Fingerprints
  <2>1. CASE i = 0
    BY <2>1, <1>2 DEF SlotKey
  <2>2. CASE i # 0
    <3>1. i \in 1..Len(c.subkeys)
      BY <2>2, <1>2 DEF Slots
    <3>2. c.subkeys[i] \in SubkeyType
      BY <3>1, <1>2
    <3> QED BY <2>2, <3>2 DEF SlotKey, SubkeyType
  <2> QED BY <2>1, <2>2
<1> QED BY <1>2, <1>3 DEF Slots

-----------------------------------------------------------------------------
(* The initial state is of the right type.                                 *)
LEMMA TypeInit == Init => TypeOK
BY AllowlistAssumption DEF Init, TypeOK

(* Every step keeps the types: no loop counter passes the end of what it   *)
(* walks, and an error is set exactly when the build fails.                *)
LEMMA TypeNext == TypeOK /\ [Next]_vars => TypeOK'
<1> SUFFICES ASSUME TypeOK, [Next]_vars PROVE TypeOK'
  OBVIOUS
<1> USE DEF TypeOK
<1>1. CASE Start
  BY <1>1, AllowlistAssumption DEF Start, Fail, input, reader, indexer, Errors
<1>2. CASE ReadItem
  <2> DEFINE c == blocks[block][item]
  <2>1. CASE c = Unreadable
    BY <1>2, <2>1, AllowlistAssumption
    DEF ReadItem, Fail, input, reader, indexer, Errors
  <2>2. CASE c # Unreadable
    <3>1. c \in Certs
      BY <1>2, <2>2, ItemType DEF ReadItem
    <3>2. certificates' = certificates \/ certificates' = Append(certificates, c)
      BY <1>2, <2>2 DEF ReadItem
    <3>3. certificates' \in Seq(Certs) /\ Len(certificates') >= Len(certificates)
      BY <3>1, <3>2
    <3> QED
      BY <1>2, <2>2, <3>3, AllowlistAssumption DEF ReadItem, input, indexer
  <2> QED BY <2>1, <2>2
<1>3. CASE NextBlock
  BY <1>3, AllowlistAssumption DEF NextBlock, input, indexer
<1>4. CASE ReadDone
  BY <1>4, AllowlistAssumption DEF ReadDone, Fail, input, reader, indexer, Errors
<1>5. CASE IndexSlot
  <2> DEFINE c == certificates[cert]
  <2>1. c \in Certs /\ slot \in Slots(c)
    BY <1>5 DEF IndexSlot
  <2>2. SlotKey(c, slot) \in Fingerprints /\ c.fp \in Fingerprints
    BY <2>1, SlotKeyType
  <2>3. KeyIdOf[SlotKey(c, slot)] \in KeyIds
    BY <2>2, CertificatesAssumption
  <2> HIDE DEF c
  <2>4. /\ byFingerprint' \in [Fingerprints -> Fingerprints \cup {None}]
        /\ byKeyId' \in [KeyIds -> Fingerprints \cup {None}]
        /\ ambiguous' \in SUBSET KeyIds
    <3>1. CASE SlotUsable(c, slot, builtAt)
      <4>1. Insert(SlotKey(c, slot), c.fp)
        BY <1>5, <3>1 DEF IndexSlot, c
      <4> QED BY <4>1, <2>2, <2>3 DEF Insert
    <3>2. CASE ~SlotUsable(c, slot, builtAt)
      BY <1>5, <3>2 DEF IndexSlot, c
    <3> QED BY <3>1, <3>2
  <2> QED BY <1>5, <2>4, AllowlistAssumption DEF IndexSlot, input, reader
<1>6. CASE NextCertificate
  BY <1>6, AllowlistAssumption DEF NextCertificate, input, reader
<1>7. CASE Finish
  BY <1>7, AllowlistAssumption DEF Finish, Fail, input, reader, Errors
<1>8. CASE UNCHANGED vars
  BY <1>8 DEF vars, input, reader, indexer
<1> QED
  BY <1>1, <1>2, <1>3, <1>4, <1>5, <1>6, <1>7, <1>8 DEF Next, Terminated

(* The build keeps every variable in its type, whatever the file holds.    *)
THEOREM TypeCorrect == Spec => []TypeOK
BY TypeInit, TypeNext, PTL DEF Spec

-----------------------------------------------------------------------------
(* Key ids.  While the loop runs, a key id that two indexed keys share is  *)
(* known to be ambiguous, and a key id of an indexed key resolves to some  *)
(* indexed key that has it: which one depends on the order of the keys,    *)
(* and stops mattering once the ambiguous ids are dropped.                 *)
KeyIdLoop ==
  /\ \A k \in KeyIds : byKeyId[k] # None =>
       byKeyId[k] \in Indexed(byFingerprint) /\ KeyIdOf[byKeyId[k]] = k
  /\ \A f \in Indexed(byFingerprint) : byKeyId[KeyIdOf[f]] # None
  /\ \A f, g \in Indexed(byFingerprint) :
       f # g /\ KeyIdOf[f] = KeyIdOf[g] => KeyIdOf[f] \in ambiguous
  /\ \A k \in ambiguous : \E f, g \in Indexed(byFingerprint) :
       f # g /\ KeyIdOf[f] = k /\ KeyIdOf[g] = k

KeyIdInv ==
  /\ pc \in {"start", "read", "index"} => KeyIdLoop
  /\ KeyIdsExact

(* One insertion keeps the loop invariant.                                 *)
LEMMA InsertKeepsKeyIds ==
  ASSUME TypeOK, KeyIdLoop, NEW f \in Fingerprints, NEW owner \in Fingerprints,
         Insert(f, owner)
  PROVE  KeyIdLoop'
<1> DEFINE k == KeyIdOf[f]
           I == Indexed(byFingerprint)
<1>1. k \in KeyIds /\ None \notin Fingerprints
  BY CertificatesAssumption
<1>2. Indexed(byFingerprint)' = I \cup {f}
  BY <1>1 DEF Indexed, Insert, TypeOK
<1>3. byKeyId' = [byKeyId EXCEPT ![k] = f]
  BY DEF Insert
<1>4. ambiguous' = IF byKeyId[k] \in {None, f} THEN ambiguous
                                              ELSE ambiguous \cup {k}
  BY DEF Insert
<1>5. I \subseteq Fingerprints
  BY DEF Indexed
<1>6. byKeyId \in [KeyIds -> Fingerprints \cup {None}] /\ ambiguous \in SUBSET KeyIds
  BY DEF TypeOK
<1>7. \A g \in Fingerprints : KeyIdOf[g] \in KeyIds
  BY CertificatesAssumption
<1>8. \A q \in KeyIds : byKeyId'[q] = IF q = k THEN f ELSE byKeyId[q]
  BY <1>3, <1>6
<1>9. /\ \A q \in KeyIds : byKeyId[q] # None =>
           byKeyId[q] \in I /\ KeyIdOf[byKeyId[q]] = q
      /\ \A g \in I : byKeyId[KeyIdOf[g]] # None
      /\ \A g, h \in I : g # h /\ KeyIdOf[g] = KeyIdOf[h] => KeyIdOf[g] \in ambiguous
      /\ \A q \in ambiguous : \E g, h \in I :
           g # h /\ KeyIdOf[g] = q /\ KeyIdOf[h] = q
  BY DEF KeyIdLoop
<1> HIDE DEF I
<1>10. \A q \in KeyIds : byKeyId'[q] # None =>
         byKeyId'[q] \in I \cup {f} /\ KeyIdOf[byKeyId'[q]] = q
  BY <1>8, <1>9
<1>11. \A g \in I \cup {f} : byKeyId'[KeyIdOf[g]] # None
  BY <1>1, <1>5, <1>7, <1>8, <1>9
<1>12. \A g, h \in I \cup {f} :
         g # h /\ KeyIdOf[g] = KeyIdOf[h] => KeyIdOf[g] \in ambiguous'
  <2> SUFFICES ASSUME NEW g \in I, g # f, KeyIdOf[g] = k PROVE k \in ambiguous'
    BY <1>4, <1>9
  <2>1. CASE byKeyId[k] = f
    BY <2>1, <1>1, <1>4, <1>9
  <2>2. CASE byKeyId[k] # f
    BY <2>2, <1>4, <1>9
  <2> QED BY <2>1, <2>2
<1>13. \A q \in ambiguous' : \E g, h \in I \cup {f} :
         g # h /\ KeyIdOf[g] = q /\ KeyIdOf[h] = q
  <2>1. CASE byKeyId[k] \in {None, f}
    BY <2>1, <1>4, <1>9
  <2>2. CASE byKeyId[k] \notin {None, f}
    <3>1. byKeyId[k] \in I /\ byKeyId[k] # f /\ KeyIdOf[byKeyId[k]] = k
      BY <2>2, <1>1, <1>9
    <3> QED BY <3>1, <2>2, <1>4, <1>9
  <2> QED BY <2>1, <2>2
<1> QED BY <1>2, <1>10, <1>11, <1>12, <1>13 DEF KeyIdLoop

(* Dropping the ambiguous key ids leaves exactly the ones that name a key. *)
LEMMA DroppingIsExact ==
  ASSUME TypeOK, KeyIdLoop
  PROVE  [k \in KeyIds |-> IF k \in ambiguous THEN None ELSE byKeyId[k]]
           = KeyIdIndex(byFingerprint)
<1> DEFINE I == Indexed(byFingerprint)
<1> SUFFICES ASSUME NEW k \in KeyIds
             PROVE  (IF k \in ambiguous THEN None ELSE byKeyId[k])
                      = KeyIdIndex(byFingerprint)[k]
  BY DEF KeyIdIndex
<1> DEFINE S == Sharing(byFingerprint, k)
<1>1. KeyIdIndex(byFingerprint)[k] =
        IF \E f \in S : S = {f} THEN CHOOSE f \in S : TRUE ELSE None
  BY DEF KeyIdIndex
<1>2. S = {f \in I : KeyIdOf[f] = k}
  BY DEF Sharing
<1>3. CASE k \in ambiguous
  <2>1. PICK f, g \in I : f # g /\ KeyIdOf[f] = k /\ KeyIdOf[g] = k
    BY <1>3 DEF KeyIdLoop
  <2>2. f \in S /\ g \in S
    BY <2>1, <1>2
  <2> QED BY <1>1, <1>3, <2>1, <2>2
<1>4. CASE k \notin ambiguous /\ byKeyId[k] = None
  <2>1. S = {}
    BY <1>4, <1>2 DEF KeyIdLoop
  <2> QED BY <1>1, <1>4, <2>1
<1>5. CASE k \notin ambiguous /\ byKeyId[k] # None
  <2>1. byKeyId[k] \in S
    BY <1>5, <1>2 DEF KeyIdLoop
  <2>2. S = {byKeyId[k]}
    BY <1>5, <1>2, <2>1 DEF KeyIdLoop
  <2> QED BY <1>1, <1>5, <2>2
<1> QED BY <1>3, <1>4, <1>5

(* Every step keeps the key id invariant; Insert and Finish are the ones   *)
(* that matter.                                                            *)
LEMMA KeyIdNext == TypeOK /\ KeyIdInv /\ [Next]_vars => KeyIdInv'
<1> SUFFICES ASSUME TypeOK, KeyIdInv, [Next]_vars PROVE KeyIdInv'
  OBVIOUS
<1>1. ASSUME UNCHANGED <<byFingerprint, byKeyId, ambiguous>>,
             pc' # "ready" \/ pc' = pc,
             pc' \in {"start", "read", "index"} =>
               pc \in {"start", "read", "index"}
      PROVE  KeyIdInv'
  BY <1>1 DEF KeyIdInv, KeyIdLoop, KeyIdsExact, Indexed, KeyIdIndex, Sharing
<1>2. CASE Start
  BY <1>1, <1>2 DEF Start, Fail, indexer
<1>3. CASE ReadItem
  BY <1>1, <1>3 DEF ReadItem, Fail, indexer
<1>4. CASE NextBlock
  BY <1>1, <1>4 DEF NextBlock, indexer
<1>5. CASE ReadDone
  BY <1>1, <1>5 DEF ReadDone, Fail, indexer
<1>6. CASE IndexSlot
  <2> DEFINE c == certificates[cert]
  <2>1. pc = "index" /\ pc' = "index" /\ KeyIdLoop
    BY <1>6 DEF IndexSlot, KeyIdInv
  <2>2. CASE SlotUsable(c, slot, builtAt)
    <3>1. c \in Certs /\ slot \in Slots(c)
      BY <1>6 DEF IndexSlot, TypeOK
    <3>2. Insert(SlotKey(c, slot), c.fp)
      BY <1>6, <2>2 DEF IndexSlot
    <3>3. KeyIdLoop'
      BY <2>1, <3>1, <3>2, SlotKeyType, InsertKeepsKeyIds
    <3> QED BY <2>1, <3>3 DEF KeyIdInv, KeyIdsExact
  <2>3. CASE ~SlotUsable(c, slot, builtAt)
    BY <1>1, <1>6, <2>3 DEF IndexSlot
  <2> QED BY <2>2, <2>3
<1>7. CASE NextCertificate
  BY <1>1, <1>7 DEF NextCertificate
<1>8. CASE Finish
  <2>1. KeyIdLoop /\ pc' \in {"failed", "ready"}
    BY <1>8 DEF Finish, Fail, KeyIdInv
  <2>2. byKeyId' = KeyIdIndex(byFingerprint) /\ byFingerprint' = byFingerprint
    BY <1>8, <2>1, DroppingIsExact DEF Finish
  <2>3. KeyIdIndex(byFingerprint)' = KeyIdIndex(byFingerprint)
    BY <2>2 DEF KeyIdIndex, Sharing, Indexed
  <2> QED BY <2>1, <2>2, <2>3 DEF KeyIdInv, KeyIdsExact
<1>9. CASE UNCHANGED vars
  BY <1>1, <1>9 DEF vars, indexer
<1> QED
  BY <1>2, <1>3, <1>4, <1>5, <1>6, <1>7, <1>8, <1>9 DEF Next, Terminated

(* A key id resolves exactly when one indexed key has it, in whatever      *)
(* order the keys of the allowlist came (allowlist.rs:170-174).            *)
THEOREM KeyIdsAlwaysExact == Spec => []KeyIdsExact
<1>1. Init => KeyIdInv
  BY DEF Init, KeyIdInv, KeyIdLoop, KeyIdsExact, Indexed
<1>2. KeyIdInv => KeyIdsExact
  BY DEF KeyIdInv
<1> QED BY <1>1, <1>2, KeyIdNext, TypeCorrect, PTL DEF Spec

-----------------------------------------------------------------------------
(* Signers.  A key the loop has passed, at a slot where it is usable.      *)
Passed(i, s) == i < cert \/ (i = cert /\ s < slot)

HeldBy(f, i) ==
  \E s \in Slots(certificates[i]) :
    /\ Passed(i, s)
    /\ SlotUsable(certificates[i], s, builtAt)
    /\ SlotKey(certificates[i], s) = f

(* The index holds exactly the usable keys passed so far, each attributed  *)
(* to the last certificate among those passed that carries it.             *)
SignerLoop ==
  \A f \in Fingerprints :
    \/ /\ byFingerprint[f] = None
       /\ \A i \in DOMAIN certificates : ~HeldBy(f, i)
    \/ \E i \in DOMAIN certificates :
         /\ HeldBy(f, i)
         /\ \A j \in DOMAIN certificates : HeldBy(f, j) => j <= i
         /\ byFingerprint[f] = certificates[i].fp

SignerInv ==
  /\ pc \in {"start", "read"} =>
       cert = 1 /\ slot = 0 /\ byFingerprint = [f \in Fingerprints |-> None]
  /\ pc = "index" => SignerLoop
  /\ SignersExact

(* Visiting a slot, usable or not, keeps the fingerprint map right for the *)
(* slots visited so far.                                                   *)
LEMMA IndexSlotKeepsSigners ==
  ASSUME TypeOK, SignerLoop, IndexSlot
  PROVE  SignerLoop'
<1> DEFINE c == certificates[cert]
           g == SlotKey(c, slot)
<1>1. /\ certificates' = certificates /\ builtAt' = builtAt /\ cert' = cert
      /\ cert \in DOMAIN certificates /\ slot \in Slots(c) /\ slot' = slot + 1
  BY DEF IndexSlot, reader, input, TypeOK
<1>2. c \in Certs /\ g \in Fingerprints /\ c.fp \in Fingerprints
  BY <1>1, SlotKeyType DEF TypeOK
<1>3. \A i \in DOMAIN certificates : \A s \in Slots(certificates[i]) :
        Passed(i, s)' <=> Passed(i, s) \/ (i = cert /\ s = slot)
  <2> SUFFICES ASSUME NEW i \in DOMAIN certificates,
                      NEW s \in Slots(certificates[i])
               PROVE  Passed(i, s)' <=> Passed(i, s) \/ (i = cert /\ s = slot)
    OBVIOUS
  <2>1. certificates[i] \in Certs
    BY DEF TypeOK
  <2>2. s \in Nat /\ slot \in Nat /\ cert \in Nat /\ i \in Nat
    BY <2>1, SlotKeyType DEF TypeOK
  <2> QED BY <1>1, <2>2 DEF Passed
<1>4. \A f \in Fingerprints, i \in DOMAIN certificates :
        HeldBy(f, i)' <=> \/ HeldBy(f, i)
                          \/ i = cert /\ SlotUsable(c, slot, builtAt) /\ f = g
  BY <1>1, <1>3 DEF HeldBy
<1>5. CASE SlotUsable(c, slot, builtAt)
  <2>1. byFingerprint' = [byFingerprint EXCEPT ![g] = c.fp]
    BY <1>5 DEF IndexSlot, Insert
  <2>2. \A f \in Fingerprints :
          byFingerprint'[f] = IF f = g THEN c.fp ELSE byFingerprint[f]
    BY <2>1 DEF TypeOK
  <2> HIDE DEF g, c
  <2>3. ASSUME NEW f \in Fingerprints, NEW j \in DOMAIN certificates, HeldBy(f, j)'
        PROVE  j <= cert
    <3>1. cert \in Nat /\ j \in Nat
      BY DEF TypeOK
    <3>2. HeldBy(f, j) => \E s : Passed(j, s)
      BY DEF HeldBy
    <3>3. (\E s : Passed(j, s)) => j <= cert
      BY <3>1 DEF Passed
    <3> QED BY <1>4, <2>3, <3>1, <3>2, <3>3
  <2> SUFFICES ASSUME NEW f \in Fingerprints
               PROVE  \/ /\ byFingerprint'[f] = None
                         /\ \A i \in DOMAIN certificates : ~HeldBy(f, i)'
                      \/ \E i \in DOMAIN certificates :
                           /\ HeldBy(f, i)'
                           /\ \A j \in DOMAIN certificates : HeldBy(f, j)' => j <= i
                           /\ byFingerprint'[f] = certificates[i].fp
    BY <1>1 DEF SignerLoop
  <2>4. CASE f = g
    <3>1. HeldBy(f, cert)'
      BY <1>1, <1>4, <1>5, <2>4
    <3>2. byFingerprint'[f] = certificates[cert].fp
      BY <2>2, <2>4 DEF c
    <3> QED BY <1>1, <2>3, <3>1, <3>2
  <2>5. CASE f # g
    <3>1. \A i \in DOMAIN certificates : HeldBy(f, i)' <=> HeldBy(f, i)
      BY <1>4, <2>5
    <3>2. byFingerprint'[f] = byFingerprint[f]
      BY <2>2, <2>5
    <3> QED BY <3>1, <3>2 DEF SignerLoop
  <2> QED BY <2>4, <2>5
<1>6. CASE ~SlotUsable(c, slot, builtAt)
  <2>1. byFingerprint' = byFingerprint
    BY <1>6 DEF IndexSlot
  <2>2. \A f \in Fingerprints, i \in DOMAIN certificates :
          HeldBy(f, i)' <=> HeldBy(f, i)
    BY <1>4, <1>6
  <2> HIDE DEF c, g
  <2> QED BY <1>1, <2>1, <2>2 DEF SignerLoop
<1> QED BY <1>5, <1>6

(* Going to the next certificate visits no slot.                           *)
LEMMA NextCertificateKeepsSigners ==
  ASSUME TypeOK, SignerLoop, NextCertificate
  PROVE  SignerLoop'
<1>1. /\ certificates' = certificates /\ builtAt' = builtAt
      /\ byFingerprint' = byFingerprint /\ cert' = cert + 1 /\ slot' = 0
      /\ cert \in DOMAIN certificates /\ slot \notin Slots(certificates[cert])
  BY DEF NextCertificate, reader, input, TypeOK
<1>2. ASSUME NEW i \in DOMAIN certificates, NEW s \in Slots(certificates[i])
      PROVE  Passed(i, s)' <=> Passed(i, s)
  <2>1. certificates[i] \in Certs
    BY DEF TypeOK
  <2>2. Slots(certificates[i]) = 0..Len(certificates[i].subkeys)
    BY DEF Slots
  <2>3. Len(certificates[i].subkeys) \in Nat
    <3>1. certificates[i].subkeys \in Seq(SubkeyType)
      BY <2>1, CertificatesAssumption DEF CertificateType
    <3> QED BY <3>1
  <2>4. i = cert => s < slot
    BY <1>1, <2>2, <2>3 DEF TypeOK
  <2> QED BY <1>1, <2>2, <2>3, <2>4 DEF Passed, TypeOK
<1>3. \A f \in Fingerprints, i \in DOMAIN certificates :
        HeldBy(f, i)' <=> HeldBy(f, i)
  BY <1>1, <1>2 DEF HeldBy
<1> QED BY <1>1, <1>3 DEF SignerLoop

(* Past the last certificate every slot has been passed.                   *)
LEMMA SignersAtTheEnd ==
  ASSUME TypeOK, SignerLoop, cert > Len(certificates)
  PROVE  byFingerprint = SignerIndex(certificates, builtAt)
<1>1. \A i \in DOMAIN certificates : \A s : Passed(i, s)
  BY DEF Passed, TypeOK
<1>2. \A f \in Fingerprints, i \in DOMAIN certificates :
        HeldBy(f, i) <=> i \in Holders(certificates, builtAt, f)
  BY <1>1 DEF HeldBy, Holders, UsableKeys
<1> SUFFICES ASSUME NEW f \in Fingerprints
             PROVE  byFingerprint[f] = SignerIndex(certificates, builtAt)[f]
  BY DEF SignerIndex, TypeOK
<1> DEFINE H == Holders(certificates, builtAt, f)
<1>3. H \subseteq DOMAIN certificates /\ H \subseteq Nat
  BY DEF Holders, TypeOK
<1>4. SignerIndex(certificates, builtAt)[f] =
        IF H = {} THEN None
        ELSE certificates[CHOOSE i \in H : \A j \in H : j <= i].fp
  BY DEF SignerIndex
<1>5. CASE byFingerprint[f] = None /\ \A i \in DOMAIN certificates : ~HeldBy(f, i)
  BY <1>2, <1>3, <1>4, <1>5
<1>6. CASE \E i \in DOMAIN certificates :
             /\ HeldBy(f, i)
             /\ \A j \in DOMAIN certificates : HeldBy(f, j) => j <= i
             /\ byFingerprint[f] = certificates[i].fp
  <2>1. PICK i \in H : (\A j \in H : j <= i) /\ byFingerprint[f] = certificates[i].fp
    BY <1>2, <1>3, <1>6
  <2> HIDE DEF H
  <2>2. (CHOOSE k \in H : \A j \in H : j <= k) = i
    <3>1. ASSUME NEW k \in H, \A j \in H : j <= k PROVE k = i
      BY <1>3, <2>1, <3>1
    <3> QED BY <2>1, <3>1
  <2> QED BY <1>4, <2>1, <2>2
<1> QED BY <1>5, <1>6 DEF SignerLoop

(* Every step keeps the signer invariant.                                  *)
LEMMA SignerNext == TypeOK /\ SignerInv /\ [Next]_vars => SignerInv'
<1> SUFFICES ASSUME TypeOK, SignerInv, [Next]_vars PROVE SignerInv'
  OBVIOUS
<1>1. CASE Start \/ NextBlock
  BY <1>1, AllowlistAssumption
  DEF Start, NextBlock, Fail, input, reader, indexer, SignerInv, SignersExact, TypeOK,
      Errors
<1>2. CASE ReadItem
  BY <1>2, AllowlistAssumption
  DEF ReadItem, Fail, input, indexer, SignerInv, SignersExact, TypeOK, Errors
<1>3. CASE ReadDone
  <2>1. CASE pc' = "index"
    <3>1. /\ certificates' = certificates /\ builtAt' = builtAt /\ cert' = 1
          /\ slot' = 0 /\ byFingerprint' = [f \in Fingerprints |-> None]
      BY <1>3 DEF ReadDone, input, reader, indexer, SignerInv
    <3>2. ASSUME NEW i \in DOMAIN certificates, NEW s \in Slots(certificates[i])
          PROVE  ~Passed(i, s)'
      <4>1. certificates[i] \in Certs
        BY DEF TypeOK
      <4>2. s \in Nat
        BY <4>1, SlotKeyType
      <4> QED BY <3>1, <4>2 DEF Passed, TypeOK
    <3>3. SignerLoop'
      BY <3>1, <3>2 DEF SignerLoop, HeldBy
    <3> QED BY <1>3, <2>1, <3>3, AllowlistAssumption
            DEF ReadDone, Fail, SignerInv, SignersExact, TypeOK, Errors
  <2>2. CASE pc' # "index"
    BY <1>3, <2>2 DEF ReadDone, Fail, SignerInv, SignersExact
  <2> QED BY <2>1, <2>2
<1>4. CASE IndexSlot
  <2>1. SignerLoop' /\ pc' = "index" /\ error' = error
    BY <1>4, IndexSlotKeepsSigners DEF IndexSlot, SignerInv
  <2> QED BY <1>4, <2>1, AllowlistAssumption
          DEF IndexSlot, SignerInv, SignersExact, TypeOK, Errors
<1>5. CASE NextCertificate
  <2>1. SignerLoop' /\ pc' = "index" /\ error' = error
    BY <1>5, NextCertificateKeepsSigners DEF NextCertificate, SignerInv
  <2> QED BY <1>5, <2>1, AllowlistAssumption
          DEF NextCertificate, SignerInv, SignersExact, TypeOK, Errors
<1>6. CASE Finish
  <2>1. byFingerprint = SignerIndex(certificates, builtAt)
    BY <1>6, SignersAtTheEnd DEF Finish, SignerInv, TypeOK
  <2>2. /\ byFingerprint' = byFingerprint /\ certificates' = certificates
        /\ builtAt' = builtAt /\ pc' \in {"failed", "ready"}
    BY <1>6 DEF Finish, Fail, input, reader
  <2>3. byFingerprint' = SignerIndex(certificates', builtAt')
    BY <2>1, <2>2
  <2> QED BY <2>2, <2>3 DEF SignerInv, SignersExact
<1>7. CASE UNCHANGED vars
  BY <1>7 DEF vars, input, reader, indexer, SignerInv, SignersExact,
              SignerLoop, HeldBy, Passed
<1> QED
  BY <1>1, <1>2, <1>3, <1>4, <1>5, <1>6, <1>7 DEF Next, Terminated

(* The index a build leaves is the one its certificates stand for, for     *)
(* every allowlist file and build time (allowlist.rs:144-168).             *)
THEOREM SignersAlwaysExact == Spec => []SignersExact
<1>1. Init => SignerInv
  BY AllowlistAssumption DEF Init, SignerInv, SignersExact, Errors
<1>2. SignerInv => SignersExact
  BY DEF SignerInv
<1> QED BY <1>1, <1>2, SignerNext, TypeCorrect, PTL DEF Spec

-----------------------------------------------------------------------------
(* First copies.  What reading keeps of the part of the file before the    *)
(* place it has come to.                                                   *)
Here == <<block, item>>

KeptFor(p) == \E i \in DOMAIN certificates : certificates[i].fp = At(p).fp

FirstCopyAt(p) == \A q \in Positions : Before(q, p) => At(q).fp # At(p).fp

ReadLoop ==
  /\ \A p \in Positions : Before(p, Here) => KeptFor(p)
  /\ \A i, j \in DOMAIN certificates :
       certificates[i].fp = certificates[j].fp => i = j
  /\ \A i \in DOMAIN certificates : \E p \in Positions :
       Before(p, Here) /\ At(p) = certificates[i] /\ FirstCopyAt(p)

ReadInv ==
  /\ pc = "start" => block = 1 /\ item = 1 /\ certificates = <<>>
  /\ pc = "read" => ReadLoop
  /\ FirstCopyKept

(* A position is a block and an item in it.                                *)
LEMMA PositionType ==
  ASSUME TypeOK
  PROVE  /\ \A p \in Positions :
              /\ p[1] \in 1..Len(blocks) /\ p[2] \in 1..Len(blocks[p[1]])
              /\ p = <<p[1], p[2]>>
         /\ \A b \in 1..Len(blocks) : \A i \in 1..Len(blocks[b]) :
              <<b, i>> \in Positions
         /\ \A b \in 1..Len(blocks) : blocks[b] \in Seq(Certs \cup {Unreadable})
         /\ Len(blocks) \in Nat
<1>1. blocks \in Seq(Seq(Certs \cup {Unreadable}))
  BY AllowlistAssumption DEF TypeOK
<1>2. DOMAIN blocks = 1..Len(blocks) /\ Len(blocks) \in Nat
  BY <1>1
<1>3. \A b \in 1..Len(blocks) : /\ blocks[b] \in Seq(Certs \cup {Unreadable})
                               /\ DOMAIN blocks[b] = 1..Len(blocks[b])
  BY <1>1
<1>4. ASSUME NEW p \in Positions
      PROVE  /\ p[1] \in 1..Len(blocks) /\ p[2] \in 1..Len(blocks[p[1]])
             /\ p = <<p[1], p[2]>>
  BY <1>2, <1>3 DEF Positions
<1>5. ASSUME NEW b \in 1..Len(blocks), NEW i \in 1..Len(blocks[b])
      PROVE  <<b, i>> \in Positions
  <2>1. b \in DOMAIN blocks /\ i \in DOMAIN blocks[b]
    BY <1>2, <1>3
  <2> QED BY <2>1 DEF Positions
<1> QED BY <1>2, <1>3, <1>4, <1>5

(* Reading an item keeps the first copies: a new fingerprint is appended,  *)
(* a copy is left out.                                                     *)
LEMMA ReadItemKeepsFirstCopies ==
  ASSUME TypeOK, ReadLoop, ReadItem, pc' = "read"
  PROVE  ReadLoop'
<1> DEFINE c == blocks[block][item]
<1>1. /\ block \in 1..Len(blocks) /\ item \in 1..Len(blocks[block])
      /\ blocks' = blocks /\ block' = block /\ item' = item + 1
      /\ certificates' = IF Seen(c.fp) THEN certificates ELSE Append(certificates, c)
  BY PositionType DEF ReadItem, Fail, TypeOK, input
<1>2. Here \in Positions /\ At(Here) = c
  BY <1>1, PositionType DEF Here, At
<1>3. \A p \in Positions : Before(p, Here)' <=> Before(p, Here) \/ p = Here
  <2> SUFFICES ASSUME NEW p \in Positions
               PROVE  Before(p, Here)' <=> Before(p, Here) \/ p = Here
    OBVIOUS
  <2>1. p[1] \in Nat /\ p[2] \in Nat /\ p = <<p[1], p[2]>>
    BY PositionType
  <2> QED BY <1>1, <2>1 DEF Before, Here, TypeOK
<1>4. Positions' = Positions /\ \A p : At(p)' = At(p)
  BY <1>1 DEF Positions, At
<1>5. \A p : FirstCopyAt(p)' <=> FirstCopyAt(p)
  BY <1>4 DEF FirstCopyAt, Before
<1> HIDE DEF c
<1>6. CASE Seen(c.fp)
  <2>1. KeptFor(Here)
    BY <1>2, <1>6 DEF Seen, KeptFor
  <2>2. certificates' = certificates
    BY <1>1, <1>6
  <2>3. \A p \in Positions : KeptFor(p)' <=> KeptFor(p)
    BY <1>4, <2>2 DEF KeptFor
  <2> QED BY <1>3, <1>4, <1>5, <2>1, <2>2, <2>3 DEF ReadLoop
<1>7. CASE ~Seen(c.fp)
  <2> DEFINE n == Len(certificates)
  <2>1. /\ certificates' = Append(certificates, c) /\ n \in Nat
        /\ DOMAIN certificates = 1..n
    BY <1>1, <1>7 DEF TypeOK
  <2>2. /\ DOMAIN certificates' = 1..n + 1
        /\ \A i \in 1..n : certificates'[i] = certificates[i]
        /\ certificates'[n + 1] = c
    BY <2>1 DEF TypeOK
  <2>3. \A i \in 1..n : certificates[i].fp # c.fp
    BY <1>7, <2>1 DEF Seen
  <2> HIDE DEF n
  <2>4. ASSUME NEW p \in Positions, Before(p, Here)' PROVE KeptFor(p)'
    <3>1. CASE p = Here
      BY <1>2, <1>4, <2>1, <2>2, <3>1 DEF KeptFor
    <3>2. CASE p # Here
      <4>1. PICK i \in 1..n : certificates[i].fp = At(p).fp
        BY <1>3, <2>1, <2>4, <3>2 DEF ReadLoop, KeptFor
      <4> QED BY <1>4, <2>1, <2>2, <4>1 DEF KeptFor
    <3> QED BY <3>1, <3>2
  <2>5. \A i, j \in 1..n + 1 : certificates'[i].fp = certificates'[j].fp => i = j
    <3> SUFFICES ASSUME NEW i \in 1..n + 1, NEW j \in 1..n + 1,
                        certificates'[i].fp = certificates'[j].fp
                 PROVE  i = j
      OBVIOUS
    <3>1. CASE i \in 1..n /\ j \in 1..n
      BY <2>1, <2>2, <3>1 DEF ReadLoop
    <3>2. CASE i = n + 1 \/ j = n + 1
      BY <2>1, <2>2, <2>3, <3>2
    <3> QED BY <2>1, <3>1, <3>2
  <2>6. FirstCopyAt(Here)
    <3> SUFFICES ASSUME NEW q \in Positions, Before(q, Here)
                 PROVE  At(q).fp # c.fp
      BY <1>2 DEF FirstCopyAt
    <3> QED BY <2>1, <2>3 DEF ReadLoop, KeptFor
  <2>7. ASSUME NEW i \in 1..n + 1
        PROVE  \E p \in Positions :
                 Before(p, Here)' /\ At(p) = certificates'[i] /\ FirstCopyAt(p)
    <3>1. CASE i = n + 1
      BY <1>2, <1>3, <2>2, <2>6, <3>1
    <3>2. CASE i # n + 1
      <4>1. i \in 1..n
        BY <2>1, <3>2
      <4> QED BY <1>3, <2>1, <2>2, <4>1 DEF ReadLoop
    <3> QED BY <3>1, <3>2
  <2> QED BY <1>4, <1>5, <2>2, <2>4, <2>5, <2>7 DEF ReadLoop
<1> QED BY <1>6, <1>7

(* Going to the next block reads no item.                                  *)
LEMMA NextBlockKeepsFirstCopies ==
  ASSUME TypeOK, ReadLoop, NextBlock
  PROVE  ReadLoop'
<1>1. /\ block \in 1..Len(blocks) /\ item > Len(blocks[block])
      /\ Len(blocks[block]) \in Nat /\ item \in Nat
      /\ blocks' = blocks /\ certificates' = certificates
      /\ block' = block + 1 /\ item' = 1
  BY PositionType DEF NextBlock, TypeOK, input
<1>2. \A p \in Positions : Before(p, Here)' <=> Before(p, Here)
  <2> SUFFICES ASSUME NEW p \in Positions PROVE Before(p, Here)' <=> Before(p, Here)
    OBVIOUS
  <2>1. p[1] \in Nat /\ p[2] \in 1..Len(blocks[p[1]])
    BY PositionType
  <2>2. CASE p[1] = block
    BY <1>1, <2>1, <2>2 DEF Before, Here
  <2>3. CASE p[1] # block
    BY <1>1, <2>1, <2>3 DEF Before, Here
  <2> QED BY <2>2, <2>3
<1>3. Positions' = Positions /\ \A p : At(p)' = At(p)
  BY <1>1 DEF Positions, At
<1>4. \A p : (FirstCopyAt(p)' <=> FirstCopyAt(p)) /\ (KeptFor(p)' <=> KeptFor(p))
  BY <1>1, <1>3 DEF FirstCopyAt, Before, KeptFor
<1> QED BY <1>1, <1>2, <1>3, <1>4 DEF ReadLoop

(* Every step keeps the reader's invariant.                                *)
LEMMA ReadNext == TypeOK /\ ReadInv /\ [Next]_vars => ReadInv'
<1> SUFFICES ASSUME TypeOK, ReadInv, [Next]_vars PROVE ReadInv'
  OBVIOUS
<1> DEFINE Unread == <<blocks, certificates, block, item>>
<1>1. ASSUME UNCHANGED Unread,
             pc' = pc \/ (pc = "index" /\ pc' = "ready")
                     \/ (pc # "start" /\ pc' = "failed")
      PROVE  ReadInv'
  BY <1>1 DEF ReadInv, ReadLoop, Here, KeptFor, FirstCopyAt, FirstCopyKept,
              Positions, At, Before
<1>2. CASE Start
  <2>1. ASSUME pc' = "read" PROVE ReadLoop'
    <3>1. certificates' = <<>> /\ block' = 1 /\ item' = 1 /\ blocks' = blocks
      BY <1>2 DEF Start, ReadInv, input, reader
    <3>2. ASSUME NEW p \in Positions PROVE ~Before(p, Here)'
      <4>1. p[1] \in 1..Len(blocks) /\ p[2] \in 1..Len(blocks[p[1]])
        BY PositionType
      <4>2. p[1] \in Nat \ {0} /\ p[2] \in Nat \ {0}
        BY <4>1, PositionType
      <4> QED BY <3>1, <4>2 DEF Before, Here
    <3>3. Positions' = Positions
      BY <3>1 DEF Positions
    <3> QED BY <3>1, <3>2, <3>3 DEF ReadLoop
  <2> QED BY <1>2, <2>1 DEF Start, Fail, ReadInv, FirstCopyKept
<1>3. CASE ReadItem
  <2>1. CASE pc' = "read"
    <3>1. ReadLoop'
      BY <1>3, <2>1, ReadItemKeepsFirstCopies DEF ReadItem, ReadInv
    <3> QED BY <2>1, <3>1 DEF ReadInv, FirstCopyKept
  <2>2. CASE pc' # "read"
    BY <1>3, <2>2 DEF ReadItem, Fail, ReadInv, FirstCopyKept
  <2> QED BY <2>1, <2>2
<1>4. CASE NextBlock
  <2>1. ReadLoop' /\ pc' = "read"
    BY <1>4, NextBlockKeepsFirstCopies DEF NextBlock, ReadInv
  <2> QED BY <2>1 DEF ReadInv, FirstCopyKept
<1>5. CASE ReadDone
  <2>1. ReadLoop /\ pc' \in {"failed", "index"} /\ UNCHANGED Unread
    BY <1>5 DEF ReadDone, Fail, ReadInv, input, reader
  <2>2. ASSUME NEW p \in Positions PROVE Before(p, Here)
    <3>1. p[1] \in 1..Len(blocks)
      BY PositionType
    <3> QED BY <1>5, <3>1, PositionType DEF ReadDone, Before, Here, TypeOK
  <2>3. /\ \A p \in Positions : KeptFor(p)
        /\ \A i, j \in DOMAIN certificates :
             certificates[i].fp = certificates[j].fp => i = j
        /\ \A i \in DOMAIN certificates : \E p \in Positions :
             At(p) = certificates[i] /\ FirstCopyAt(p)
    BY <2>1, <2>2 DEF ReadLoop
  <2>4. FirstCopyKept'
    BY <2>1, <2>3 DEF FirstCopyKept, KeptFor, FirstCopyAt, Positions, At, Before
  <2> QED BY <2>1, <2>4 DEF ReadInv
<1>6. CASE IndexSlot \/ NextCertificate \/ Finish
  BY <1>1, <1>6 DEF IndexSlot, NextCertificate, Finish, Fail, input, reader
<1>7. CASE UNCHANGED vars
  BY <1>1, <1>7 DEF vars, input, reader
<1> QED
  BY <1>2, <1>3, <1>4, <1>5, <1>6, <1>7 DEF Next, Terminated

(* However the copies of the certificates are spread over the blocks, the  *)
(* first of each fingerprint is the one kept (allowlist.rs:237-260).       *)
THEOREM FirstCopyAlwaysKept == Spec => []FirstCopyKept
<1>1. Init => ReadInv
  BY DEF Init, ReadInv, FirstCopyKept
<1>2. ReadInv => FirstCopyKept
  BY DEF ReadInv
<1> QED BY <1>1, <1>2, ReadNext, TypeCorrect, PTL DEF Spec

-----------------------------------------------------------------------------
(* Keys over time.  Of the signatures at some places one is the newest:    *)
(* were there a first number of signatures without, the one before it or   *)
(* the last of them would be it.                                           *)
NotOlder(sigs, i, j) ==
  \/ sigs[j].created < sigs[i].created
  \/ sigs[j].created = sigs[i].created /\ j <= i

LEMMA NewestExists ==
  ASSUME NEW sigs, NEW n \in Nat, NEW I \in SUBSET (1..n), I # {},
         \A i \in 1..n : sigs[i].created \in Nat
  PROVE  /\ \E i \in I : \A j \in I : NotOlder(sigs, i, j)
         /\ \E i \in I : Newest(sigs, I) = sigs[i]
<1> DEFINE Upto(m) == I \cap (1..m)
           HasNewest(m) == \E i \in Upto(m) : \A j \in Upto(m) : NotOlder(sigs, i, j)
           Without == {m \in 0..n : Upto(m) # {} /\ ~HasNewest(m)}
<1>1. ASSUME Without # {} PROVE FALSE
  <2>1. PICK m \in Without : \A k \in Without : m <= k
    <3>1. Without \in SUBSET Nat
      OBVIOUS
    <3>. HIDE DEF Without
    <3>. QED  BY <1>1, <3>1, LeastExists
  <2>2. m \in 1..n /\ m - 1 \in 0..n /\ m - 1 \notin Without
    <3>1. m \in 0..n /\ Upto(m) # {}
      BY <2>1
    <3>2. m # 0
      BY <3>1
    <3>3. m \in 1..n /\ m - 1 \in 0..n /\ ~(m <= m - 1)
      BY <3>1, <3>2
    <3>. HIDE DEF Without
    <3>. QED  BY <2>1, <3>3
  <2>3. Upto(m) = Upto(m - 1) \cup (I \cap {m})
    BY <2>2
  <2>4. m \in I
    BY <2>1, <2>2, <2>3
  <2>5. CASE Upto(m - 1) = {}
    <3>1. NotOlder(sigs, m, m)
      BY <2>2 DEF NotOlder
    <3>. QED  BY <2>1, <2>3, <2>4, <2>5, <3>1
  <2>6. CASE Upto(m - 1) # {}
    <3>1. PICK i \in Upto(m - 1) : \A j \in Upto(m - 1) : NotOlder(sigs, i, j)
      BY <2>2, <2>6
    <3>2. CASE NotOlder(sigs, i, m)
      <4>1. \A j \in Upto(m) : NotOlder(sigs, i, j)
        BY <2>3, <3>1, <3>2
      <4>. QED  BY <2>1, <2>3, <3>1, <4>1
    <3>3. CASE ~NotOlder(sigs, i, m)
      <4>1. ASSUME NEW j \in Upto(m) PROVE NotOlder(sigs, m, j)
        <5>1. NotOlder(sigs, i, j) \/ j = m
          BY <2>3, <3>1
        <5>. QED  BY <2>2, <3>1, <3>3, <5>1 DEF NotOlder
      <4>. QED  BY <2>1, <2>3, <2>4, <4>1
    <3>. QED  BY <3>2, <3>3
  <2>. QED  BY <2>5, <2>6
<1>2. \E i \in I : \A j \in I : NotOlder(sigs, i, j)
  <2>1. Upto(n) = I /\ n \in 0..n
    OBVIOUS
  <2>. QED  BY <1>1, <2>1
<1>3. Newest(sigs, I) = sigs[CHOOSE i \in I : \A j \in I : NotOlder(sigs, i, j)]
  BY DEF Newest, NotOlder
<1>. QED  BY <1>2, <1>3

(* The signatures of certificates and of subkeys, one by one.              *)
LEMMA SignatureFields ==
  /\ \A sigs \in Seq(SelfSignatureType) :
       /\ Len(sigs) \in Nat /\ DOMAIN sigs = 1..Len(sigs)
       /\ \A j \in 1..Len(sigs) : sigs[j].created \in Nat /\ sigs[j].expires \in Nat
  /\ \A sigs \in Seq(SubkeySignatureType) :
       /\ Len(sigs) \in Nat /\ DOMAIN sigs = 1..Len(sigs)
       /\ \A j \in 1..Len(sigs) : sigs[j].created \in Nat /\ sigs[j].expires \in Nat
<1>1. ASSUME NEW sigs \in Seq(SelfSignatureType), NEW j \in 1..Len(sigs)
      PROVE  sigs[j].created \in Nat /\ sigs[j].expires \in Nat
  <2>1. sigs[j] \in SelfSignatureType
    OBVIOUS
  <2>. QED  BY <2>1 DEF SelfSignatureType
<1>2. ASSUME NEW sigs \in Seq(SubkeySignatureType), NEW j \in 1..Len(sigs)
      PROVE  sigs[j].created \in Nat /\ sigs[j].expires \in Nat
  <2>1. sigs[j] \in SubkeySignatureType
    OBVIOUS
  <2>. QED  BY <2>1 DEF SubkeySignatureType
<1>. QED  BY <1>1, <1>2

(* What has expired stays so.                                              *)
LEMMA ExpiredForGood ==
  ASSUME NEW created \in Nat, NEW sig, sig.expires \in Nat,
         NEW now \in Nat, NEW t \in Nat, now <= t, ExpiredAt(created, sig, now)
  PROVE  ExpiredAt(created, sig, t)
BY DEF ExpiredAt

(* A key that can verify later can verify now: whatever else decides it    *)
(* does not look at the time.                                              *)
LEMMA UsableBefore ==
  ASSUME NEW c \in Certs, NEW now \in Nat, NEW t \in Nat, now <= t,
         NEW i \in Slots(c), SlotUsable(c, i, t)
  PROVE  SlotUsable(c, i, now)
<1>1. /\ c \in CertificateType /\ c.created \in Nat
      /\ c.selfSigs \in Seq(SelfSignatureType) /\ c.subkeys \in Seq(SubkeyType)
  BY CertificatesAssumption DEF CertificateType
<1>2. Sound(c, now)
  <2>1. Sound(c, t)
    BY DEF SlotUsable
  <2>2. /\ SelfSignatures(c) \in SUBSET (1..Len(c.selfSigs)) /\ SelfSignatures(c) # {}
        /\ Len(c.selfSigs) \in Nat
        /\ \A j \in 1..Len(c.selfSigs) :
             c.selfSigs[j].created \in Nat /\ c.selfSigs[j].expires \in Nat
    BY <1>1, <2>1, SignatureFields DEF Sound, SelfSignatures
  <2>3. NewestSelfSignature(c).expires \in Nat
    BY <2>2, NewestExists DEF NewestSelfSignature
  <2>. QED  BY <1>1, <2>1, <2>3, ExpiredForGood DEF Sound
<1>3. ASSUME i # 0 PROVE SubkeyUsable(c.subkeys[i], now)
  <2> DEFINE s == c.subkeys[i]
  <2>1. /\ s \in SubkeyType /\ s.created \in Nat /\ s.sigs \in Seq(SubkeySignatureType)
    <3>1. i \in 1..Len(c.subkeys)
      BY <1>1, <1>3 DEF Slots
    <3>2. c.subkeys[i] \in SubkeyType
      BY <1>1, <3>1
    <3>. QED  BY <3>2 DEF SubkeyType
  <2>2. IsSigningSubkey(s) /\ SubkeyUsable(s, t)
    BY <1>3 DEF SlotUsable
  <2> HIDE DEF s
  <2>3. /\ Bindings(s) \in SUBSET (1..Len(s.sigs)) /\ Bindings(s) # {}
        /\ Len(s.sigs) \in Nat
        /\ \A j \in 1..Len(s.sigs) :
             s.sigs[j].created \in Nat /\ s.sigs[j].expires \in Nat
    BY <2>1, <2>2, SignatureFields DEF IsSigningSubkey, Bindings
  <2>4. NewestBinding(s).expires \in Nat
    BY <2>3, NewestExists DEF NewestBinding
  <2>5. SubkeyUsable(s, now)
    BY <2>1, <2>2, <2>4, ExpiredForGood DEF SubkeyUsable
  <2>. QED  BY <2>5 DEF s
<1>. QED  BY <1>2, <1>3 DEF SlotUsable

(* A certificate without a defect has a key that can verify.               *)
LEMMA CleanHasKey ==
  ASSUME NEW c, NEW t, Defects(c, t) = {}
  PROVE  UsableKeys(c, t) # {}
BY DEF Defects

(* "An empty list means every embedded certificate holds a key that can    *)
(* verify" (allowlist.rs:206): the two classifications, at start-up and at *)
(* the time of the check, agree for every certificate and every clock.     *)
THEOREM CleanCheckAlwaysMeansFound == Spec => []CleanCheckMeansFound
<1>1. TypeOK /\ SignersExact => CleanCheckMeansFound
  <2>. SUFFICES ASSUME TypeOK, SignersExact, pc = "ready",
                       NEW i \in DOMAIN certificates, NEW t \in BuildTimes,
                       t >= builtAt, Defects(certificates[i], t) = {}
                PROVE  \E f \in Fingerprints :
                         /\ f \in UsableKeys(certificates[i], t)
                         /\ Lookup(byFingerprint, byKeyId, f, None) = f
    BY DEF CleanCheckMeansFound
  <2>1. /\ certificates[i] \in Certs /\ builtAt \in Nat /\ t \in Nat
    BY AllowlistAssumption DEF TypeOK
  <2>2. PICK j \in Slots(certificates[i]) : SlotUsable(certificates[i], j, t)
    BY CleanHasKey DEF UsableKeys
  <2> DEFINE f == SlotKey(certificates[i], j)
             H == Holders(certificates, builtAt, f)
  <2>3. f \in Fingerprints /\ f \in UsableKeys(certificates[i], t)
    BY <2>1, <2>2, SlotKeyType DEF UsableKeys
  <2>4. i \in H /\ H \in SUBSET (0..Len(certificates))
    BY <2>1, <2>2, UsableBefore DEF TypeOK, Holders, UsableKeys
  <2>5. byFingerprint[f] # None
    <3>1. byFingerprint[f] =
            IF H = {} THEN None
            ELSE certificates[CHOOSE k \in H : \A l \in H : l <= k].fp
      BY <2>3 DEF SignersExact, SignerIndex
    <3>2. H \subseteq DOMAIN certificates /\ Len(certificates) \in Nat
      BY DEF Holders, TypeOK
    <3>3. \E k \in H : \A l \in H : l <= k
      <4> HIDE DEF H
      <4>. QED  BY <2>4, <3>2, GreatestExists
    <3> HIDE DEF H
    <3>4. (CHOOSE k \in H : \A l \in H : l <= k) \in H
      BY <3>3
    <3>5. \A k \in H : certificates[k].fp # None
      BY <3>2, SlotKeyType, CertificatesAssumption DEF TypeOK
    <3>. QED  BY <2>4, <3>1, <3>4, <3>5
  <2>6. Lookup(byFingerprint, byKeyId, f, None) = f
    BY <2>3, <2>5 DEF Lookup, Indexed
  <2>. QED  BY <2>3, <2>6
<1>. QED  BY <1>1, TypeCorrect, SignersAlwaysExact, PTL
=============================================================================
