------------------------------ MODULE Allowlist ------------------------------
(***************************************************************************)
(* Allowlist::parse_at of crates/tvc-gpg/src/allowlist.rs, as it runs when *)
(* the server starts: read the embedded key blocks into certificates, then *)
(* index every key that can verify at builtAt by fingerprint and by key    *)
(* id, then drop the key ids two keys share.  One step per iteration of a  *)
(* loop of the code.                                                       *)
(***************************************************************************)
EXTENDS Certificates

CONSTANTS
  Unreadable,   \* a block, or a certificate in it, that rPGP cannot parse
  Inputs,       \* the allowlist files: sequences of blocks of certificates
  BuildTimes    \* the clock readings a build may start at

Errors == {"NotUtf8", "NoKeyBlock", "BadKeyBlock", "NoSigningKeys"}

ASSUME AllowlistAssumption ==
  /\ None \notin Errors
  /\ Unreadable \notin Certs
  /\ Inputs \subseteq Seq(Seq(Certs \cup {Unreadable}))
  /\ BuildTimes \subseteq Nat

VARIABLES
  blocks,          \* the input, split at the armor header
  utf8,            \* whether the input is UTF-8 text
  builtAt,         \* the clock reading keys are judged at
  pc,
  error,           \* the AllowlistError, None while there is none
  block, item,     \* loop counters of read_certificates
  certificates,    \* what read_certificates has kept so far
  cert, slot,      \* loop counters of parse_at
  byFingerprint,   \* verifying key -> primary fingerprint of its certificate
  byKeyId,         \* key id -> verifying key
  ambiguous        \* key ids seen on two verifying keys

input == <<blocks, utf8, builtAt>>
reader == <<block, item, certificates>>
indexer == <<cert, slot, byFingerprint, byKeyId, ambiguous>>
vars == <<input, pc, error, reader, indexer>>

Init ==
  /\ blocks \in Inputs
  /\ utf8 \in BOOLEAN
  /\ builtAt \in BuildTimes
  /\ pc = "start"
  /\ error = None
  /\ block = 1 /\ item = 1
  /\ certificates = <<>>
  /\ cert = 1 /\ slot = 0
  /\ byFingerprint = [f \in Fingerprints |-> None]
  /\ byKeyId = [k \in KeyIds |-> None]
  /\ ambiguous = {}

(* Mutated: the error is swallowed.                                        *)
FailSilently(e) == pc' = "failed" /\ e \in Errors /\ UNCHANGED error

Fail(e) == pc' = "failed" /\ error' = e

Start ==
  /\ pc = "start"
  /\ \/ utf8 /\ pc' = "read" /\ UNCHANGED error
     \/ ~utf8 /\ Fail("NotUtf8")
  /\ UNCHANGED <<input, reader, indexer>>

-----------------------------------------------------------------------------
(* read_certificates.                                                      *)
(* Mutated: copies are not looked for.                                     *)
NeverSeen(fp) == fp \notin Fingerprints

Seen(fp) == \E i \in DOMAIN certificates : certificates[i].fp = fp

ReadItem ==
  /\ pc = "read" /\ block <= Len(blocks) /\ item <= Len(blocks[block])
  /\ LET c == blocks[block][item] IN
     \/ /\ c = Unreadable
        /\ Fail("BadKeyBlock")
        /\ UNCHANGED reader
     \/ /\ c # Unreadable
        /\ certificates' = IF Seen(c.fp) THEN certificates
                                         ELSE Append(certificates, c)
        /\ item' = item + 1
        /\ UNCHANGED <<pc, error, block>>
  /\ UNCHANGED <<input, indexer>>

NextBlock ==
  /\ pc = "read" /\ block <= Len(blocks) /\ item > Len(blocks[block])
  /\ block' = block + 1
  /\ item' = 1
  /\ UNCHANGED <<input, pc, error, certificates, indexer>>

ReadDone ==
  /\ pc = "read" /\ block > Len(blocks)
  /\ \/ blocks = <<>> /\ Fail("NoKeyBlock")
     \/ blocks # <<>> /\ pc' = "index" /\ UNCHANGED error
  /\ UNCHANGED <<input, reader, indexer>>

-----------------------------------------------------------------------------
(* The index loop: one step per key of a certificate, usable or not.       *)
(* Mutated: the first certificate with a key keeps it.                     *)
InsertFirst(f, owner) ==
  LET k == KeyIdOf[f] IN
  /\ byKeyId' = [byKeyId EXCEPT ![k] = f]
  /\ ambiguous' = IF byKeyId[k] \in {None, f} THEN ambiguous
                                              ELSE ambiguous \cup {k}
  /\ byFingerprint' =
       [byFingerprint EXCEPT ![f] = IF @ = None THEN owner ELSE @]

(* Mutated: an ambiguous key id is dropped when found, not after the loop. *)
InsertDropsAtOnce(f, owner) ==
  LET k == KeyIdOf[f] IN
  /\ byKeyId' = [byKeyId EXCEPT ![k] = IF @ \in {None, f} THEN f ELSE None]
  /\ ambiguous' = ambiguous
  /\ byFingerprint' = [byFingerprint EXCEPT ![f] = owner]

Insert(f, owner) ==
  LET k == KeyIdOf[f] IN
  /\ byKeyId' = [byKeyId EXCEPT ![k] = f]
  /\ ambiguous' = IF byKeyId[k] \in {None, f} THEN ambiguous
                                              ELSE ambiguous \cup {k}
  /\ byFingerprint' = [byFingerprint EXCEPT ![f] = owner]

IndexSlot ==
  /\ pc = "index" /\ cert <= Len(certificates)
  /\ slot \in Slots(certificates[cert])
  /\ \/ /\ SlotUsable(certificates[cert], slot, builtAt)
        /\ Insert(SlotKey(certificates[cert], slot), certificates[cert].fp)
     \/ /\ ~SlotUsable(certificates[cert], slot, builtAt)
        /\ UNCHANGED <<byFingerprint, byKeyId, ambiguous>>
  /\ slot' = slot + 1
  /\ UNCHANGED <<input, pc, error, reader, cert>>

NextCertificate ==
  /\ pc = "index" /\ cert <= Len(certificates)
  /\ slot \notin Slots(certificates[cert])
  /\ cert' = cert + 1
  /\ slot' = 0
  /\ UNCHANGED <<input, pc, error, reader, byFingerprint, byKeyId, ambiguous>>

(* Past the loop: drop the ambiguous key ids, then refuse an empty index.  *)
Finish ==
  /\ pc = "index" /\ cert > Len(certificates)
  /\ byKeyId' = [k \in KeyIds |-> IF k \in ambiguous THEN None ELSE byKeyId[k]]
  /\ \/ Indexed(byFingerprint) = {} /\ Fail("NoSigningKeys")
     \/ Indexed(byFingerprint) # {} /\ pc' = "ready" /\ UNCHANGED error
  /\ UNCHANGED <<input, reader, cert, slot, byFingerprint, ambiguous>>

Terminated == pc \in {"ready", "failed"} /\ UNCHANGED vars

Next ==
  \/ Start
  \/ ReadItem
  \/ NextBlock
  \/ ReadDone
  \/ IndexSlot
  \/ NextCertificate
  \/ Finish
  \/ Terminated

Spec == Init /\ [][Next]_vars

-----------------------------------------------------------------------------
(* Every variable stays in its type: the loop counters never run past the  *)
(* end of what they walk, and an error is set exactly when the build fails.*)
TypeOK ==
  /\ blocks \in Inputs
  /\ utf8 \in BOOLEAN
  /\ builtAt \in BuildTimes
  /\ pc \in {"start", "read", "index", "ready", "failed"}
  /\ error \in Errors \cup {None}
  /\ pc = "failed" <=> error # None
  /\ block \in 1..Len(blocks) + 1
  /\ item \in Nat \ {0}
  /\ certificates \in Seq(Certs)
  /\ cert \in 1..Len(certificates) + 1
  /\ slot \in Nat
  /\ byFingerprint \in [Fingerprints -> Fingerprints \cup {None}]
  /\ byKeyId \in [KeyIds -> Fingerprints \cup {None}]
  /\ ambiguous \in SUBSET KeyIds

Positions ==
  {p \in {<<b, i>> : b \in DOMAIN blocks,
                     i \in UNION {DOMAIN blocks[x] : x \in DOMAIN blocks}} :
     p[2] \in DOMAIN blocks[p[1]]}

At(p) == blocks[p[1]][p[2]]

Before(p, q) == p[1] < q[1] \/ (p[1] = q[1] /\ p[2] < q[2])

(* "keeping the first copy of each fingerprint" (allowlist.rs:237): once   *)
(* every block is read, each certificate kept is the earliest certificate  *)
(* of the file with its fingerprint, and no fingerprint is kept twice or   *)
(* lost.                                                                   *)
FirstCopyKept ==
  pc \in {"index", "ready"} =>
    /\ \A p \in Positions : \E i \in DOMAIN certificates :
         certificates[i].fp = At(p).fp
    /\ \A i, j \in DOMAIN certificates :
         certificates[i].fp = certificates[j].fp => i = j
    /\ \A i \in DOMAIN certificates : \E p \in Positions :
         /\ At(p) = certificates[i]
         /\ \A q \in Positions : Before(q, p) => At(q).fp # At(p).fp

(* The index the loops leave behind is the one the certificates stand for: *)
(* every key usable at the build time is there, attributed to the last     *)
(* certificate that carries it, and nothing else is; and the build is      *)
(* refused for want of keys only when there are none.                      *)
SignersExact ==
  pc = "ready" \/ error = "NoSigningKeys" =>
    byFingerprint = SignerIndex(certificates, builtAt)

(* "If two keys share one, no lookup by key id can tell them apart, so     *)
(* drop the id and keep the fingerprints" (allowlist.rs:170): in whatever  *)
(* order the keys came, a key id resolves exactly when one indexed key has *)
(* it, and then to that key.                                               *)
KeyIdsExact ==
  pc = "ready" => byKeyId = KeyIdIndex(byFingerprint)

(* "An empty list means every embedded certificate holds a key that can    *)
(* verify" (allowlist.rs:206): check reclassifies at the time it is        *)
(* called, lookup reads the index built at start-up.  A certificate check  *)
(* has no complaint about, now or at any later time, is one whose signer   *)
(* the built index finds.                                                  *)
CleanCheckMeansFound ==
  pc = "ready" =>
    \A i \in DOMAIN certificates, t \in BuildTimes :
      t >= builtAt /\ Defects(certificates[i], t) = {} =>
        \E f \in Fingerprints :
          /\ f \in UsableKeys(certificates[i], t)
          /\ Lookup(byFingerprint, byKeyId, f, None) = f
=============================================================================
