------------------------------ MODULE TeamKey ------------------------------
(***************************************************************************)
(* TeamKey::derive of crates/tvc-gpg/src/team_key.rs, as several hosts run *)
(* it from one quorum seed or from different ones: two scalars through     *)
(* HKDF, each by a loop over salts (derive_scalar), then the packets and   *)
(* the signatures that make an OpenPGP key of them.  The key is never      *)
(* stored: each host, and each restart, makes it anew, at another time.    *)
(*                                                                         *)
(* HKDF and P-256 are external and ideal: one scalar for one seed and      *)
(* salt, another for any other.  A key is its scalar and its creation      *)
(* time, which is also what its fingerprint tells apart.                   *)
(***************************************************************************)
EXTENDS Integers, Sequences

CONSTANTS
  Hosts,         \* processes that derive the key
  Seeds,         \* master seeds of quorum keys
  PrimaryPath,   \* the two salts to begin with, as bytes
  SubkeyPath,
  MaxCounter,    \* u8::MAX
  KeyCreatedAt,  \* the time stamped on everything in the key
  Clock,         \* what the clock of a host may show
  Fates,         \* what may come of each seed and salt
  None

Paths == {PrimaryPath, SubkeyPath}
Counters == 0..MaxCounter

(* The salts derive_scalar means to try: the path, then the path with each *)
(* counter byte behind it.                                                 *)
SaltAt(path, n) == IF n = 0 THEN path ELSE Append(path, n)
Salts == {SaltAt(path, n) : path \in Paths, n \in Counters}

(* What derive_secret and from_slice make of a salt: a scalar in range,    *)
(* one that is zero or too large, or an error.                             *)
FateType == [Seeds -> [Salts -> {"scalar", "outOfRange", "error"}]]

ASSUME TeamKeyAssumption ==
  /\ MaxCounter \in Nat /\ KeyCreatedAt \in Nat
  /\ PrimaryPath \in Seq(Nat) /\ SubkeyPath \in Seq(Nat)
  /\ Len(PrimaryPath) = Len(SubkeyPath)
  /\ PrimaryPath # SubkeyPath
  /\ Clock \subseteq Nat
  /\ Fates \subseteq FateType

VARIABLES
  fate,       \* the HKDF: never changes
  seed,       \* the seed each host was given
  pc,         \* where it is
  counter,    \* the counter byte of derive_scalar
  salt,       \* its salt buffer
  scalars,    \* the scalars it has: [primary, subkey]
  teamKey,    \* the key it holds, when it is ready
  clock,
  published   \* history: what any host ever answered or printed

local == <<pc, counter, salt, scalars, teamKey>>
vars == <<fate, seed, local, clock, published>>

Scalar(s, bytes) == <<s, bytes>>
NoScalars == [primary |-> None, subkey |-> None]

Init ==
  /\ fate \in Fates
  /\ seed \in [Hosts -> Seeds]
  /\ pc = [h \in Hosts |-> "idle"]
  /\ counter = [h \in Hosts |-> 0]
  /\ salt = [h \in Hosts |-> <<>>]
  /\ scalars = [h \in Hosts |-> NoScalars]
  /\ teamKey = [h \in Hosts |-> None]
  /\ clock \in Clock
  /\ published = {}

-----------------------------------------------------------------------------
(* derive_scalar.                                                          *)
Goto(h, step) == pc' = [pc EXCEPT ![h] = step]

(* The call: the salt buffer is filled with the path.                      *)
Call(h, step, path) ==
  /\ Goto(h, step)
  /\ salt' = [salt EXCEPT ![h] = path]
  /\ counter' = [counter EXCEPT ![h] = 0]

Begin(h) ==
  /\ pc[h] = "idle"
  /\ Call(h, "primary", PrimaryPath)
  /\ UNCHANGED <<fate, seed, scalars, teamKey, clock, published>>

PathOf(step) == IF step = "primary" THEN PrimaryPath ELSE SubkeyPath

(* salt.truncate(path.len()), salt.push(counter)                           *)
SaltNow(h) ==
  IF counter[h] > 0
    THEN Append(SubSeq(salt[h], 1, Len(PathOf(pc[h]))), counter[h])
    ELSE salt[h]

(* A scalar: the primary key's, and derive goes on to the subkey; or the   *)
(* subkey's.                                                               *)
Accept(h) ==
  /\ scalars' = [scalars EXCEPT ![h][pc[h]] = Scalar(seed[h], SaltNow(h))]
  /\ \/ pc[h] = "primary" /\ Call(h, "subkey", SubkeyPath)
     \/ /\ pc[h] = "subkey" /\ Goto(h, "sign")
        /\ salt' = [salt EXCEPT ![h] = SaltNow(h)]
        /\ UNCHANGED counter

(* Mutated: a byte that wraps, where the range ends.                       *)
RejectAndWrap(h) ==
  /\ counter' = [counter EXCEPT ![h] = (@ + 1) % (MaxCounter + 1)]
  /\ UNCHANGED pc

(* Mutated: 0..u8::MAX, without the last.                                  *)
RejectBeforeLast(h) ==
  \/ /\ counter[h] < MaxCounter - 1
     /\ counter' = [counter EXCEPT ![h] = @ + 1]
     /\ UNCHANGED pc
  \/ /\ counter[h] = MaxCounter - 1
     /\ Goto(h, "exhausted")
     /\ UNCHANGED counter

(* Out of range: the next counter, if there is one.                        *)
Reject(h) ==
  \/ /\ counter[h] < MaxCounter
     /\ counter' = [counter EXCEPT ![h] = @ + 1]
     /\ UNCHANGED pc
  \/ /\ counter[h] = MaxCounter
     /\ Goto(h, "exhausted")
     /\ UNCHANGED counter

(* The packets of the primary key are made of its scalar before the next   *)
(* one is derived, and rPGP may refuse them.                               *)
RefusePrimary(h) ==
  /\ pc[h] = "primary"
  /\ Goto(h, "failed")
  /\ UNCHANGED <<counter, salt, scalars>>

Try(h) ==
  /\ pc[h] \in {"primary", "subkey"}
  /\ LET result == fate[seed[h]][SaltNow(h)] IN
       \/ result = "scalar" /\ (Accept(h) \/ RefusePrimary(h))
       \/ /\ result = "outOfRange" /\ Reject(h)
          /\ salt' = [salt EXCEPT ![h] = SaltNow(h)]
          /\ UNCHANGED scalars
       \/ /\ result = "error" /\ Goto(h, "failed")
          /\ UNCHANGED <<counter, salt, scalars>>
  /\ UNCHANGED <<fate, seed, teamKey, clock, published>>

-----------------------------------------------------------------------------
(* The packets.                                                            *)
Key(scalar) == [scalar |-> scalar, created |-> KeyCreatedAt]
Signature(type, by, over, time) ==
  [type |-> type, by |-> by, over |-> over, created |-> time]

(* Mutated: the creation time rPGP's own PublicSubkey::sign would stamp.   *)
BindSubkeyNow(primary, subkey) ==
  Signature("SubkeyBinding", primary, subkey, clock)

CertifyUserId(primary) ==
  Signature("CertPositive", primary, primary, KeyCreatedAt)
BindSubkey(primary, subkey) ==
  Signature("SubkeyBinding", primary, subkey, KeyCreatedAt)

KeyOf(primary, subkey) ==
  [primary |-> primary, subkey |-> subkey,
   selfSignature |-> CertifyUserId(primary),
   binding |-> BindSubkey(primary, subkey)]

(* Mutated: the subkey is made of the scalar of the primary key.           *)
SignOneScalar(h) ==
  /\ pc[h] = "sign"
  /\ \/ /\ Goto(h, "ready")
        /\ teamKey' = [teamKey EXCEPT ![h] =
             KeyOf(Key(scalars[h].primary), Key(scalars[h].primary))]
     \/ Goto(h, "failed") /\ UNCHANGED teamKey
  /\ UNCHANGED <<fate, seed, counter, salt, scalars, clock, published>>

(* The packets of the subkey, certify_user_id and bind_subkey, or an error *)
(* of rPGP.                                                                *)
Sign(h) ==
  /\ pc[h] = "sign"
  /\ \/ /\ Goto(h, "ready")
        /\ teamKey' = [teamKey EXCEPT ![h] =
             KeyOf(Key(scalars[h].primary), Key(scalars[h].subkey))]
     \/ Goto(h, "failed") /\ UNCHANGED teamKey
  /\ UNCHANGED <<fate, seed, counter, salt, scalars, clock, published>>

RevocationCertificate(key) ==
  Signature("KeyRevocation", key.primary, key.primary, KeyCreatedAt)

Publish(h, kind, text) ==
  /\ pc[h] = "ready"
  /\ published' = published \cup {[seed |-> seed[h], kind |-> kind, text |-> text]}
  /\ UNCHANGED <<fate, seed, local, clock>>

(* public_key_armored, revocation_certificate_armored, subkey_key_id.      *)
ExportPublicKey(h) == Publish(h, "publicKey", teamKey[h])
ExportRevocation(h) == Publish(h, "revocation", RevocationCertificate(teamKey[h]))
ExportKeyId(h) == Publish(h, "keyId", teamKey[h].subkey)

(* The process ends, at any point, and may be started again.               *)
Restart(h) ==
  /\ pc[h] # "idle"
  /\ Goto(h, "idle")
  /\ counter' = [counter EXCEPT ![h] = 0]
  /\ salt' = [salt EXCEPT ![h] = <<>>]
  /\ scalars' = [scalars EXCEPT ![h] = NoScalars]
  /\ teamKey' = [teamKey EXCEPT ![h] = None]
  /\ UNCHANGED <<fate, seed, clock, published>>

Tick ==
  /\ clock' \in Clock
  /\ UNCHANGED <<fate, seed, local, published>>

Derive(h) == Try(h) \/ Sign(h)
Export(h) == ExportPublicKey(h) \/ ExportRevocation(h) \/ ExportKeyId(h)

Next ==
  \/ \E h \in Hosts : Begin(h) \/ Derive(h) \/ Export(h) \/ Restart(h)
  \/ Tick

(* A process that runs goes on: derive waits for nothing.                  *)
Spec == Init /\ [][Next]_vars /\ \A h \in Hosts : WF_vars(Derive(h))

-----------------------------------------------------------------------------
Working == {"primary", "subkey", "sign"}

Scalars == {Scalar(s, bytes) : s \in Seeds, bytes \in Salts}
ScalarPairs == [primary : Scalars \cup {None}, subkey : Scalars \cup {None}]
TeamKeys == {KeyOf(Key(p), Key(q)) : p, q \in Scalars}

(* Every variable stays in its type, and a host has no key before it is    *)
(* ready.                                                                  *)
TypeOK ==
  /\ fate \in FateType
  /\ seed \in [Hosts -> Seeds]
  /\ pc \in [Hosts -> Working \cup {"idle", "ready", "exhausted", "failed"}]
  /\ counter \in [Hosts -> Counters]
  /\ salt \in [Hosts -> Salts \cup {<<>>}]
  /\ scalars \in [Hosts -> ScalarPairs]
  /\ teamKey \in [Hosts -> TeamKeys \cup {None}]
  /\ clock \in Clock
  /\ \A h \in Hosts : pc[h] # "ready" => teamKey[h] = None

(* The counters derive_scalar may stop at: those with no scalar before.    *)
Reaches(s, path, n) ==
  \A m \in 0..(n - 1) : fate[s][SaltAt(path, m)] = "outOfRange"

FirstScalar(s, path, scalar) ==
  \E n \in Counters :
    /\ Reaches(s, path, n)
    /\ fate[s][SaltAt(path, n)] = "scalar"
    /\ scalar = Scalar(s, SaltAt(path, n))

(* "HKDF output that is zero or at or above the group order is rejected.   *)
(* A counter byte is then appended to the salt and the derivation is       *)
(* repeated" (team_key.rs:216): each scalar is that of the first salt, of  *)
(* the path and the path with one byte, that gives one; and derivation is  *)
(* exhausted only when none of all of them, the last included, does.       *)
ScalarsExact ==
  \A h \in Hosts :
    /\ pc[h] \in {"subkey", "sign", "ready"} =>
         FirstScalar(seed[h], PrimaryPath, scalars[h].primary)
    /\ pc[h] \in {"sign", "ready"} =>
         FirstScalar(seed[h], SubkeyPath, scalars[h].subkey)
    /\ pc[h] = "exhausted" =>
         \E path \in Paths : Reaches(seed[h], path, MaxCounter + 1)

(* No secret serves two purposes: whatever the counters came to, the       *)
(* primary key of any host and the subkey of any host are different keys.  *)
SecretsApart ==
  \A g, h \in Hosts : pc[g] = "ready" /\ pc[h] = "ready" =>
    teamKey[g].primary # teamKey[h].subkey

(* "the same seed always rebuilds the same key bytes" (team_key.rs:6):     *)
(* what was published of a seed, by any hosts, restarts and at any times,  *)
(* is one public key, one revocation certificate and one key id, and they  *)
(* belong together: the revocation revokes the primary key, and the key id *)
(* is that of the subkey, published at other times by other hosts.         *)
SameKeyEverywhere ==
  \A a, b \in published : a.seed = b.seed =>
    /\ a.kind = b.kind => a.text = b.text
    /\ a.kind = "publicKey" /\ b.kind = "revocation" =>
         b.text.by = a.text.primary /\ b.text.over = a.text.primary
    /\ a.kind = "publicKey" /\ b.kind = "keyId" => b.text = a.text.subkey

(* The counter is a byte and the loop runs over all its values: deriving   *)
(* ends, with a key or without, even when no salt gives a scalar.          *)
DeriveEnds ==
  \A h \in Hosts : pc[h] \in Working ~> pc[h] \notin Working
=============================================================================
