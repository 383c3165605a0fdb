------------------------------ MODULE Packets ------------------------------
(***************************************************************************)
(* How the client reads a message (crates/tvc-gpg-client/src/message.rs)   *)
(* and how the server reads the one packet it is sent                      *)
(* (crates/tvc-gpg/src/session_key.rs), over a small wire format: a packet *)
(* is an octet for its tag, one for the length of its body, and the body.  *)
(* Every octet may stand in every place, so a reader that loses the frame  *)
(* takes bodies for headers.                                               *)
(*                                                                         *)
(* rPGP is external: its parser ends at an incomplete header, as at the    *)
(* end of the input; a body cut short is an error or the end of the input. *)
(***************************************************************************)
EXTENDS Naturals, FiniteSets, Sequences, SequencesExt

CONSTANTS
  Messages,      \* what the client may be given: MessageType
  Certificates,  \* what the app may serve: sequences of SubkeyType
  None

Octets == 0..5
Tags == <<"pkesk", "sealed", "aead", "unsealed", "other">>

(* A session key packet's body is two octets: a key id, or none in a newer *)
(* version, and what is encrypted.                                         *)
KeyIds == {1, 2}
Anonymous == 3

(* The version of sealed data the app can open.                            *)
Version1 == 1

MessageType ==
  [armor : {"no", "good", "broken"}, octets : Seq(Octets)]
SubkeyType == [alg : {"ECDH", "EdDSA"}, id : KeyIds]

ASSUME PacketsAssumption ==
  /\ Messages \subseteq MessageType
  /\ Certificates \subseteq Seq(SubkeyType)
  /\ None \notin KeyIds

VARIABLES
  message, certificate,
  stage,    \* "open", "walk", "subkey", "pick", or how the client ended
  pos,      \* the first octet the walk has not taken
  found,    \* the bodies of the session key packets met so far
  keyId,    \* of the app's encryption subkey
  picked    \* the packet that is sent, its octets

reading == <<pos, found>>
vars == <<message, certificate, stage, reading, keyId, picked>>

Init ==
  /\ message \in Messages /\ certificate \in Certificates
  /\ stage = "open"
  /\ pos = 1 /\ found = <<>>
  /\ keyId = None /\ picked = <<>>

stream == message.octets

-----------------------------------------------------------------------------
(* The wire format, for the packet whose header is at p.                   *)
HasHeader(s, p) == p + 1 <= Len(s)
Tag(s, p) == IF s[p] = 0 THEN "invalid" ELSE Tags[s[p]]
Size(s, p) == s[p + 1]
Body(s, p) == SubSeq(s, p + 2, p + 1 + Size(s, p))
Following(s, p) == p + 2 + Size(s, p)
Complete(s, p) == Following(s, p) <= Len(s) + 1

ParsesAsPkesk(body) == Len(body) = 2 /\ body[1] \in KeyIds \cup {Anonymous}

-----------------------------------------------------------------------------
(* packet_bytes: leading blanks are passed over, and armor, when there is  *)
(* any, is taken off; octets is what is left.  The message is in memory    *)
(* before this, all of it (read_message), and is dearmored all at once:    *)
(* pos is where the walk is in the octets, not how much was read.          *)
Dearmor ==
  /\ stage = "open"
  /\ stage' = IF message.armor = "broken" THEN "unreadable" ELSE "walk"
  /\ UNCHANGED <<message, certificate, reading, keyId, picked>>

-----------------------------------------------------------------------------
(* session_key_packets: one round of its loop.                             *)
Ends(verdict) ==
  /\ stage' = verdict
  /\ UNCHANGED <<message, certificate, reading, keyId, picked>>

Reads(n) ==
  /\ pos' = pos + n
  /\ UNCHANGED <<message, certificate, found, keyId, picked>>

At(tag) == stage = "walk" /\ HasHeader(stream, pos) /\ Tag(stream, pos) = tag

EndOfInput == stage = "walk" /\ ~HasHeader(stream, pos) /\ Ends("none")

BadHeader == At("invalid") /\ Ends("unreadable")

Pkesk ==
  /\ At("pkesk")
  /\ \/ /\ Complete(stream, pos) /\ ParsesAsPkesk(Body(stream, pos))
        /\ found' = Append(found, Body(stream, pos))
        /\ pos' = Following(stream, pos)
        /\ UNCHANGED <<message, certificate, stage, keyId, picked>>
     \/ /\ ~(Complete(stream, pos) /\ ParsesAsPkesk(Body(stream, pos)))
        /\ Ends("unreadable")

(* Mutated: the whole body is taken, to be passed on.                      *)
SealedWhole ==
  /\ At("sealed")
  /\ \/ /\ (Size(stream, pos) = 0 \/ pos + 2 > Len(stream))
        /\ Ends("unreadable")
     \/ /\ Size(stream, pos) > 0 /\ pos + 2 <= Len(stream)
        /\ \/ Complete(stream, pos) /\ Reads(2 + Size(stream, pos))
           \/ ~Complete(stream, pos) /\ Reads(Len(stream) - pos + 1)
        /\ stage' = IF stream[pos + 2] = Version1 THEN "subkey" ELSE "aead"

(* Its version is all that the walk takes of the encrypted data.           *)
Sealed ==
  /\ At("sealed")
  /\ \/ /\ (Size(stream, pos) = 0 \/ pos + 2 > Len(stream))
        /\ Ends("unreadable")
     \/ /\ Size(stream, pos) > 0 /\ pos + 2 <= Len(stream)
        /\ Reads(3)
        /\ stage' = IF stream[pos + 2] = Version1 THEN "subkey" ELSE "aead"

OlderData ==
  \/ At("aead") /\ Ends("aead")
  \/ At("unsealed") /\ Ends("unsealed")

(* Mutated: the body of a packet that is of no use is left where it is.    *)
SkipHeader == At("other") /\ Reads(2) /\ UNCHANGED stage

(* A packet of no use: its body is read, to be past it.                    *)
Skip ==
  /\ At("other")
  /\ \/ Complete(stream, pos) /\ Reads(2 + Size(stream, pos)) /\ UNCHANGED stage
     \/ /\ ~Complete(stream, pos)
        /\ \/ Ends("unreadable")
           \/ Reads(Len(stream) - pos + 1) /\ UNCHANGED stage

Walk == EndOfInput \/ BadHeader \/ Pkesk \/ Sealed \/ OlderData \/ Skip

-----------------------------------------------------------------------------
EncryptionSubkeys ==
  {i \in DOMAIN certificate : certificate[i].alg = "ECDH"}

(* encryption_subkey_id.                                                   *)
Subkey ==
  /\ stage = "subkey"
  /\ \/ /\ Cardinality(EncryptionSubkeys) = 1
        /\ \E i \in EncryptionSubkeys : keyId' = certificate[i].id
        /\ stage' = "pick"
     \/ /\ Cardinality(EncryptionSubkeys) # 1
        /\ stage' = "badKey"
        /\ UNCHANGED keyId
  /\ UNCHANGED <<message, certificate, reading, picked>>

(* to_writer_with_header.                                                  *)
Serialized(tag, body) == <<tag, Len(body)>> \o body

Addressed == {i \in DOMAIN found : found[i][1] = keyId}

(* Mutated: the packets are gone through from the last.                    *)
PickLast ==
  /\ stage = "pick"
  /\ \/ /\ Addressed # {}
        /\ picked' = Serialized(1, found[CHOOSE i \in Addressed :
                                           \A j \in Addressed : i >= j])
        /\ stage' = "sent"
     \/ Addressed = {} /\ stage' = "notAddressed" /\ UNCHANGED picked
  /\ UNCHANGED <<message, certificate, reading, keyId>>

(* pkesk_for: the first packet that names the key.                         *)
Pick ==
  /\ stage = "pick"
  /\ \/ /\ Addressed # {}
        /\ picked' = Serialized(1, found[CHOOSE i \in Addressed :
                                           \A j \in Addressed : i <= j])
        /\ stage' = "sent"
     \/ Addressed = {} /\ stage' = "notAddressed" /\ UNCHANGED picked
  /\ UNCHANGED <<message, certificate, reading, keyId>>

Outcomes ==
  {"unreadable", "none", "aead", "unsealed", "badKey", "notAddressed", "sent"}

Done == stage \in Outcomes /\ UNCHANGED vars

Next == Dearmor \/ Walk \/ Subkey \/ Pick \/ Done

Spec == Init /\ [][Next]_vars

-----------------------------------------------------------------------------
Parses(s, p) ==
  /\ HasHeader(s, p) /\ Complete(s, p)
  /\ Tag(s, p) # "invalid"
  /\ Tag(s, p) = "pkesk" => ParsesAsPkesk(Body(s, p))

(* Mutated: the parser is asked for a second packet.                       *)
OnePacketAlone(s) ==
  Parses(s, 1) /\ ~HasHeader(s, Following(s, 1))

(* one_packet, on the server: there is one, and the reader is then empty.  *)
OnePacket(s) == Parses(s, 1) /\ Following(s, 1) > Len(s)

-----------------------------------------------------------------------------
(* The reference: where the packets of a stream begin.  The first header   *)
(* is at its first octet, each other one behind the body before it.        *)
Onward(s, p) == IF HasHeader(s, p) THEN Following(s, p) ELSE p

Begins(s) ==
  LET begin[n \in 0..Len(s)] == IF n = 0 THEN 1 ELSE Onward(s, begin[n - 1])
  IN  begin

StartsOf(s) ==
  LET begin == Begins(s)
  IN  {p \in DOMAIN s : HasHeader(s, p) /\ \E n \in DOMAIN begin : begin[n] = p}

Starts == StartsOf(stream)

Data == {"sealed", "aead", "unsealed"}

(* The packets a reader cannot or need not go past, and the first of them. *)
Stops == {p \in Starts : ~Parses(stream, p) \/ Tag(stream, p) \in Data}

Stop == CHOOSE p \in Stops : \A q \in Stops : p <= q

Verdicts ==
  IF Stops = {} THEN {"none"}
  ELSE CASE Tag(stream, Stop) = "sealed" ->
              {IF Size(stream, Stop) = 0 \/ Stop + 2 > Len(stream)
                 THEN "unreadable"
                 ELSE IF stream[Stop + 2] = Version1 THEN "sealed" ELSE "aead"}
         [] Tag(stream, Stop) \in {"aead", "unsealed"} -> {Tag(stream, Stop)}
         [] Tag(stream, Stop) = "other" -> {"unreadable", "none"}
         [] OTHER -> {"unreadable"}

PkeskStarts ==
  {p \in Starts : Tag(stream, p) = "pkesk" /\ \A q \in Stops : p < q}

Verdict ==
  IF stage \in {"subkey", "pick", "badKey", "notAddressed", "sent"}
    THEN "sealed" ELSE stage

(* How many of them there are, up to the one at p.                         *)
Rank(p) == Cardinality({q \in PkeskStarts : q <= p})

(* "walks the packets, keeps the PKESKs, and stops at the encrypted data"  *)
(* (message.rs:5): what the walk makes of a message, whatever stands in    *)
(* the bodies it goes over, is what its packets are.                       *)
WalkExact ==
  stage \notin {"open", "walk"} /\ message.armor # "broken" =>
    /\ Verdict \in Verdicts
    /\ Len(found) = Cardinality(PkeskStarts)
    /\ \A p \in PkeskStarts : found[Rank(p)] = Body(stream, p)

(* "The walk stops at the encrypted data packet and never reads its body"  *)
(* (message.rs:46), of the octets that are in memory by then: the walk is  *)
(* never past the tag of a data packet, nor past the version of a sealed   *)
(* one; and a message it finds sealed is one it left right there, at the   *)
(* first packet that stops it, on the octet that is the version.           *)
WalkStopsAtData ==
  /\ \A p \in Starts : Tag(stream, p) \in Data =>
       pos <= p + (IF Tag(stream, p) = "sealed" THEN 3 ELSE 0)
  /\ Verdict = "sealed" =>
       /\ Stops # {} /\ Tag(stream, Stop) = "sealed"
       /\ pos = Stop + 3 /\ stream[Stop + 2] = Version1

(* What is sent is, octet for octet in this format, where a packet has one *)
(* header it can have, the first packet of the message that is addressed   *)
(* to the one encryption subkey of the app, and one packet to the server   *)
(* that reads it.                                                          *)
PicksAddressed ==
  stage = "sent" =>
    /\ \E i \in DOMAIN certificate :
         EncryptionSubkeys = {i} /\ certificate[i].id = keyId
    /\ \E p \in PkeskStarts :
         /\ picked = SubSeq(stream, p, p + 3)
         /\ picked[3] = keyId
         /\ \A q \in PkeskStarts : q < p => stream[q + 2] # keyId
    /\ OnePacket(picked)

(* "Exactly one packet, so nothing may follow it" (session_key.rs:320):    *)
(* the server takes what a packet's serialization is, and nothing else, no *)
(* tail that is too short for a packet either.                             *)
OnePacketExact ==
  OnePacket(stream) <=>
    \E tag \in DOMAIN Tags :
      LET body == SubSeq(stream, 3, Len(stream)) IN
      /\ stream = Serialized(tag, body)
      /\ Tags[tag] = "pkesk" => ParsesAsPkesk(body)
=============================================================================
