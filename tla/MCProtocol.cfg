SPECIFICATION ProtocolSpec
CONSTANTS
  f1 = f1  f2 = f2  f3 = f3  f4 = f4  f5 = f5
  k1 = k1  k2 = k2  k3 = k3
  q1 = q1  q2 = q2  id1 = id1  id2 = id2  wildcard = wildcard
  app = app  other = other
  t1 = t1  t2 = t2  bad = bad  s1 = s1  s2 = s2
  h1 = h1  h2 = h2  r1 = r1  r2 = r2
  none = none
  None = none
  Fingerprints <- MCFingerprints
  KeyIds <- MCKeyIds
  KeyIdOf <- MCKeyIdOf
  Certs <- MCCerts
  Quorums <- MCQuorums
  SubkeyIdOf <- MCSubkeyIdOf
  WildcardId = wildcard
  AppIds <- MCAppIds
  Points <- MCPoints
  BadPoint = bad
  SessionKeys <- MCSessionKeys
  TimeWindow = 3
  Requests <- MCClientRequests
  Embedded <- MCEmbedded
  Quorum = q1
  AppId = app
  TransportOf <- MCTransportOf
  Handlers = {h1}
  Clock = {8, 12}
  Runs = {r1, r2}
  Invocations <- MCInvocations
INVARIANTS
  ProtocolTypeOK
  TypoCostsNothing
  SlowFetchHarmless
  OpensOwnKey
  OneRecordPerRun
PROPERTIES
  RunsEnd
  PromiseKept
