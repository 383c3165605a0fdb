SPECIFICATION Spec
CONSTANTS
  f1 = f1  f2 = f2  f3 = f3  f4 = f4  f5 = f5
  k1 = k1  k2 = k2  k3 = k3
  q1 = q1  q2 = q2  id1 = id1  id2 = id2  wildcard = wildcard
  app = app  other = other
  t1 = t1  t2 = t2  bad = bad  s1 = s1  s2 = s2
  h1 = h1  h2 = h2
  none = none
  None = none
  Fingerprints <- SFingerprints
  KeyIds <- SKeyIds
  KeyIdOf <- SKeyIdOf
  Certs <- SCerts
  Quorums <- SQuorums
  SubkeyIdOf <- SSubkeyIdOf
  WildcardId = wildcard
  AppIds <- SAppIds
  Points <- SPoints
  BadPoint = bad
  SessionKeys <- SSessionKeys
  TimeWindow = 2
  Handlers <- Handlers2
  Requests <- MCRequests
  Embedded <- SEmbedded
  Quorum = q1
  AppId = app
  Clock <- MCClock
CONSTRAINT FewReleased
ACTION_CONSTRAINT OneOrPairNext
SYMMETRY Alike
INVARIANTS
  ReleasedToSigner
  PayloadReadOnlyIfSigned
  NoPanic
  UniformRejection
  ReplaysBounded
