SPECIFICATION Spec
CONSTANTS
  s1 = s1  s2 = s2  h1 = h1  h2 = h2
  Hosts = {h1, h2}
  Seeds = {s1}
  PrimaryPath <- MCPrimaryPath
  SubkeyPath <- MCSubkeyPath
  MaxCounter = 2
  KeyCreatedAt = 5
  None = none
  Clock = {7, 8}
  Fates <- MCFates
INVARIANTS
  ScalarsExact
  SecretsApart
  SameKeyEverywhere
PROPERTY
  DeriveEnds
