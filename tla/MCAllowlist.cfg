SPECIFICATION Spec
CONSTANTS
  f1 = f1  f2 = f2  f3 = f3  f4 = f4  f5 = f5  f6 = f6
  k1 = k1  k2 = k2  k3 = k3
  unreadable = unreadable
  None = None
  Unreadable = unreadable
  Fingerprints <- MCFingerprints
  KeyIds <- MCKeyIds
  KeyIdOf <- MCKeyIdOf
  Certs <- MCCerts
  Inputs <- MCInputs
  BuildTimes <- MCBuildTimes
INVARIANTS
  TypeOK
  FirstCopyKept
  SignersExact
  KeyIdsExact
  CleanCheckMeansFound
