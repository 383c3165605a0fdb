SPECIFICATION Spec
CONSTANTS
  None = none
  MaxOctets = 4
  MaxPackets = 3
  Messages <- AllMessages
  Certificates <- AllCertificates
INVARIANTS
  WalkExact
  WalkStopsAtData
  PicksAddressed
  OnePacketExact
