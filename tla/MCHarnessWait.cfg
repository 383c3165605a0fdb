SPECIFICATION HarnessSpec
CONSTANTS
  k1 = k1  k2 = k2  bad = bad
  t1 = t1  p1 = p1  port1 = port1  port2 = port2
  None = none
  Processes = {t1, p1}
  Tests = {t1}
  Ports = {port1, port2}
  QuorumKeys = {k1, k2, bad}
  Underivable = {bad}
  Pins = {none, k1}
  Allowlists = {"good", "empty", "broken"}
  Invocations <- AllInvocations
  TheKey = k1
  MaxWait = 6
  Increment = 1
INVARIANT
  PanicsInTime
CHECK_DEADLOCK FALSE
