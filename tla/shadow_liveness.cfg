SPECIFICATION FairSpec
CONSTANTS
  pan = pan
  tilt = tilt
  zoom = zoom
  Properties = {pan, tilt}
  Managed = {pan, tilt}
  First = pan
  Numbers <- SomeNumbers
  Words = {}
  Absent = Absent
  Clear = Clear
  UnsignedRange = 65536
  MaxRequests = 1
  MaxInputs = 1
  MaxStarts = 1
  MaxFaults = 1
  Faults = {"duplicate"}
CHECK_DEADLOCK FALSE
INVARIANT LocalNotStale
PROPERTIES
  ExchangeEnds
  StartCompletes
