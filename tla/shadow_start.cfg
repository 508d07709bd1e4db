SPECIFICATION Spec
CONSTANTS
  pan = pan
  tilt = tilt
  zoom = zoom
  Properties = {pan, tilt}
  Managed = {pan, tilt}
  First = pan
  Numbers <- SomeNumbers
  Words = {}
  Absent = Absent
  Clear = Clear
  UnsignedRange = 65536
  MaxRequests = 0
  MaxInputs = 0
  MaxStarts = 1
  MaxFaults = 0
  Faults = {}
CHECK_DEADLOCK FALSE
INVARIANT StartsWithCorrectValue
