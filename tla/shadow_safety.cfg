SPECIFICATION Spec
CONSTANTS
  pan = pan
  tilt = tilt
  zoom = zoom
  Properties = {pan, zoom}
  Managed = {pan}
  First = pan
  Numbers <- SomeNumbers
  Words = {word}
  Absent = Absent
  Clear = Clear
  UnsignedRange = 65536
  MaxRequests = 1
  MaxInputs = 1
  MaxStarts = 2
  MaxFaults = 1
  Faults = {"duplicate", "reorder", "reconnect"}
CHECK_DEADLOCK FALSE
INVARIANTS
  TypeOK
  QuietMeansAgreed
  ServoAsReported
