SPECIFICATION Spec
CONSTANTS
  Length <- MCLength
  RawHeader <- MCRawHeader
  Key <- MCKey
  MaxFrames = 2
INVARIANTS
  RoundTrip
  Canonical
CHECK_DEADLOCK FALSE
