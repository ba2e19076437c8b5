CONSTANTS
  NumLines = 3
  WriteAttempts = 3
  MaxFileSize = 3
  MaxFaults = 3
SPECIFICATION Spec
INVARIANTS
  FilesBounded
PROPERTIES
  AcknowledgedIsKept
  GivenUpForCause
