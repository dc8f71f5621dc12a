\* The process is killed between the header and the payload.
CONSTANTS
  Payload <- MCPayload
  BaseOffset = 1
  MaxSize = 5
  IndexCap = 8
  HalfWord = 64
  Faults = {"killed_in_write"}
  MaxWords = 5
SPECIFICATION Spec
INVARIANTS
  AckedReadable
