SPECIFICATION CaptureSpec
CONSTANTS
  Files <- MCFiles
  Payloads = {}
  Bytes <- MCBytes
  Words <- MCWords
INVARIANTS
  InFrame
  PayloadAgrees
  KeyAsWritten
  OutputReadsBack
  InBounds
  NameInside
  Ends
CHECK_DEADLOCK FALSE
