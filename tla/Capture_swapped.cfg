SPECIFICATION CaptureSpec
CONSTANTS
  Files <- MCFiles
  Payloads = {}
  Bytes <- MCBytes
  Words <- MCWords
INVARIANT
  OutputIsCapture
CHECK_DEADLOCK FALSE
