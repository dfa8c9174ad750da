CONSTANTS
  HeaderSize = 3
  ResponseSize = 1
  Payloads = {0, 2, 5}
  MaxPackets = 3
SPECIFICATION Spec
CHECK_DEADLOCK FALSE
INVARIANT ServerInStep
INVARIANT ClientFindsBack
