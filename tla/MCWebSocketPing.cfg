\* A ping frame stays in front of everything the client sends after it.
SPECIFICATION Spec
CONSTANTS
  Opcodes = {"text", "close", "ping"}
  Fins = {TRUE, FALSE}
  Masks = {TRUE, FALSE}
  MaxPayload = 4
  MaxFrames = 2
  MaxReply = 8
  Base = 2
  Max7 = 1
  SizeMod = 256
  ReqLen = 4
  PathEnd = 1
  KeyStart = 2
  KeyEnd = 3
INVARIANT OnlyIncompleteLeft
CHECK_DEADLOCK FALSE
