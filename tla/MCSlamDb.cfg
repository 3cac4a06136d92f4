CONSTANTS
  Byte <- MCByte
  Junk = Junk
  Text <- MCText
  Size = {0, 1, 2, 4}
  Chunk = 2
  Record <- MCRecord
  Result <- MCResult
  InitSize = 4
  ClientText <- MCClientText
  MaxClient = 6
SPECIFICATION Spec
INVARIANTS LengthsHold  TrueMeansExecuted 
PROPERTIES ImplementsStream BufferReleased 
\* an assertion, or a NULL in a column of numbers, ends the process
CHECK_DEADLOCK FALSE
