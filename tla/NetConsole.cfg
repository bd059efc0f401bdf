CONSTANTS
  BufferSize = 2
  ArpTries = 2
  TftpTimeouts = 1
  MaxTyped = 3
  MaxLines = 1

SPECIFICATION Spec
INVARIANTS TypeOK LineSent
PROPERTIES NoLateLine ImplementsCharQueue PollReturns PutsReturns InputRead
