\* As CircularBuffer_live, with a debugger that peeks at the buffer.
SPECIFICATION Spec
CONSTANTS
  Writers = {w}
  Readers = {r}
  Peekers = {p}
  MaxSize = 3
  SeqModulus = 5
  WriteLens = {1, 2, 4}
  ReadLens = {1, 2, 4}
  PeekLens = {1, 3}
  WriteModes = {"BLOCKING"}
  ReadModes = {"BLOCKING"}
  PeekModes = {"NONBLOCKING"}
  CanClose = FALSE
  Spurious = FALSE
INVARIANT UnreadIntact
