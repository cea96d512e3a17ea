\* One writer, two competing readers, closes and spurious wake-ups at any
\* point; a debugger's peek that finds a count of 0 (PeekLens). Slots wrap
\* after 2 bytes and sequence numbers after 4.
SPECIFICATION Spec
CONSTANTS
  Writers = {w}
  Readers = {r1, r2}
  Peekers = {p}
  MaxSize = 2
  SeqModulus = 4
  WriteLens = {0, 1, 3}
  ReadLens = {1, 2}
  PeekLens = {0}
  WriteModes = {"BLOCKING", "NONBLOCKING"}
  ReadModes = {"BLOCKING", "NONBLOCKING"}
  PeekModes = {"NONBLOCKING"}
  CanClose = TRUE
  Spurious = TRUE
INVARIANTS
  TypeOK
  UnreadIntact
  ReadsInOrder
  FlagsAgreeWithCount
  NoLostWakeup
PROPERTIES
  ImplementsByteStream
\* A call that returns with the mutex held leaves every later call waiting.
SYMMETRY ReaderSymmetry
CHECK_DEADLOCK FALSE
