\* A buffer of three bytes with one writer and one reader that block and no close (the normal
\* life of a socket's buffer, under weak fairness); a list of up to four elements; four tests;
\* a router with two interfaces.
SPECIFICATION PartsSpec
CONSTANTS
  Writers = {w}
  Readers = {r}
  Peekers = {}
  MaxSize = 3
  SeqModulus = 5
  WriteLens = {1, 2, 4}
  ReadLens = {1, 2, 4}
  PeekLens = {}
  WriteModes = {"BLOCKING"}
  ReadModes = {"BLOCKING"}
  PeekModes = {}
  CanClose = FALSE
  Spurious = FALSE
  MaxElems = 4
  MaxSorted = 4
  MaxSpare = 1
  MinQuick = 2
  ListValues = {1, 2}
  Ifaces = {eth1, eth2}
  RtFiles = {{eth1, eth2}, {eth1, eth9}}
  MaxFrames = 2
INVARIANTS PartsTypeOK ListsAreSequences AnswersGoBack
PROPERTIES CallsComplete TestsFinish
\* A test comes to its end, a router ends.
CHECK_DEADLOCK FALSE
