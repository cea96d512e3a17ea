\* The same with fairness and a stream that never has more than half a window in
\* flight, where nothing may be left behind.
SPECIFICATION FairSpec
CONSTANTS
  Client = c
  Server = s
  BufSize = 4
  MSS = 1
  Word = 32
  WinMod = 8
  ISNs = {1}
  Others = {}
  Monitored = {}
  Responses = {"NONE"}
  Senders = {c}
  Receivers = {s}
  SendSizes = {1, 2}
  RecvSizes = {2}
  MaxBytes = 2
  MaxTaken = 3
  SendStates = {"ESTABLISHED"}
  Closers = {}
PROPERTIES AllDelivered
\* When the applications have had their say there may be nothing left to do.
CHECK_DEADLOCK FALSE
