\* A one-way transfer between two chiTCPs: does send_all keep to the peer's window?
SPECIFICATION Spec
CONSTANTS
  Client = c
  Server = s
  BufSize = 3
  MSS = 1
  Word = 32
  WinMod = 8
  ISNs = {1}
  Others = {}
  Monitored = {}
  Responses = {"NONE"}
  Senders = {c}
  Receivers = {s}
  SendSizes = {2}
  RecvSizes = {1}
  MaxBytes = 4
  MaxTaken = 5
  SendStates = {"ESTABLISHED"}
  Closers = {}
INVARIANTS WindowRespected
\* When the applications have had their say there may be nothing left to do.
CHECK_DEADLOCK FALSE
