\* Both applications close with a byte in flight. The server stands for another TCP
\* whose FIN is heard, and sends nothing that the client's RECV could read; a debugger drops
\* the client's packets, or has one withheld, which the client's daemon does not survive.
SPECIFICATION Spec
CONSTANTS
  Client = c
  Server = s
  BufSize = 2
  MSS = 1
  Word = 32
  WinMod = 8
  ISNs = {1}
  Others = {s}
  Monitored = {c}
  Responses = {"NONE", "DROP", "WITHHOLD", "DRAW_WITHHELD"}
  Senders = {c}
  Receivers = {c}
  SendSizes = {1}
  RecvSizes = {1}
  MaxBytes = 1
  MaxTaken = 1
  SendStates = {"ESTABLISHED"}
  Closers = {c, s}
INVARIANTS WakeUpsMatchPackets FINIsLast
\* When the applications have had their say there may be nothing left to do.
CHECK_DEADLOCK FALSE
