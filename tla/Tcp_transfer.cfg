\* A one-way transfer of more bytes than the receive buffer holds, on a network that loses
\* nothing: 'Others' and 'Monitored' are empty, both ends are chiTCP. The second SEND overruns
\* the window: a segment of two bytes meets one free slot, the TCP thread blocks half-way, and
\* a RECV lets RCV_WND wrap below zero.
SPECIFICATION Spec
CONSTANTS
  Client = c
  Server = s
  BufSize = 7
  MSS = 2
  Word = 32
  WinMod = 16
  ISNs = {1}
  Others = {}
  Monitored = {}
  Responses = {"NONE"}
  Senders = {c}
  Receivers = {s}
  SendSizes = {4}
  RecvSizes = {1}
  MaxBytes = 8
  MaxTaken = 2
  SendStates = {"ESTABLISHED"}
  Closers = {}
INVARIANTS TypeOK StreamIntact AckedWasReceived NoStrandedPacket
\* When the applications have had their say there may be nothing left to do.
CHECK_DEADLOCK FALSE
