\* One client has registered and stays; two others come and go. With relays, one other.
SPECIFICATION MCSpec
CONSTANTS
  N = 3
  Sockets = {4, 5, 6}
  Nicks = {amy, rory}
  NoNick = NoNick
  MaxCommands = 3
  Resident = TRUE
  MaxRelayed = 4
  NoConn = NoConn
PROPERTIES Served Departs
\* When everybody has left or is silent there is nothing to do.
CHECK_DEADLOCK FALSE
