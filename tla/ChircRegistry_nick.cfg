\* Two connections ask for the same nick at the same time.
SPECIFICATION Spec
CONSTANTS
  N = 3
  Sockets = {4, 5, 6}
  Nicks = {amy, rory}
  NoNick = NoNick
  MaxCommands = 4
  Resident = TRUE
  NoConn = NoConn
INVARIANT UniqueNicks
\* When everybody has left or is silent there is nothing to do.
CHECK_DEADLOCK FALSE
