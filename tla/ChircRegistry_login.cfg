\* One client has registered and stays. Three more connections share two other descriptors:
\* they register in either order, rename, ask again, quit and vanish. With relays two more, one
\* after the other, share one descriptor.
SPECIFICATION MCSpec
CONSTANTS
  N = 4
  Sockets = {4, 5, 6}
  Nicks = {amy, rory}
  NoNick = NoNick
  MaxCommands = 5
  Resident = TRUE
  MaxRelayed = 4
  NoConn = NoConn
INVARIANTS TypeOK TotalAgrees EntriesAreConnected LookupsSucceed
\* When everybody has left or is silent there is nothing to do.
CHECK_DEADLOCK FALSE
