\* Two registered clients, one channel, three commands between them (those that change no
\* channel count twice); both may hang up at any time.
SPECIFICATION Spec
CONSTANTS
  Users = {amy, rory}
  Channels = {c}
  NoUser = NoUser
  Commands = {"who", "whois", "list_one", "quit", "names", "list", "oper", "user_mode", "away", "join", "part", "privmsg", "notice", "tell", "tell_notice", "topic", "mode"}
  Apart = {"who", "whois", "list_one", "names_one", "notice", "oper", "user_mode", "away"}
  MaxCommands = 3
INVARIANTS TypeOK MembershipAgrees DepartedIsGone
PROPERTIES CommandsEnd
\* When the clients have fallen silent there is nothing to do.
CHECK_DEADLOCK FALSE
