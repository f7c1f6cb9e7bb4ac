SPECIFICATION FairSpec
CONSTANTS
  c1 = c1
  c2 = c2
  c3 = c3
  c4 = c4
  Clients <- MCThree
  None = None
  MAX_SOCKET_CLIENTS = 2
  Backlog = 2
  Room = {1, 2}
CHECK_DEADLOCK FALSE
PROPERTIES
  RequestsAnswered
