SPECIFICATION FairSpec
CONSTANTS
  c1 = c1
  c2 = c2
  c3 = c3
  c4 = c4
  Clients <- MCFour
  None = None
  MAX_SOCKET_CLIENTS = 2
  Backlog = 2
  Room = {1, 2}
CHECK_DEADLOCK FALSE
INVARIANTS
  TypeOK
  TableIsSound
PROPERTIES
  IsRequestServer
  LoneRequestsAnswered
