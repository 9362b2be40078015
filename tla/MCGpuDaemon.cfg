CONSTANTS
  d1 = d1
  d2 = d2
  c1 = c1
  c2 = c2
  None = None
  Daemons <- TwoDaemons
  Clients <- TwoClients
  Silent <- OneSilent
  MaxClients = 0
SPECIFICATION FairSpec
INVARIANTS
  TypeOK
  TrueAnswer
  NoConnectionForgotten
  OrderlyExitLeavesNoFile
  OnlyRivalHides
PROPERTIES
  StopObeyed
  ClientAnswered
