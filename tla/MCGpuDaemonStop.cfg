CONSTANTS
  d1 = d1
  d2 = d2
  c1 = c1
  c2 = c2
  None = None
  Daemons <- OneDaemon
  Clients <- NoClients
  Silent <- NoClients
  MaxClients = 0
SPECIFICATION FairSpec
PROPERTIES
  SignalStops
