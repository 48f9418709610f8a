SPECIFICATION SessionSpec
CONSTANTS
  ip1 = ip1
  ip2 = ip2
  port1 = port1
  port2 = port2
  NoAddress = NoAddress
  Ip <- MCIp
  Port <- MCPort
  MaxClients = 2
  MaxFromIP = 1
  MaxLevels = 2
SYMMETRY MCSymmetry
INVARIANTS
  TypeOK
  NoGhost
  PutOnce
  PlayersMatch
  NewAnswered
  SlotClean
PROPERTY OneSlot
