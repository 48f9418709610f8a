SPECIFICATION MCSpec
CONSTANTS
  Bytes = 2
  Byte <- MCByte
  u1 = u1
  u2 = u2
  u3 = u3
  UserIDs = {u1, u2, u3}
  Peers <- MCPeers
  Entered <- MCEntered
  Minutes = {0, 1}
  FilterModes <- MCModes
  MAX_IPFILTERS = 2
  MAX_USERFILTERS = 2
  MaxMinutes = 1
  IPs <- MCIPs
  Window = 1
  PerIP = 2
  Global = 3
  MAX_TREE_SIZE = 1
  FLUSH_TIMEOUT = 2
  MaxTime = 4
  MaxQueries = 6
  Addresses = {a1, a2, a3}
  Nobody = Nobody
  MAX_RCON_FAILURES_STORAGE = 2
  sv_rcon_minfailures = 2
  sv_rcon_maxfailures = 3
  sv_rcon_minfailuretime = 1
  MaxSeconds = 3
  MaxAttempts = 5
CHECK_DEADLOCK FALSE
INVARIANTS
  FiltersAsAsked
  OnlyTheSparedPlay
  LimitsHold
  RefusedAsDeserved
