SPECIFICATION ServicesSpec
CONSTANTS
  Threads = {t1, t2, t3}
  Bound = 2
  Users = {u1, u2}
  IOThreads = {i1}
  Accepts = 1
  MaxPeers = 3
  MaxServers = 1
  PoolCalls = 3
  MaxEvents = 5
  MaxFailures = 1
  PoolCookies = {1}
  Peers = {p1, p2}
  Uids = {1, 2}
  ServerCalls = 4
  Callers = {c1, c2}
  Cookies = {1, 2}
  Keys = {7}
  HostCalls = 4
  Workers = {w1, w2}
  PoolThreads = {t0}
  Conns = {n1, n2}
  MaxPackets = 2
  AppThreads = {a1, a2}
  AppCalls = 4
  MaxIDs = 3
  Alphabets <- MCAlphabets
  Datas <- MCDatas
  Draws <- MCDraws
SYMMETRY Symmetry
INVARIANTS
  LoneCallSettles
  PeersInOnePlace
  KeysMatch
  AcceptsKept
  UserRefsCounted
  UsersKept
  
  
  NothingForgotten
  DecodedIsEncoded
PROPERTIES
  PrimaryStays
CHECK_DEADLOCK FALSE
