SPECIFICATION Spec
CONSTANTS
  a = a
  b = b
  c = c
  a1 = a1
  b1 = b1
  c1 = c1
  any = any
  s1 = s1
  k1 = k1
  k2 = k2
  ab = ab
  Node = {a, b, c}
  Address = {a1, b1, c1, any}
  Bind <- MCBind
  Source <- MCSource
  Service = {s1}
  Home <- MCHome
  Peers <- MCPeers
  PeerKeys <- MCPeerKeys
  Rollout <- MCRollout
  Gossips = {b}
  Settled = {a, b, c}
  Hops <- MCHops
  Stray <- MCStray
  NoTime = NoTime
  NoKey = NoKey
  Nobody = Nobody
  RouteTTL = 2
  GossipMaxRoutes = 2
  MaxDelay = 1
  Threshold <- MCThreshold
  Burst = 2
  MinSamples = 1
  Window = 2
  Budgets <- MCBudgets
INVARIANTS
  RoutesFollowPeers
  OwnPacketsAccepted
  CountersAddUp
CHECK_DEADLOCK FALSE
