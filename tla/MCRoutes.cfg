SPECIFICATION RoutesSpec
CONSTANTS
  d1 = d1
  d2 = d2
  g1 = g1
  s1 = s1
  h1 = h1
  h2 = h2
  NoTag = NoTag
  NoExpiry = NoExpiry
  Unset = Unset
  Endpoint = {d1, d2}
  Tag = {g1, s1}
  Offers <- MCOffers
  Deletions <- MCDeletions
  Patches <- MCPatches
  Requests <- MCRequests
  Handler = {h1, h2}
  MaxRoutes = 2
  MaxRequest = 3
  MaxTime = 2
  MaxRestart = 1
INVARIANTS
  TableIsKept
  AnswersAgree
PROPERTIES
  VanishesForAReason
SYMMETRY Symmetric
CHECK_DEADLOCK FALSE
