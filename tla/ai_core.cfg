SPECIFICATION Spec
CONSTANTS
  Runs = {r1, r2}
  Hosts = {h1, h2}
  Requests = {q1, q2}
  Configs <- MCConfigs
  MaxMonth = 2
  MaxAttempts = 2
  MaxRequests = 2
  Cost = 2
  Budget = 3
  None = None
SYMMETRY Symmetry
INVARIANTS TypeOK OneSend SendsAreAccounted RouteHonoured
PROPERTIES ImplementsPromise
