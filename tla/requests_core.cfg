SPECIFICATION MCSpec
CONSTANTS
  Owner = o
  Users = {o, r, s}
  Admins = {r, s}
  Calls = {c1, c2}
  Requests = {q1, q2}
  Nobody = Nobody
SYMMETRY Symmetry
INVARIANTS TypeOK ApprovedIsShown OptOutStops QueuedHasWork
PROPERTIES ImplementsPromise ResultKept
