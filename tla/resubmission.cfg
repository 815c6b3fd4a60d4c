\* A retry of a job older than the one whose transcription completed.
SPECIFICATION Spec
CONSTANTS
  i1 = i1
  o1 = o1
  j1 = j1
  j2 = j2
  j3 = j3
  w1 = w1
  w2 = w2
  h1 = h1
  h2 = h2
  a1 = a1
  Items = {i1}
  Jobs = {j1, j2, j3}
  ItemOf <- OneItem
  Owners = {o1}
  OwnerOf <- OneOwner
  Workers = {w1}
  Handlers = {h1}
  Admins = {}
  Selected = {j1, j2, j3}
  MaxSaves = 0
  Nobody = Nobody
\* Jobs are never reused, so the queue stops when the pool is used up.
CHECK_DEADLOCK FALSE
PROPERTIES SubmittedNeverResubmitted
