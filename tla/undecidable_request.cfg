\* The organizer, an administrator and an outsider the meeting is shared with.
SPECIFICATION Spec
CONSTANTS
  Users = {o, x}
  Organizer = o
  Owner = o
  Attendees = {o}
  Founders = {o}
  MaxChanges = 0
  Calls = {c1}
  Nobody = Nobody
CHECK_DEADLOCK FALSE
INVARIANT ShownIsDecidable
