\* The organizer, who recorded the meeting, an attendee and an outsider; two calls at once.
SPECIFICATION Spec
CONSTANTS
  Users = {o, u, x}
  Organizer = o
  Owner = o
  Attendees = {u}
  Founders = {o, x}
  MaxChanges = 2
  Calls = {c1, c2}
  Nobody = Nobody
SYMMETRY Symmetry
CHECK_DEADLOCK FALSE
INVARIANTS TypeOK RevocationSticks OnlyInvitedEdit
PROPERTIES LossIsDeliberate LastAdminNeedsRace
