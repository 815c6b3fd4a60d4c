\* A reviewer, an editor saving speaker names, and decisions saved in between.
SPECIFICATION Spec
CONSTANTS
  Approvers = {a1}
  Editors = {e1}
  People = {p1}
  Wordings = {w1}
  MailEnabled = TRUE
  Nobody = Nobody
  MaxAttempts = 2
  MaxSaves = 1
  MaxResults = 1
SYMMETRY Symmetry
PROPERTIES ApprovedDecisionsSeen
