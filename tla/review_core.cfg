\* Two reviewers, an unlocked editor, one reprocessing job, two deliveries.
SPECIFICATION Spec
CONSTANTS
  Approvers = {a1, a2}
  Editors = {e1}
  People = {p1, p2}
  Wordings = {w1}
  MailEnabled = TRUE
  Nobody = Nobody
  MaxAttempts = 2
  MaxSaves = 1
  MaxResults = 1
SYMMETRY Symmetry
INVARIANTS TypeOK OneMail MailIsOnRecord SentWasMailed
PROPERTIES ApprovedAsShown ImplementsPromise
