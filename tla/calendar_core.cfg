\* Two API processes that may crash at any time; two runs for u1, or one run for two users
\* with an identity link and one without.
SPECIFICATION MCSpec
CONSTANTS
  Runs = {r1, r2}
  Procs = {p1, p2}
  Users = {u1, u2, u3}
  Linked = {u1, u2}
  Nobody = Nobody
  Legacy = Legacy
INVARIANTS TypeOK OneRunWorks CountsAreCommitted ResultIsHonest OptOutRespected
PROPERTIES ImplementsPromise ResultIsFinal RunsSettle
