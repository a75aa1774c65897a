SPECIFICATION Spec
CONSTANTS
  Conn = {c1, c2}
  Account = {u1, u2}
  Event = {e1}
  Probe = {p1, p2}
  Nobody = Nobody
  None = None
SYMMETRY Symmetry
INVARIANTS TypeOK AliveIsRegistered WatchersHaveTime AnswersAreAttributed
CHECK_DEADLOCK FALSE
