SPECIFICATION LiveSpec
CONSTANTS
  Client = {c1}
  Link = {l1, l2}
  Prober = {p1, p2}
  Main = l1
  MaxBusy = 3
INVARIANTS TypeOK NoCircularWait StallsAreContained
PROPERTY EveryWaitEnds
