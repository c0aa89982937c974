SPECIFICATION Spec
CONSTANTS
  Buckets = 2
  Observers = {o1, o2}
  Scrapers = {s1, s2}
  NoObserver = NoObserver
  MaxObs = 2
  WanCount = 2
INVARIANTS
  SkewAtMostOne
  NothingLost
  ActiveCurrent
SYMMETRY Symmetry
