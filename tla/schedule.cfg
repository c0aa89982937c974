SPECIFICATION Spec
CONSTANTS
  Interval = 3
  MinGrace = 6
  MaxCycle = 4
  Unknown = Unknown
INVARIANTS
  TypeOK
  NextIsTicker
  DrainBounded
