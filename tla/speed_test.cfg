SPECIFICATION LiveSpec
CONSTANTS
  main = main
  drop = drop
  steady = steady
  churny = churny
  Testers = {main, drop}
  PortsOf <- MCPortsOf
  Configs = {steady, churny}
  ExitsOf <- MCExitsOf
  NoConfig = NoConfig
  Probes = 2
INVARIANTS
  TypeOK
  OwnMeasured
  NoStrayXray
  SteadyScoresZero
PROPERTIES
  TestEndsOrHangs
