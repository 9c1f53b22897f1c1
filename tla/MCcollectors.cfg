SPECIFICATION FairSpec
CONSTANTS
  c1 = c1
  Dirs <- MCDirs1
  Walkers = {bg, poll}
  Background = bg
  Poller = poll
  MaxHistory = 1
  TTL = 2
  MaxSkips = 1
  Kinds = {"cpu", "memory", "io", "network", "syscall"}
  MaxWork = 3
  MaxAborts = 1
INVARIANTS
  TypeOK
  HistoryDated
  KnownStaysKnown
PROPERTIES
  DeltaExact
  DeadEvicted
CHECK_DEADLOCK FALSE
