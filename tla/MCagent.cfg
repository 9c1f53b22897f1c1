SPECIFICATION Spec
CONSTANTS
  Pods = {p1}
  Containers = {c1, c2}
  PodOf <- MCPodOf
  Resolvers <- MCResolvers
  CacheTTL = 1
  MaxStall = 1
  MaxTime = 4
  Probes <- MCProbes
  Links <- MCLinks
  RingOf <- MCRingOf
  Programs = {"observer", "tui"}
  p1 = p1
  c1 = c1
  c2 = c2
INVARIANTS
  DeletedPodFades
  IndexComplete
  NothingLeaks
  LetGo
CHECK_DEADLOCK FALSE
