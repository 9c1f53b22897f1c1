SPECIFICATION Spec
CONSTANTS
  Processes <- MCProcesses
  ParentOf <- MCParentOf
  SidOf <- MCSidOf
  NamesOf <- MCNamesOf
  Names <- MCNames
  MaxNodes = 2
  RingCap = 1
  ContainerNames <- MCContainerNames
  Heights = {1, 2}
  EventTexts <- MCEventTexts
  MergeWindow = 2
  MaxAge = 1
  MaxLog = 2
  MaxGraphs = 2
  Tabs <- MCTabs
  Themes <- MCThemes
  Sessions <- MCSessions
INVARIANTS
  TypeOK
  GraphSound
  ProcessTreeTrue
  IndicesCurrent
  EventsConserved
  KeyboardHasOneOwner
  DetailOfOne
  DrawnIsCurrent
CHECK_DEADLOCK FALSE
