SPECIFICATION Spec
CONSTANT OptionSets <- MCOptionSets
CHECK_DEADLOCK FALSE
INVARIANTS
  AssemblyComplete
  OptionsReachable
  RepoReleased
  StopsInLayers
