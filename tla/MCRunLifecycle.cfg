SPECIFICATION FairSpec
CONSTANTS
  Domains <- MCDomains
  Layers <- MCLayers
  SharedLayers <- MCSharedLayers
  Tidy <- MCTidy
  Configs <- MCConfigs
  MaxTries = 2
INVARIANTS
  OpenedOnceAndClosed
  RowsStayApart
  NoRowIsLost
PROPERTIES
  NewestFirst
  RunEnds
CHECK_DEADLOCK FALSE
