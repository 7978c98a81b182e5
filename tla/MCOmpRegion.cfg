SPECIFICATION Spec
CONSTANTS
  MaxTeam = 3
  Regions <- MCRegions
  MaxRegions = 2
  MaxItems = 3
  MaxWaits = 2
  MaxGroups = 2
INVARIANTS
  TypeOK
  TeamAlive
  EachOnce
  HandedOver
  SlotPerChunk
  ItemsInStep
PROPERTY RegionEnds
CHECK_DEADLOCK FALSE
