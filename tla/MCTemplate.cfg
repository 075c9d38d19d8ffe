SPECIFICATION Spec
CONSTANT Worlds <- MCWorlds
INVARIANTS
  ParsedAsWritten
  RendersAsMeant
  NothingMissing
  NearestMarker
CHECK_DEADLOCK FALSE
