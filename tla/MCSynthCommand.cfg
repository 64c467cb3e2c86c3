SPECIFICATION MCSpec
CONSTANTS
  w1 = w1
  w2 = w2
  Malformed = Malformed
  NoPlan = NoPlan
  Writer <- MCWriter
  MaxTroubles = 2
  MaxEdits = 1
  Identifier <- MCIdentifier
  LongIdentifier <- MCLongIdentifier
  Username <- MCUsername
  CuratedLock <- MCCuratedLock
  PortableUsername <- MCPortableUsername
  EnvironmentKey <- MCEnvironmentKey
  RelativePath <- MCRelativePath
  Location <- MCLocation
  Root <- MCRoot
  DefinitionUrl <- MCDefinitionUrl
INVARIANTS SchemasAgree AcceptedRuns AssemblyIsKept
CHECK_DEADLOCK FALSE
