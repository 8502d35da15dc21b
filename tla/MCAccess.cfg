SPECIFICATION Spec
CONSTANTS
  Names <- MCNames
  Ext <- MCExt
  AssetsTail <- MCTail
  Builds <- MCBuilds
  ServerArgs <- MCServerArgs
  ClientArgs <- MCClientArgs
  Paths <- MCPaths
  Typed <- MCTyped
  ClientSays <- MCClientSays
  ServerSays <- MCServerSays
  U16Max = 3
  I32Max = 255
  MaxSaid = 2
INVARIANTS
  TypeOK
  Admission
  PageComplete
  MessagesArrive
CHECK_DEADLOCK FALSE
