SPECIFICATION GameSpec
CONSTANTS
  nexon = nexon
  tiancity = tiancity
  nexonJP = nexonJP
  tfo = tfo
  sharedKey = sharedKey
  tiancityKey = tiancityKey
  game = game
  gameData = gameData
  other = other
  otherData = otherData
  tfoData = tfoData
  unknownIndex = unknownIndex
  none = none
  Providers <- MCProviders
  Unknown = Unknown
  Tfo = tfo
  CsProviders <- MCCsProviders
  Keys <- MCKeys
  KeyOf <- MCKeyOf
  PkgFiles <- MCPkgFiles
  NoKey = NoKey
  Directories <- MCDirectories
  Empty = Empty
  DataOf <- MCDataOf
  ProviderIn <- MCProviderIn
  IndexIn <- MCIndexIn
  PkgsIn <- MCPkgsIn
INVARIANT NoDirectoryNoOk
