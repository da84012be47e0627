SPECIFICATION Spec
CONSTANTS
  top = top
  f5 = f5
  f1 = f1
  f2 = f2
  f3 = f3
  f4 = f4
  d1 = d1
  d2 = d2
  Files <- MCFiles
  Dirs <- MCDirs
  Root = Root
  ParentOf <- MCParentOf
  NameRank <- MCNameRank
  TypeRank <- MCTypeRank
  SizeOf <- MCSizeOf
  OwnerRank <- MCOwnerRank
INVARIANTS
  TypeOK
  ComparisonIsSound
  ShownInOrder
  IndexesFollow
