SPECIFICATION Spec
CONSTANTS
  p1 = p1
  p2 = p2
  f1 = f1
  f2 = f2
  f3 = f3
  da = da
  db = db
  x = x
  ey = ey
  y = y
  b1 = b1
  b2 = b2
  Pkgs <- MCPkgs
  Files <- MCFiles
  Names <- MCNames
  OwnerOf <- MCOwnerOf
  PathOf <- MCPathOf
  Encrypted <- MCEncrypted
  Textures <- MCTextures
  DecryptedName <- MCDecryptedName
  Bufs <- MCBufs
  NoBuf = NoBuf
  NoPkg = NoPkg
SYMMETRY MCSymmetry
INVARIANTS
  TypeOK
  ReadsOwnBytes
  SuccessIsComplete
  ProgressIsExact
  PreviewNamesItsFile
PROPERTY
  ServiceImplemented
