SPECIFICATION Spec
CONSTANTS
  f1 = f1
  f2 = f2
  p1 = p1
  p2 = p2
  d1 = d1
  o1 = o1
  o2 = o2
  o3 = o3
  o4 = o4
  Folders <- MCOneFolder
  Pkgs <- MCPkgs
  Dirs <- MCNoDirs
  Objs <- MCObjsDrops
  Index = Index
  NoObj = NoObj
  NoFolder = NoFolder
  NoRequest = NoRequest
  DirsOf <- MCNoDirsOf
  IndexOf <- MCOneIndexOf
  MaxDepth = 2
  DropsDuringJobs = TRUE
SYMMETRY SymmetryDrops
INVARIANT ExtractionSafe
