SPECIFICATION Spec
CONSTANTS
  f1 = f1
  f2 = f2
  p1 = p1
  p2 = p2
  d1 = d1
  o1 = o1
  o2 = o2
  o3 = o3
  o4 = o4
  Folders <- MCFolders
  Pkgs <- MCPkgs
  Dirs <- MCDirs
  Objs <- MCObjs
  Index = Index
  NoObj = NoObj
  NoFolder = NoFolder
  NoRequest = NoRequest
  DirsOf <- MCDirsOf
  IndexOf <- MCIndexOf
  MaxDepth = 2
  DropsDuringJobs = FALSE
SYMMETRY Symmetry
INVARIANT UndetectedIndexIsReported
