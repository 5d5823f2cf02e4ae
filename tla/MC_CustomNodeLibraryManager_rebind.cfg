CONSTANTS
  n1 = n1
  n2 = n2
  p1 = p1
  p2 = p2
  EscapedPath = EscapedPath
  RelativePath = RelativePath
  NoLib = NoLib
  Names <- MC_Names
  Paths <- MC_Paths
  MaxHandles <- MC_MaxHandles
SPECIFICATION Spec
PROPERTY NoRebindRefinement
