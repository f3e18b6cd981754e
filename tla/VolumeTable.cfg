CONSTANTS
  FsTypes <- MCFsTypes
  Paths <- MCPaths
  TmpPath <- MCTmpPath
  FstabFiles <- MCFstabFiles
SPECIFICATION Spec
INVARIANT TypeOK
INVARIANT FirstMatchIsLongestIffUnshadowed
