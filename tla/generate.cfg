\* The command, run twice, on sources the generator expects and others.
CONSTANTS
  Decls <- MCDecls
  Imports <- MCImports
  PkgName <- MCPkgName
  Snake <- MCSnake
  Unexported <- MCUnexported
  SafeName <- MCSafeName
  Outputs <- MCOutputs
  Arguments <- MCArguments
  OtherPkgs <- MCOtherPkgs
  BaseName <- MCBaseName
  NameOrder <- MCNameOrder
  MaxRuns = 2
  MaxFaults = 1
SPECIFICATION Spec
INVARIANTS
  EveryEntityOnce
  RerunsAgree
  
  LoaderKeysAreFiled
  OwnOutputIsHarmless
CHECK_DEADLOCK FALSE
