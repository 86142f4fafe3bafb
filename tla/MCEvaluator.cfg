SPECIFICATION FairSpec
CONSTANTS
  Programs     <- MCPrograms
  Roots        <- MCRoots
  Names        <- MCNames
  Decls        <- MCDecls
  CtxFunctions <- MCCtxFunctions
  RunFunction  <- MCRunFunction
  FieldNames   <- MCFieldNames
  StructDefs   <- MCStructDefs
  Results      <- MCResults
  Passes       <- MCPasses
INVARIANTS TypeOK ImplementsMeaning AsksOnlyReferences
PROPERTY Terminates
CHECK_DEADLOCK FALSE
