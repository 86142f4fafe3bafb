SPECIFICATION Spec
CONSTANTS
  int = int
  opt = opt
  Dyn = dyn
  FunctionNames = {"f"}
  Ids = {"id1", "id2", "id3"}
  Types = {int, opt, dyn}
  ValueTypes = {int, opt}
  Opaque = {opt}
  FirstParameter <- MCFirstParameter
  MaxArity = 1
  MaxOverloads = 3
INVARIANTS TypeOK OverloadsDiffer
PROPERTIES DispatchIsStable ImplementsClaims
