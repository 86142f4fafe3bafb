SPECIFICATION Spec
CONSTANTS
  a = a
  b = b
  bound = bound
  resolved = resolved
  body = body
  Names = {a, b}
  Values = {bound}
  Resolved <- MCResolved
  Resolvers <- MCResolvers
  Functions = {"f"}
  Bodies = {body}
  MaxChildren = 2
  MaxLive = 3
INVARIANTS TypeOK
PROPERTIES Isolation ImplementsEnvironment
