SPECIFICATION Spec
CONSTANTS
  Fields <- MCFields
  Types = {"int", "string"}
INVARIANTS InstanceIsProvidedOverDefaults ErrorsHaveReasons
