CONSTANTS
  Names <- MCNames
  Kind <- MCKind
  Version <- MCVersion
  Trees <- MCTrees
  Keep = 1
  MaxBuilds = 4
SPECIFICATION Spec
 
PROPERTIES KeepsNewest ImplementsStore
