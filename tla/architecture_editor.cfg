SPECIFICATION Spec
CONSTANTS
  shop = shop
  generators = generators
  none = none
  Names = {shop, generators}
  NoName = none
  Word = generators
  OperationInput = {generators}
  MaxElements = 5
INVARIANTS
  EditorInvariant
  SelectsReferToServices
  JsonFollowsForm
CHECK_DEADLOCK FALSE
