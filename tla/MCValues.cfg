SPECIFICATION Spec
CONSTANTS
  Kinds = {"params", "link", "query", "cookie"}
  MaxNesting = 2
  MaxText = 4
  Budget = 2
  Allowed <- MCAllowed
  Texts <- MCTexts
  Arrays <- MCArrays
  Names <- MCNames
  Operands <- MCOperands
INVARIANTS ParsedAsWritten WrittenIsReadBack UpdateIsMerge
CHECK_DEADLOCK FALSE
