CONSTANTS
  Size = 4
  Val = {a, b}
  None = None
  MaxLen = 2
SPECIFICATION Spec
INVARIANTS
  TypeOK
  NeverRefused
  ReadsContent
PROPERTIES
  ImplementsFifo
