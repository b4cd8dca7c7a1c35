CONSTANTS
  Alphabet <- MCAlphabet
  Ways = 2
  MaxDigits = 2
  Invalid = 9999
  MaxSet = 2
  Lines <- MCLines
  Texts <- MCTexts
  TableSize = 12
  MaxRefusals = 1
SPECIFICATION Spec
INVARIANTS KernelReadsLine ReadsExactly
CHECK_DEADLOCK FALSE
