\* The provider asks for a result after every call the history holds.
CONSTANTS
  a = a
  b = b
  Words <- MCWords
  ElementKinds <- MCKinds
  MaxElements = 3
  TokenBudget = 6
  OutsideBudget = 2
  BackdropBox = 3
  KeepHead = 1
  KeepTail = 2
  Target = 8
  MaxIndex = 2
  MaxMessages = 10
  ElementWeight = 3
  Patience = 1
SPECIFICATION PromptSpec
INVARIANT
  EveryCallIsAnswered
CHECK_DEADLOCK FALSE
