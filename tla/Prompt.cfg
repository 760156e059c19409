\* Every page of three elements, and the histories of a few turns.
CONSTANTS
  a = a
  b = b
  Words <- MCWords
  ElementKinds <- MCKinds
  MaxElements = 3
  TokenBudget = 6
  OutsideBudget = 2
  BackdropBox = 3
  KeepHead = 1
  KeepTail = 2
  Target = 8
  MaxIndex = 2
  MaxMessages = 10
  ElementWeight = 3
  Patience = 1
SPECIFICATION PromptSpec
INVARIANTS
  NothingIsLostSilently
  DialogComesFirst
  NamesAreTokens
  OnlyListedIsTouched
  WorkIsRemembered
  UngatedCallsAreAnswered
CHECK_DEADLOCK FALSE
