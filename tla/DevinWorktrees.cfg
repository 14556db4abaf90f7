SPECIFICATION LiveSpec
CONSTANTS
  Sessions = {1, 2}
  MaxProcs = 2
  MaxAsks = 2
  MaxIndex = 2
  Budgets <- MCBudgets
INVARIANTS
  AnswersFindTheAsker
PROPERTIES
  WorktreesAreFresh
  FinishedWorkIsProtected
  AsksAreAnswered
CHECK_DEADLOCK FALSE
