SPECIFICATION Spec
CONSTANTS
    Suggestions = {"fix", "better"}
    Me = "me"
    MaxUnderWay = 2
    Lines = {1, 2}
    Answers = {"answer"}
    InOrder = TRUE
    Budgets <- MCBudgets
INVARIANTS
  SeenRepliesWereShown
  SuggestionIsAppliedOnce
  OwnRepliesAreKnown
  OneTaskPerConversation
PROPERTIES
  LocalResolveSticks
  AnswersUnblock
CHECK_DEADLOCK FALSE
