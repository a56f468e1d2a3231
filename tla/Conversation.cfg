SPECIFICATION ConversationSpec
CONSTANTS
  Clients = {"anthropic", "openai", "responses"}
  APIs = {"anthropic", "openai", "responses", "gemini"}
  Openings <- MCOpenings
  Options <- MCOptions
  Answers <- MCAnswers
  Stops = {"endTurn", "maxTokens", "contentFilter"}
  Usages <- MCUsages
  MaxTurns = 2
INVARIANTS HistoryReachesProvider ResultsAnswerCalls  BudgetBelowMaxTokens UsageExact
CHECK_DEADLOCK FALSE
