\* DEFAULTS.keepRecentToolResults, and sessions of up to four responses.
SPECIFICATION CompactionSpec
CONSTANTS
  Prompts = {1}
  Keeps = {0, 2}
  DefaultKeep = 5
  MaxRounds = 1
  MaxResults = 4
  MaxCuts = 1
PROPERTY RecentAreKept
CHECK_DEADLOCK FALSE
