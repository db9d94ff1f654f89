SPECIFICATION MatchSpec
CONSTANTS
  Level = {a, b}
  Plus = Plus
  Hash = Hash
  MaxLevels = 4
  Patterns <- MCPatterns
  Topics <- MCTopics
INVARIANTS LoopInvariant ReturnsMatches
PROPERTY Terminates
CHECK_DEADLOCK FALSE
