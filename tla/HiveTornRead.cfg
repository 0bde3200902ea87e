SPECIFICATION RecoverySpec
CONSTANTS
  MaxPages = 2
  FirstSize = 2
  Changes <- MCChanges
  Past <- MCPast
  MaxCommits = 4
INVARIANTS
  ReadIsOneGeneration
