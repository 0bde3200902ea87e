SPECIFICATION PromptSpec
CONSTANTS
  Queries = {q1, q2}
  Expirers = {e1}
  TTL = 1
  Timeout = 2
  MaxGeneration = 2
PROPERTY
  SlowVerdictIsAboutLoad
