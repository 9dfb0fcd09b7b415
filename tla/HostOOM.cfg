SPECIFICATION FairOOMSpec
CONSTANTS
  Settle = 2
  Cooldown = 2
  MaxDelay = 1
  PollEvery = 1
  MaxKills = 3
  MaxTime = 2
  MaxRestarts = 1
INVARIANTS KillsAccounted
PROPERTIES KillsSettle
