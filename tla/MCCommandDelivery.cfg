SPECIFICATION FairSpec
CONSTANTS
  Commands = {write, apply, prompt, prompt2}
  Supervised = {write, apply}
  NeverRetry = {write}
  HubQuota = 2
  NodeQuota = 1
  MaxCommands = 2
  MaxCrashes = 1
  MaxDrops = 1
CHECK_DEADLOCK FALSE
INVARIANTS TypeOK SentIsOwed AtMostOnce
 
