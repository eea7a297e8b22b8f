SPECIFICATION MCSpec
CONSTANTS
  w1 = w1  w2 = w2
  Workers = {w1, w2}
  MaxNumber = 2
  MaxChanges = 2
  Faults = TRUE
  MaxBoxes = 4  Places = {w1, w2}  Addresses = {"a1", "a2", "a3"}  Limit = 2  Calls = {1, 2}
  MaxRules = 8  TriggerOf <- TheTriggers  ActionsOf <- TheActions  Conversations = {"c1", "c2", "c3"}  Posts = {"c3"}
  PersonOf <- ThePeople  Nobody = "nobody"  MaxLeads = 4  MaxDeals = 3  MaxDepth = 2  Plans = {1}
  Handlers = {1, 2, 3, 4}  Users = {1, 2}
  MailScenes <- AllMail
  RuleScenes <- Twice
  Parts = {"rules"}
INVARIANT RepliesOnceAlways
CHECK_DEADLOCK FALSE
