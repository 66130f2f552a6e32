SPECIFICATION FairSpec
CONSTANTS
  sse = sse
  discord = discord
  c1 = c1
  w1 = w1
  Subscribers = {sse, discord}
  Broker = sse
  Clients = {c1}
  EventTypes = {"worker", "media"}
  Wanted <- MCWanted
  BufSize = 1
  ClientBuf = 1
  MaxEvents = 2
  Loops = {w1}
  Registered = {w1}
  Intervals = {1, 2}
  SettingsBuf = 1
  MaxUpdates = 2
  Budgets <- MCBudgets
INVARIANTS
  EventsDelivered
  IntervalCurrentOrTold
PROPERTIES
  SlowSubscriberAlone
  TriggerDuringRunCounts
  ShutdownCompletes
CHECK_DEADLOCK FALSE
