SPECIFICATION PartsSpec
CONSTANTS
  csn = csn
  wx = wx
  default = default
  daily = daily
  hourly = hourly
  p1 = p1
  p2 = p2
  broken = broken
  cli = cli
  never = never
  none = none
  Crons = {"every2", "every3"}
  Fires <- MCFires
  Invalid = "invalid"
  Never = never
  Sources <- MCSources
  Threads = {1, 2, 3}
  Cli = cli
  Prompts = {p1, p2}
  Broken = broken
  Names = {default, daily, hourly}
  Default = default
  Schedules <- MCSchedules
  Fallback <- MCFallback
  Seeds <- MCSeeds
  MaxTime = 4
  Scenarios <- MCScenarios
  None = none
  LastSecond = 6
  Stages <- MCStages
  MaxEdits = 2
  NoRow = none
INVARIANTS
  PartsTypeOK
  LoopsFollowTheTable
  PaidOncePerOccurrence
  KeepsItsDistance
PROPERTIES
  PartsServed
