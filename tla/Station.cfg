SPECIFICATION StationSpec
CONSTANTS
  desk = desk
  p1 = p1
  p2 = p2
  phone = phone
  live = live
  backup = backup
  Tabs = {desk, phone}
  Conns = {1, 2, 3}
  Slots = {p1, p2}
  Urls = {live, backup}
  Nowhere = nowhere
  Nobody = nobody
  QueueMax = 2
  Scenarios <- MCScenarios
  Heartbeat = 1
  Stale = 2
  RetryWait = 3
  MaxKeyed = 3
  KeyedStale = 6
  MaxLog = 2
  MaxLines = 3
  Weathers <- MCWeathers
  Units <- MCUnits
  Numerals <- MCNumerals
  ManualWord = 9002
  WatermarkWord = 9003
  Knobs <- MCKnobs
  RenderMax = 1
  LastStart = 1
  MaxClock = 5
  MaxAirings = 2
CHECK_DEADLOCK FALSE
INVARIANTS
  StationTypeOK
  HubKeepsFaith
  IndicatorFollowsLog
  ClipsTellTheTruth
PROPERTIES
  StationRecovers
