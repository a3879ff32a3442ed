SPECIFICATION DeskSpec
CONSTANTS
  admin = admin
  ann = ann
  bob = bob
  old = old
  new = new
  nobody = nobody
  Workers = {1, 2, 3}
  Names = {admin, ann, bob}
  Admin = admin
  Passwords = {old, new}
  MaxId = 4
  MaxToken = 3
  Ttl = 4
  Threshold = 2
  Scenarios <- MCScenarios
  Nobody = nobody
  one = one
  two = two
  callsign = callsign
  apikey = apikey
  tick = tick
  odd = odd
  a = a
  b = b
  misfit = misfit
  blank = blank
  mask = mask
  unset = unset
  nothing = nothing
  daily = daily
  default = default
  bad = bad
  api = api
  code = code
  Desks = {one, two}
  Keys = {callsign, apikey, tick}
  Secrets = {apikey}
  Required = {callsign}
  DbOnly = {callsign}
  Toggles = {tick}
  Values = {a, b, misfit}
  Strip <- MCStrip
  Env <- MCEnv
  Fallback <- MCFallback
  Blank = blank
  Mask = mask
  Unset = unset
  Patience = 3
  Unknown = odd
  Misfit = misfit
  PolicyNames = {default, daily}
  DefaultPolicy = default
  Incoherent = bad
  Feeds = {one, two}
  Bodies = {api, code}
  Code = {code}
  Files <- MCFiles
  Installs <- MCInstalls
  FreshInstall <- MCFresh
  Troubles = 1
  Nothing = nothing
CHECK_DEADLOCK FALSE
INVARIANTS
  DeskTypeOK
  SessionsHold
  UntouchedKeepsItsValue
  RoundTrip
  ImportKeepsItsWord
PROPERTIES
  LastAdminNeedsTwo
