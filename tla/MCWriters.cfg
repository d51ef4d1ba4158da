SPECIFICATION MCSpec
CONSTANTS
  c1 = c1 c2 = c2
  Systems = {s1, s2}
  EndsWith <- MCEndsWith
  Order <- MCOrder
  None = None
  New = New
  Runs = {r1, r2}
  MaxRuns = 3
  MaxTriage = 2
  RegisterCalls = {k1, k2}
  MaxCalls = 3
  MaxRisks = 2
  MaxImpact = 2
  Calls = {y1, y2, y3}
  LiveTypes = {users, mfa}
  DemoTypes = {users, mfa, logs}
  vanta = vanta drata = drata hub = hub
  Measures = {c1, c2}
  Platforms = {vanta, drata}
  Declares <- MCDeclares
  Speaks <- MCSpeaks
  Crosswalks <- MCCrosswalks
  Reports <- MCReports
  Connectors <- MCConnectors
  Policies <- MCPolicies
  Traffic <- MCTraffic
  GrcCalls = {g1, g2}
  Days = {14, 16}
  MaxDay = 30
  MaxSteps = 3
  MaxPages = 2
SYMMETRY Requests
INVARIANTS  LinkedHasItsRisk SyncIsTrue TrustIsEarned
PROPERTY AgeNeverHelps
