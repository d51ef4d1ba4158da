SPECIFICATION MCSpec
CONSTANTS
  Workers = {w1, w2}
  Nobody = Nobody
  Attempts = 2
  MaxIds = 2
  MaxDamage = 2
  MaxChecks = 1
  Unhashed = {2}
  MaxRows = 5
  MaxAnchors = 1
  MaxTreeDamage = 1
  h1 = h1 h2 = h2 n1 = n1 n2 = n2
  Hosts = {h1, h2}
  Requests = {k1, k2}
  Nodes = {n1, n2}
  Batches <- MCBatches
  MaxSwitches = 2
  MaxVersions = 4
  MaxPosts = 2
  MaxDecisions = 2
  Contents = {t1}
  Answers <- MCAnswers
  Controls = {1, 2}
  Maps <- MCMaps
  Strategies <- MCStrategies
  Default <- MCDefault
  ByConcept <- MCByConcept
  ByControl <- MCByControl
  DocumentRequests = {r1, r2}
  Owners = {o1, None}
  DayLength = 200
  MaxDay = 2
  MaxBegun = 3
  Items <- MCItems
  MaxItems = 2
  None = None
SYMMETRY Writers
INVARIANTS StoreKeepsItsWord TreeIsBinding AcknowledgedModeShows AccountsAgree EvidenceStands FindingsAreFaithful SummariesAgree
