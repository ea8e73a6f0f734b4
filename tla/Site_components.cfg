\* A general-asset intent's decisions; the house; sign-in, compilation, publication, commerce.
CONSTANTS
  s1 = s1
  null = null
  x1 = x1
  x2 = x2
  y1 = y1
  y2 = y2
  Parts = {"intake", "house", "auth", "leases", "composer", "commerce", "guided"}
  Requests = {x1, x2}
  Solvers = {s1}
  MaxRevisions = 2
  ClosesAt = 2
  MaxTime = 2
  GeneralAsset = TRUE
  Faults = {"death", "caught", "uncaught"}
  Unscored = {}
  None = null
  House = s1
  Publications = {x1, x2}
  Blocks = {"b1", "b2"}
  Owners = {y1, y2}
  Nonces = {"n1", "n2"}
  AuthRequests = {x1, x2}
  ChallengeLifetime = 2
  AuthClock = 2
  Drafters = {y1, y2}
  Goals = {"g1"}
  CompileRoutes = {x1, x2}
  OwnerLimit = 2
  ClientLimit = 3
  RateWindow = 2
  CacheLifetime = 3
  LeaseLifetime = 2
  RouteDuration = 1
  EvidenceLifetimes = {1}
  MaxLeases = 4
  LeaseClock = 2
  Accounts = {y1, y2}
  GoalTexts = {"g1", "g2"}
  MaxPosts = 1
  Purchases = {x1, x2}
  MinimumConfirmations = 2
  MaxDepth = 2
  Callers = {x1, x2}
  RouteLength = 2
  RecoveryBlocks = 2
  Scenarios <- GuidedScenarios
SPECIFICATION SiteSpec
SYMMETRY SiteSymmetry
INVARIANTS
  TypeOK
  OneHandlerPerOffer
  HandlersOwnTheirRows
  AppendsOwnTheSolver
  CommunityTablesAgree
  AuthorityIsVerified
  HistoryIsContiguous
  HouseProgramsAreWhole
  OneSessionPerChallenge
  OneCompilationPerOwner
  RateIsLimited
  PublishedByItsDrafter
  PaymentIsSentOnce
  ConfirmedIsPaid
  ConfirmedIsLanded
  RowsFollowTheRoute
  StepsLandOnce
PROPERTIES
  GrantedInTime
  AuthorityNeverReturns
  CommunityImplementsLedger
  SettledRowsStay
CHECK_DEADLOCK FALSE
