SPECIFICATION Spec
CONSTANTS
  a = a
  b = b
  c = c
  Repos = {a, b, c}
  PageOf <- Listing
  Include = {}
  Exclude = {c}
  Providers = {"github", "gitlab"}
  Pages <- TwoSections
  API <- GitHubAPI
  Origins <- Anywhere
  Lister = "list"
  Deadline = 3
  MaxWait = 2
  RateLimitWaits = 2
  ServerErrorAttempts = 2
  Slack = 0
  Jitter = 0
  UnnamedWait = 1
  Backoff = 0
  Window = 2
  RetryAfter <- Named
  RequestTimeout = 1
  TokenLife = 2
  Skew <- HostIsFast
  MaxLimits = 1
SYMMETRY Alike
INVARIANTS TypeOK BudgetIsTimeWaited LimitWaitedOut AsksBetweenWaits AnswersAreWhole TokenOutlastsRequest
CHECK_DEADLOCK FALSE
