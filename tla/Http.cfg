SPECIFICATION FairSpec
CONSTANTS
  get = get
  post = post
  put = put
  h1 = h1
  h2 = h2
  Requests = {get, post, put}
  Idempotent = {get}
  Mutating = {post, put}
  Follows = {get, put}
  Deadlined = {put}
  FormBody = {post}
  Hosts = {h1, h2}
  HostOf <- MCHostOfRequest
  MaxRequests = 2
  MaxRetries = 1
  Every = 2
  Csrf = TRUE
  Mode = "auto"
  MaxHops = 1
  Rate = 1
  MinRate = 1
INVARIANTS BudgetIsHard MutationsAreSafe SessionIsWatched
PROPERTY EveryRequestEnds
CHECK_DEADLOCK FALSE
