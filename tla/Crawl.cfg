CONSTANTS
  Workers = {w1, w2}
  Urls = {"s", "x", "a", "y", "b"}
  Seeds <- MCSeeds
  InScope = {"s", "x", "a", "y"}
  SpecPath = {"x", "y"}
  Links <- MCLinks
  Redirects <- MCRedirects
  Documents <- MCDocuments
  MaxDepth = 1
  MaxPages = 3
  None = None
SPECIFICATION FairSpec
INVARIANTS QuiescenceIsExact EmissionIsBounded EveryLinkWalked
PROPERTIES SpecOpsRideOnPage CrawlEnds
CHECK_DEADLOCK FALSE
