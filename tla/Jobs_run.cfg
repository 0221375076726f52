SPECIFICATION PFairSpec
CONSTANTS
  Runners = {http, sched}
  HistoryCap = 2
  MaxJobs = 3
  Pages = {p1}
  MaxPosts = 2
INVARIANTS PagesOK RunningHeads FollowsNew
PROPERTIES KeepsTable ButtonComesBack
CHECK_DEADLOCK FALSE
