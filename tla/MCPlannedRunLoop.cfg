SPECIFICATION Spec
CONSTANTS
  Workspaces <- MCLoopWorkspaces
  Actions <- MCActions
  DomainNames <- MCDomains
  Primary = "web"
  Items <- MCItems
  Scraped <- MCScraped
  Counts <- MCCounts
  MaxDepth = 4
INVARIANTS
  LoopVariablesAreBound
CHECK_DEADLOCK FALSE
