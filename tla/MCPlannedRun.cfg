SPECIFICATION Spec
CONSTANTS
  Workspaces <- MCWorkspaces
  Actions <- MCActions
  DomainNames <- MCDomains
  Primary = "web"
  Items <- MCItems
  Scraped <- MCScraped
  Counts <- MCCounts
  MaxDepth = 4
INVARIANTS
  AcceptedPlansAreSound
  NothingUncheckedIsOpened
  NoReferenceIsStored
CHECK_DEADLOCK FALSE
