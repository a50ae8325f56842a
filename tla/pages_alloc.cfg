SPECIFICATION PageSpec
CONSTANTS
  PAGE_FRAME_MAX_ORDER = 2
  TotalPages = 11
  Maps <- MCMaps
  BeyondReserved = FALSE
  Requests <- MCRequests
  XsdtIsHead = FALSE
INVARIANTS
  PageTypeOK
  PagesArePartitioned
  BlocksAreWhole
PROPERTIES
  FailsOnlyWithoutRoom
