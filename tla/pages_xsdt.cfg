SPECIFICATION PageSpec
CONSTANTS
  PAGE_FRAME_MAX_ORDER = 2
  TotalPages = 11
  Maps <- MCNoHoles
  BeyondReserved = TRUE
  Requests <- MCOne
  XsdtIsHead = TRUE
INVARIANTS
  ListsHoldPagesOfTheMap
