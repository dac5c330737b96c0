SPECIFICATION FairSpec
CONSTANT MaxMedia = 4
INVARIANT AppsrcLifetime
PROPERTIES ClientFed DeinitReturns
CHECK_DEADLOCK FALSE
