SPECIFICATION FairSpec
CONSTANTS
  s1 = s1
  s2 = s2
  beat = beat
  juan = juan
  r1 = r1
  r2 = r2
  NoRouter = NoRouter
  NoRow = NoRow
  Threads = {s1, s2}
  Beat = beat
  Customers = {juan}
  Routers = {r1, r2}
  Duties = {{"push", "import", "approve"}, {"override", "bulkPush"}, {"override", "approve"}, {"push", "override"}, {"push", "approve", "autoSuspend"}, {"suspend", "edit", "approve"}, {"push", "approve", "edit", "autoSuspend"}, {"autoSuspend", "pay"}, {"reactivate", "pay"}, {"pay", "approve"}, {"approve", "edit", "cutBatch", "purge"}, {"autofix", "add", "bulkImport"}, {"reconcile", "delete", "approve"}, {"winbox", "deleteCustomer"}, {"push", "retry", "pay"}, {"add", "override", "retry"}, {"reconcile", "retry", "approve"}}
  Exclusive = {"edit", "import", "autofix"}
  MaxImports = 1
  MaxRestarts = 1
INVARIANTS
  SyncedIsThere
  PairedIsReviewed
  SuspendedIsCut
PROPERTIES
  
  FailedIsQueued
CHECK_DEADLOCK FALSE
