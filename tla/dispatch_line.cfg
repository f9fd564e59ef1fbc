SPECIFICATION Spec
CONSTANTS
  ana = ana
  dora = dora
  s1 = s1
  s2 = s2
  Customers = {ana}
  Threads = {s1, s2}
  Dispatchers = {dora}
  Admins = {dora}
  Techs = {}
  Kinds = {"REPAIR"}
  Opening <- Either
  Duties = {{"add", "done", "approve", "pay", "markInstalled", "recordDone", "jobForm", "return", "close", "reopen"}, {"add", "pay", "suspend", "location"}, {"add", "arrived", "correctTimer", "call"}, {"add", "updateStatus", "delete"}, {"create", "edit"}}
  Exclusive = {{"add", "pay", "suspend", "location"}, {"add", "arrived", "correctTimer", "call"}, {"add", "updateStatus", "delete"}, {"create", "edit"}}
  MaxTickets = 5
  MaxJobs = 1
  MaxBounces = 1
  MaxCalls = 1
  MaxSequence = 2
INVARIANTS
  TypeOK
  
SYMMETRY Symmetry
