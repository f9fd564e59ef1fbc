SPECIFICATION Spec
CONSTANTS
  adam = adam
  ana = ana
  dora = dora
  s1 = s1
  s2 = s2
  teo = teo
  tim = tim
  Customers = {ana}
  Threads = {s1, s2}
  Dispatchers = {dora}
  Admins = {adam}
  Techs = {teo, tim}
  Kinds = {"REPAIR"}
  Opening <- Subscriber
  Duties = {{"create", "assign", "replace", "undispatch"}, {"create", "qa", "bounce", "adminBounce"}, {"create", "qa", "approve", "adminBounce"}, {"create", "bounce", "approve"}, {"create", "call", "location", "delete"}}
  Exclusive = {}
  MaxTickets = 5
  MaxJobs = 1
  MaxBounces = 2
  MaxCalls = 1
  MaxSequence = 3
INVARIANTS
  SomeoneIsSeated
  SignedOff
  PatternsFlagged
SYMMETRY Symmetry
