SPECIFICATION Spec
CONSTANTS
  s1 = s1
  s2 = s2
  c1 = c1
  boss = boss
  dora = dora
  a1 = a1
  a2 = a2
  Threads = {s1, s2}
  Customers = {c1}
  Staff = {boss, dora}
  Boss = boss
  Applicants = {a1, a2}
  NameOf <- MCNames
  Numbers = {"t1", "t2"}
  Crowded = FALSE
  Labels <- MCLabels
  Words <- MCWords
  Duties = {{"submit", "done", "stop", "deleteTicket"}, {"submit", "form", "done", "delete"}, {"desk", "dispatch", "undispatch", "done"}, {"desk", "options", "dispatch", "done"}, {"desk", "form", "dispatch"}, {"submit", "sla", "clock", "pay", "done"}, {"submit", "check", "verify", "clock", "assign"}, {"submit", "assign", "status", "approve"}}
  Exclusive = {"pay", "desk", "options"}
  Lone = {"sla", "check"}
  Opening <- MCOpening
  Stocks = {{"Done"}, {"Done", "Ongoing", "Cancelled", "Pending"}}
  PayTime = 3
  MaxRecords = 2
  MaxLogs = 3
  MaxDesk = 1
  MaxStops = 1
  LastTime = 4
INVARIANTS
  
  SlaDaysMatch
  
  AlertsSpaced
CHECK_DEADLOCK FALSE
SYMMETRY Symmetry
