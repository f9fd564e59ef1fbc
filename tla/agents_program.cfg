SPECIFICATION Spec
CONSTANTS
  s1 = s1
  s2 = s2
  ada = ada
  eve = eve
  p1 = p1
  p2 = p2
  NoOne = NoOne
  Threads = {s1, s2}
  Agents = {ada, eve}
  Phones = {p1, p2}
  Duties = {{"add", "edit", "staffAdd", "open", "decline", "reopen"}, {"staffAdd", "convert", "decline", "reopen"}, {"convert", "reassign", "pay", "batch", "markPaid"}, {"convert", "close", "pay", "refund", "correct", "batch", "markPaid"}, {"convert", "pay", "transfer", "batch", "markPaid"}, {"staffAdd", "convert", "pay"}}
  Exclusive = {"add", "edit", "open", "refund", "correct", "batch", "markPaid"}
  BatchSize = 1
  Rate = 5
  Months = {1}
  MaxReferrals = 2
  MaxCustomers = 2
  MaxPaid = 2
  MaxBatches = 1
INVARIANTS
  
  
  QualifiedIsEarned
  LedgersAgree
  BatchesAreWorth
PROPERTIES
  PaidIsFinal
SYMMETRY Symmetry
