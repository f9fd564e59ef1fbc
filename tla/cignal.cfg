SPECIFICATION Spec
CONSTANTS
  s1 = s1
  s2 = s2
  c1 = c1
  Threads = {s1, s2}
  Customers = {c1}
  Duties = {{"portal", "resolve", "activate", "approve"}, {"activate", "pay", "cancel"}, {"form", "pay", "edit", "clock"}, {"activate", "cancel", "restore", "crew"}, {"approve", "portal", "cancel", "restore", "purge"}}
  Exclusive = {"edit", "crew"}
  Months = 2
  LoadDays = 2
  SoonDays = 1
  NoticeDays = 1
  BoxFee = 2
  BothFee = 3
  CashFee = 4
  Offers <- MCOffers
  Payments <- MCPayments
  Corrections <- MCCorrections
  MaxPlays = 2
  MaxRequests = 1
  MaxPaid = 4
  LastDay = 2
  LastDue = 5
INVARIANTS
  PaidIsReceipted
  LoadsAddUp
  JobHasPlan
SYMMETRY Symmetry
