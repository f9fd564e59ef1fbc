SPECIFICATION Spec
CONSTANTS
  ana = ana
  ben = ben
  basic = basic
  gimi = gimi
  NoDate = NoDate
  NoPlan = NoPlan
  Gimi <- MCGimi
  UpgradeFee = 1
  BaseDays = 4
  CalendarMonth = 5
  Price <- MCPrice
  Customers = {ana}
  Staff = {s1, s2}
  Plans = {basic}
  Amounts = {3}
  Dates = {NoDate, 3}
  Opening <- Running
  Handlers = {"portal", "editPayment", "rebate", "editBalance", "editExpiration", "suspend", "forceReactivate"}
  Staggered = {ana}
  Paired = {ana}
  Rogue = {ana}
  ReadOnly = FALSE
  SuspendLimit = 2
  LastDay = 1
  MaxReceipts = 1
  MaxMoves = 1
INVARIANTS
  TypeOK
PROPERTIES
  RenewalKeepsPaidDays
SYMMETRY Symmetry
