SPECIFICATION Spec
CONSTANTS
  ana = ana
  ben = ben
  basic = basic
  gimi = gimi
  NoDate = NoDate
  NoPlan = NoPlan
  Gimi <- MCGimi
  UpgradeFee = 1
  BaseDays = 4
  CalendarMonth = 5
  Price <- MCPrice
  Customers = {ana, ben}
  Staff = {s1, s2}
  Plans = {basic}
  Amounts = {2, 3}
  Dates = {NoDate}
  Opening <- Pairs
  Handlers = {"pay", "transfer"}
  Staggered = {}
  Paired = {}
  Rogue = {}
  ReadOnly = TRUE
  SuspendLimit = 1
  LastDay = 1
  MaxReceipts = 2
  MaxMoves = 1
INVARIANTS
  MoneyIsConserved
