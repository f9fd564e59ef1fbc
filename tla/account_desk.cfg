SPECIFICATION Spec
CONSTANTS
  ana = ana
  ben = ben
  basic = basic
  gimi = gimi
  NoDate = NoDate
  NoPlan = NoPlan
  Gimi <- MCGimi
  UpgradeFee = 1
  BaseDays = 4
  CalendarMonth = 5
  Price <- MCPrice
  Customers = {ana, ben}
  Staff = {s1}
  Plans = {basic, gimi}
  Amounts = {5}
  Dates = {NoDate, 3}
  Opening <- Books
  Handlers = {"pay", "portal", "rebate", "rollback", "transfer", "forceSuspend", "sweep", "suspend"}
  Staggered = {ana}
  Paired = {ana}
  Rogue = {}
  ReadOnly = TRUE
  SuspendLimit = 2
  LastDay = 1
  MaxReceipts = 2
  MaxMoves = 1
INVARIANTS
  Reconciles
PROPERTIES
  ReceiptShowsDueDate
