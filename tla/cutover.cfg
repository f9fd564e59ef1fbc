SPECIFICATION FairSpec
CONSTANTS
  Threads = {"t1", "t2"}
  WorkerOf <- MCWorkers
  Customers = {"c1", "c2"}
  Ids = {1, 2, 3}
  Files = {"first", "second", "broken", "twice", "cut"}
  OldFiles = {"second"}
  Content <- MCContent
  Codes <- MCCodes
  Specs <- MCSpecs
  Preferred <- MCPreferred
  Catalogues <- MCCatalogues
  Secret <- MCSecret
  Named <- MCNamed
  PlaceOf <- MCPlaceOf
  Opening <- MCOpening
  Barangays <- MCBarangays
  Armed = FALSE
  Duties = {{"import", "preflight", "broken", "first", "twice", "cut"}, {"import", "review", "first", "second"}, {"import", "edit", "first", "second"}, {"import", "pair", "reset", "first", "second", "kill"}, {"import", "places", "recover", "second"}, {"places", "edit"}, {"map", "import", "first", "kill"}, {"edit", "core"}, {"places", "migrate", "second"}}
  LastTick = 3
  MaxPlans = 4
  MaxImports = 2
  MaxStops = 1
INVARIANTS
  SignalsComeBack
  
  OldPairingEnds
  
PROPERTIES
  ImportEnds
CHECK_DEADLOCK FALSE
