SPECIFICATION FairSpec
CONSTANTS
  Threads = {"t1", "t2"}
  Ids = {1, 2}
  Names = {"rey", "root", "joy"}
  Agents = {"a1"}
  Roles = {"Admin", "CSR", "Agent", "Technician", "Cashier"}
  Edited = {"CSR", "Cashier"}
  Offered = {"Admin", "CSR", "Agent"}
  Tabs = {"payments"}
  Subscribers = {"ana", "ben"}
  Devices = {"home", "phone"}
  Ips = {"ip1"}
  Openings <- MCOpenings
  Duties = {{"list", "add", "edit", "delete", "signin"}, {"list", "edit", "setup"}, {"list", "roles", "setup"}, {"agent", "list", "delete", "signin"}, {"link", "setup", "rbac"}, {"reset", "welcome", "change", "desk", "bulk", "days"}, {"reset", "change", "desk", "kill", "days"}, {"login", "clock"}, {"page", "logout", "poll", "clock"}}
  Exclusive = {"edit", "desk", "bulk", "page"}
  Life = 2
  MaxTries = 2
  LockTime = 3
  MaxPosts = 3
  Window = 1
  Lately = 1
  MaxPasswords = 3
  Sampled = 2
INVARIANTS
  MirrorFollows
  CounterCanPay
  HandedWorks
PROPERTIES
  DoorOpens
CHECK_DEADLOCK FALSE
