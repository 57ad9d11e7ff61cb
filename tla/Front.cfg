CONSTANTS
  Names = {n1, n2}
  Emails = {e1, e2}
  Passwords = {"short", "long", "other"}
  LongEnough = {"long", "other"}
  Admin = "admin"
  AdminPassword = "long"
  FirstId = 2
  MaxUsers = 2
  TokenLife = 0
  MaxTime = 1
  Keys = {k1, k2}
  Nothing = Nothing
  Callers = {c1, c2}
  Routes <- SomeRoutes
  Paths <- SomePaths
  Addresses <- SomeAddresses
  Clients = {d1, d2}
  Registered <- SomeRegistered
  Asked = {"bad", "order", "depth", "order 5"}
  MaxStarts = 2
SPECIFICATION Spec
INVARIANTS   RestSound
PROPERTIES RestMoves
CHECK_DEADLOCK FALSE
