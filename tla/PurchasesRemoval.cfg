\* Test mode: a registry from which the app is removed.
CONSTANTS
  u1 = u1
  u2 = u2
  a1 = a1
  a2 = a2
  a3 = a3
  play = play
  web = web
  shop = shop
  x1 = x1
  p1 = p1
  i1 = i1
  i2 = i2
  Users = {u1}
  Applications = {play, shop}
  Transactions = {x1}
  Products = {p1}
  Apps = {a1, a3}
  Ids = {i1, i2}
  Registries <- AppRemoved
  Facts <- OneFact
  Deliveries <- PurchaseAndRefund
  Settings <- Local
  Calls = {c1}
SPECIFICATION Spec
INVARIANTS
  RefundsFlagged
CHECK_DEADLOCK FALSE
