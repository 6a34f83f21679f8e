\* Test mode: processes with different registries, two applications, two apps.
CONSTANTS
  u1 = u1
  u2 = u2
  a1 = a1
  a2 = a2
  a3 = a3
  play = play
  web = web
  shop = shop
  x1 = x1
  p1 = p1
  i1 = i1
  i2 = i2
  Users = {u1}
  Applications = {play, web, shop}
  Transactions = {x1}
  Products = {p1}
  Apps = {a1, a2, a3}
  Ids = {i1, i2}
  Registries <- ChangingRegistries
  Facts <- EitherApp
  Deliveries <- WebhooksOfBoth
  Settings <- Local
  Calls = {c1, c2}
SPECIFICATION FairSpec
INVARIANTS
  CreditedOnce
PROPERTIES
  BarrierKept
  CallsEnd
CHECK_DEADLOCK FALSE
