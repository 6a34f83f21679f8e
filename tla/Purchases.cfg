\* Sandbox mode: two deliveries or synchronizations of one sale at a time.
CONSTANTS
  u1 = u1
  u2 = u2
  a1 = a1
  a2 = a2
  a3 = a3
  play = play
  web = web
  shop = shop
  x1 = x1
  p1 = p1
  i1 = i1
  i2 = i2
  Users = {u1, u2}
  Applications = {play}
  Transactions = {x1}
  Products = {p1}
  Apps = {a1}
  Ids = {i1, i2}
  Registries <- OneRegistry
  Facts <- OneFact
  Deliveries <- WebhooksOfOne
  Settings <- Sandbox
  Calls = {c1, c2}
SPECIFICATION Spec
SYMMETRY Interchangeable
INVARIANTS
  CreditsAreVerified
  LedgerIsReceipted
  RefundsFlagged
PROPERTIES
  FrozenAfterDeletion
\* After the deletion nothing need be sent.
CHECK_DEADLOCK FALSE
