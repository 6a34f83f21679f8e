\* One account, competing calls over two request ids, a price that changes.
CONSTANTS
  e1 = e1
  e2 = e2
  s1 = s1
  Users = {u1}
  Requests = {r1, r2}
  Episodes = {e1}
  Series = {s1}
  Calls = {c1, c2}
  NoCall = NoCall
  Packs = {2}
  MaxBalance = 3
  SpendingEnabled = TRUE
  SeriesOf <- OneSeries
  Policies <- RepricedPolicies
  Terms <- RepricedTerms
SPECIFICATION Spec
SYMMETRY Interchangeable
INVARIANTS
  OneTerminalOutcome
  DecisionSurvivesToCommit
  PaidAccessKept
  ChargedOncePerEpisode
PROPERTIES
  FairCharges
  ImplementsAccount
\* With the account and the episode deleted there is nothing left to do.
CHECK_DEADLOCK FALSE
