\* Two accounts contending for one series, with nothing to spend (locks do not
\* depend on it): does every call end?
CONSTANTS
  e1 = e1
  e2 = e2
  s1 = s1
  Users = {u1, u2}
  Requests = {r1}
  Episodes = {e1}
  Series = {s1}
  Calls = {c1, c2}
  NoCall = NoCall
  Packs = {}
  MaxBalance = 0
  SpendingEnabled = TRUE
  SeriesOf <- OneSeries
  Policies <- OnePolicy
  Terms <- SaleTerms
SPECIFICATION FairSpec
PROPERTIES
  CallsEnd
\* With the accounts and the episode deleted there is nothing left to do.
CHECK_DEADLOCK FALSE
