\* Two viewers, two callbacks or creations at a time.
CONSTANTS
  u1 = u1
  u2 = u2
  e1 = e1
  e2 = e2
  r1 = r1
  r2 = r2
  a1 = a1
  x1 = x1
  x2 = x2
  Users = {u1, u2}
  Episodes = {e1, e2}
  Requests = {r1, r2}
  Units = {a1}
  Txns = {x1, x2}
  Terms = {t1, t2}
  Offering = {t1}
  Initially = t1
  SigningKeys = {k1}
  Callbacks <- SomeCallbacks
  Wishes <- SomeWishes
  Calls = {c1, c2}
  Lifetime = 1
  Early = 1
  Ahead = 1
  MaxAge = 2
  Pause = 1
  Horizon = 2
SPECIFICATION Spec
CONSTRAINT FewChanges
SYMMETRY Interchangeable
INVARIANTS
  GrantedOnce
  AnswersStand
PROPERTIES
  GrantsAreFair
  KeysAreFresh
CHECK_DEADLOCK FALSE
