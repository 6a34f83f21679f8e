\* Packs: two, two members of staff and a buyer; the window is three units of time.
\* Phone: two accounts, one with auto-unlock, two episodes, two fresh request ids, a
\* screen and a player; two attempts to pay and two screens of packs.
CONSTANTS
  Packs = {p1, p2}
  Staff = {s1, s2}
  Buyers = {b1}
  Forms <- SomeForms
  Floor = 2
  Honor = 3
  Saving = 1
  Ahead = 1
  Horizon = 3
  Viewers = {o1, o2}
  AutoOn = {o1}
  Attempts = {i1, i2}
  Coordinators = {c1, c2}
  Episodes = {e1, e2}
  Requests = {r0, r1, r2}
  oldRequest = r0
  Legacy <- OldMarkers
  Screens = {u1}
  Players = {u2}
  None = None
SPECIFICATION ShopSpec
SYMMETRY Interchangeable
CONSTRAINTS
  UntilCredited
  FewRequests
INVARIANTS
  ShownIsHonored
  UnansweredIsRecoverable
  OneUnanswered
  PaidIsMarked
