\* A user and a guest with two requests at a time, and an operator.
CONSTANTS
  Uids = {u1}
  Earlier = {}
  Devices = {d1}
  Active = {u1, d1}
  Headers <- SomeHeaders
  DeviceIds <- SomeDeviceIds
  Episodes = {e1}
  Duration = 100
  Reports <- SomeReports
  Calls = {c1, c2}
  Workers = {w1}
  Limit = 1
SPECIFICATION FairSpec
INVARIANTS
  TypeOK
  DeletedStaysDeleted
  LoserFindsRow
PROPERTIES
  CompletedIsSticky
  DeletionsComplete
