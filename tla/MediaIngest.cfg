\* Two requests and the other Admin actions, in any order or one at a time.
CONSTANTS
  Assets = {1, 2, 3}
  Objects = {o1, o2}
  NoObject = NoObject
  Absent = Absent
  Checksums = {k1, k2}
  Calls = {c1, c2}
  Kinds = {"add", "complete", "page"}
  Staffing = {"alone", "together"}
SPECIFICATION Spec
CONSTRAINT TwoRowsTogether
SYMMETRY Interchangeable
INVARIANTS
  TypeOK
  ReadyWasEncoded
  RemovedIsGone
  NothingForgotten
PROPERTIES
  LegalTransitionsAlone
\* With every row and video used up there is nothing left to do.
CHECK_DEADLOCK FALSE
