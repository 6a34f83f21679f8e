\* A signed upload is completed while other Admin actions run.
CONSTANTS
  Assets = {1}
  Objects = {o1}
  NoObject = NoObject
  Absent = Absent
  Checksums = {k1}
  Calls = {c1}
  Kinds = {"complete"}
  Staffing = {"together"}
SPECIFICATION Spec
SYMMETRY Interchangeable
PROPERTIES
  LegalTransitions
\* With every row and video used up there is nothing left to do.
CHECK_DEADLOCK FALSE
