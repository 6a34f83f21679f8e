\* A failed master is uploaded again while others reconcile.
CONSTANTS
  Assets = {1}
  Objects = {o1, o2}
  NoObject = NoObject
  Absent = Absent
  Checksums = {k1}
  Calls = {c1}
  Kinds = {"add"}
  Staffing = {"together"}
SPECIFICATION Spec
SYMMETRY Interchangeable
INVARIANTS
  ReadyHasObject
\* With every row and video used up there is nothing left to do.
CHECK_DEADLOCK FALSE
