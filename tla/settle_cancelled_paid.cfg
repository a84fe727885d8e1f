\* A cancelled commission in a draft that is paid.
SPECIFICATION Spec
CONSTANTS
  b1 = b1  b2 = b2  s1 = s1  s2 = s2  e1 = e1  e2 = e2  a1 = a1  a2 = a2
  None = None
  Id = {b1}
  Staff = {e1}
  Settlement = {s1}
  Profile = {a1}
  Amount = {0}
SYMMETRY Symmetry
PROPERTIES
  CancelledNotPaid
