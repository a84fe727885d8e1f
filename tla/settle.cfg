\* Two staff requests at a time on one commission, or one at a time on two.
SPECIFICATION MCSpec
CONSTANTS
  b1 = b1  b2 = b2  s1 = s1  s2 = s2  e1 = e1  e2 = e2  a1 = a1  a2 = a2
  None = None
  Id = {b1, b2}
  Staff = {e1, e2}
  Settlement = {s1, s2}
  Profile = {a1, a2}
  Amount = {0, 1}
SYMMETRY Symmetry
INVARIANTS
  TypeOK
  SettledStandApart
  PaysWhoEarned
  SerialTotalsPaid
PROPERTIES
  SettledAmountFrozen
  SerialNeverResettled
