\* Two handlers at a time, or one with everything else that can happen.
SPECIFICATION MCSpec
CONSTANTS
  b1 = b1  b2 = b2  w1 = w1  w2 = w2  job = job  None = None
  Worker = {w1, w2}
  Cron = {}
  Flex = {b1}
  MaxCheckouts = 2
  MaxPayments = 2
  Batch = 50
  StaffStatus = {"CANCELLED", "CONFIRMED"}
  LinkExpires = TRUE
  MaxFailures = 1
SYMMETRY Symmetry
INVARIANTS
  TypeOK
  NothingForNothing
  SerialBooksSound
PROPERTIES
  SerialMoneyIsKept
\* When the reservation is deleted or settled, nothing is left to do.
CHECK_DEADLOCK FALSE
