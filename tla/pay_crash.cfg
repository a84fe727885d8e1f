\* A crash between crediting a payment and confirming the reservation.
SPECIFICATION FairSpec
CONSTANTS
  b1 = b1  b2 = b2  w1 = w1  w2 = w2  job = job  None = None
  Worker = {w1, job}
  Cron = {job}
  Flex = {b1}
  MaxCheckouts = 1
  MaxPayments = 1
  Batch = 50
  StaffStatus = {}
  LinkExpires = FALSE
  MaxFailures = 1
PROPERTIES
  ApprovedConfirms
CHECK_DEADLOCK FALSE
