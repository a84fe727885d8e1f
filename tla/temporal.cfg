\* Two handlers at a time, or one, on a booking of each origin.
SPECIFICATION MCFairSpec
CONSTANTS
  h1 = h1  h2 = h2  i1 = i1  s1 = s1  l1 = l1  b1 = b1  b2 = b2  r1 = r1
  ambassador1 = ambassador1  ambassador2 = ambassador2
  None = None
  flex1 = flex1  w1 = w1  job = job
  Handler = {h1, h2}
  Intent = {i1}
  Session = {s1}
  Lead = {l1}
  Booking = {b1, b2}
  Reservation = {r1}
  Profile = {ambassador1, ambassador2}
  Amount <- OneAmount
  Day <- Days
INVARIANTS
  TypeOK
  BookingsAreBacked
  NightsHeldRight
PROPERTIES
  ReportCountsOnce
  LedgerPromise
  IntentsSettle
  PaidIsNotForgotten
