SPECIFICATION MCSpec
CONSTANTS
  room1 = room1  widget1 = widget1  widget2 = widget2  hotelA = hotelA  hotelB = hotelB
  q1 = q1  q2 = q2  f1 = f1  f2 = f2  flat1 = flat1  papers = papers
  ana = ana  lea = lea  max = max
  lead1 = lead1  promo1 = promo1  news1 = news1  booking1 = booking1
  k1 = k1  k2 = k2  k3 = k3  shell1 = shell1  shell2 = shell2
  stay1 = stay1  stay2 = stay2  works = works  u1 = u1  u2 = u2
  Absent = Absent  Missing = Missing  Bad = Bad  Empty = Empty  Nothing = Nothing  NoUnit = NoUnit
  Date <- Dates
  Now = 2
  Room = {room1}
  Widget = {widget1, widget2}
  Place = {hotelA, hotelB}
  placeOf <- Mapped
  unitsOf <- Rooms
  Total = {5}
  Legacy <- OldUrls
  File = {f1, f2}
  Home = {flat1}
  Slot = {papers}
  Request = {q1, q2}
  Uploader = {ana}
  ownerOf <- Owners
  User = {lea, max}
  Role = {"ADMIN", "OPERATOR"}
  holders <- Holders
  Event = {lead1, promo1, news1, booking1}
  kindOf <- Kinds
  person = max
  Limit = 1
  Caller = {k1, k2, k3}
  Shell = {shell1, shell2}
  MaxConcurrent = 1
  MaxAttempts = 2
  Ttl = 0
  MaxStale = 1
  MaxAge = 1
  Flight = 1
  Horizon = 3
  Stay = {stay1, stay2}
  Staff = {works}
  Unit = {u1, u2}
  typeOf <- Types
  Day <- Days
INVARIANTS
  TypeOK
  ReportToldRight
  ShownRight
  PeopleAreTold
  CallsAccounted
  ServedInTime
  CellsTellFreeUnits
\* Each service may come to an end: every file confirmed, every event told.
CHECK_DEADLOCK FALSE
