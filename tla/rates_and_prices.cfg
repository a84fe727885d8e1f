SPECIFICATION MCSpec
CONSTANTS
  a1 = a1  a2 = a2  flat1 = flat1  hotel1 = hotel1  seller1 = seller1  sale1 = sale1
  e1 = e1  e2 = e2  plan1 = plan1  plan2 = plan2
  ars = ars  usd = usd
  NoRate = NoRate
  NoLimit = NoLimit
  NoPlan = NoPlan
  Currency = {ars, usd}
  Admin = {a1, a2}
  FlexHome = {flat1}
  Hotel = {hotel1}
  Seller = {seller1}
  Sale = {sale1}
  Rate <- Rates
  Base <- Bases
  Editor = {e1, e2}
  Plan = {plan1, plan2}
  Months <- MonthsOfStay
  Rent <- Rents
  MonthStart <- Calendar
  Today = 1
  Horizon = 2
  StayMonths <- MonthsOfStay
  LastDay = 9
INVARIANTS
  TypeOK
  CommissionsAgreed
  OffersRight
PROPERTIES
  OnlyPendingRepriced
  RangesStayOrdered
SYMMETRY Symmetry
