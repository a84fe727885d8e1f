\* Two requests at a time on one reservation, or one at a time on two.
SPECIFICATION MCSpec
CONSTANTS
  f1 = f1  f2 = f2  p1 = p1  p2 = p2  c1 = c1  c2 = c2
  flat1 = flat1  ambassador1 = ambassador1
  None = None
  Request = {p1, p2}
  Flex = {f1, f2}
  Flat = {flat1}
  Day <- Days3
  Monthly <- TwoRents
  Rate = 10
  Profile = {ambassador1}
  CancelRequest = {c1, c2}
  UpdateDto <- AllDtos
SYMMETRY Symmetry
INVARIANTS
  TypeOK
  RowsAgree
  HistoryTold
  SerialRowsSound
PROPERTIES
  LedgerPromise
  SerialOnlyRevivalDoubleBooks
  SerialReviewIsTruthful
