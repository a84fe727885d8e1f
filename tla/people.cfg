SPECIFICATION MCSpec
CONSTANTS
  d1 = d1  d2 = d2  ana = ana  bea = bea  leo = leo
  firm1 = firm1  firm2 = firm2  tax1 = tax1
  c1 = c1  c2 = c2  user1 = user1  s1 = s1  s2 = s2  s3 = s3
  ticket1 = ticket1  ticket2 = ticket2
  Nobody = Nobody
  Desk = {d1, d2}
  Person = {ana, bea, leo}
  Firm = {firm1, firm2}
  TaxId = {tax1}
  Client = {c1, c2}
  User = {user1}
  Session = {s1, s2, s3}
  Ticket = {ticket1, ticket2}
  MaxResets = 1
INVARIANTS
  TypeOK
  StandingIsBacked
  AccessEnds
PROPERTIES
  ReviewNotReplaced
SYMMETRY Symmetry
\* In the scenes about one user, nothing is left to do when it is deleted.
CHECK_DEADLOCK FALSE
