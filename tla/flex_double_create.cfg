\* Two creations at a time.
SPECIFICATION Spec
CONSTANTS
  f1 = f1  f2 = f2  p1 = p1  p2 = p2  c1 = c1  c2 = c2
  flat1 = flat1  ambassador1 = ambassador1
  None = None
  Request = {p1, p2}
  Flex = {f1, f2}
  Flat = {flat1}
  Day <- Days2
  Monthly <- OneRent
  Rate = 10
  Profile = {ambassador1}
  CancelRequest = {}
  UpdateDto <- NoDtos
SYMMETRY Symmetry
PROPERTIES
  CreatedWithoutOverlap
