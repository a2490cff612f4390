SPECIFICATION Spec
CONSTANTS
  p1 = p1  p2 = p2  ann = ann  bob = bob  setup = setup
  c1 = c1  c2 = c2  c3 = c3  c4 = c4  c5 = c5
  res = res  cap = cap  x = x  y = y  sym = sym
  A = A  B = B  MA = MA  none = none
  Parts <- TwoParts
  Actors <- TwoActors
  Correlations <- SetupClashes
  SetupCorrelation = setup
  Categories <- TwoCategories
  StartingCategories <- OneCategory
  Fields <- TwoFields
  Items <- OneItem
  Contents <- OneContent
  Codes <- OneCode
  NoCode = none
  Numbers <- UpTo3
SYMMETRY Interchangeable
CHECK_DEADLOCK FALSE
INVARIANTS
  TypeOK
  CarriedOutOnce
