SPECIFICATION Spec
CONSTANTS
  p = p  q = q
  Parts <- BothParts
  Published <- Kinds
  MaxChanges = 2
  MaxFailures = 1
INVARIANTS
  InStepWhenItSaysSo
