SPECIFICATION Spec
CONSTANTS
  P = P
  Q = Q
  T = T
  U = U
  X = X
  A = A
  B = B
  C = C
  I = I
  NoItem = NoItem
  Nothing = Nothing
  Parts <- OnePart
  Teams = {T, U}
  TeamOf <- MCTeamOf
  Ipns = {X}
  IpnOf <- SameIpn
  Contents = {A, B}
  First = A
  Items = {I}
  NeedsItem <- BNeedsItem
  SelectWhileSaving = FALSE
  MaxNumber = 3
  MaxIds = 4
  MaxCalls = 2
  MaxFailures = 1
INVARIANT RetryReplays
