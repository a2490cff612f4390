SPECIFICATION Spec
CONSTANTS
  P = P
  Q = Q
  T = T
  U = U
  X = X
  A = A
  B = B
  C = C
  I = I
  NoItem = NoItem
  Nothing = Nothing
  Parts <- TwoParts
  Teams = {T, U}
  TeamOf <- MCTeamOf
  Ipns = {X}
  IpnOf <- SameIpn
  Contents = {A, B, C}
  First = A
  Items = {I}
  NeedsItem <- BNeedsItem
  SelectWhileSaving = TRUE
  MaxNumber = 2
  MaxIds = 4
  MaxCalls = 2
  MaxFailures = 1
INVARIANT SavesReachTheirOwnTeam
