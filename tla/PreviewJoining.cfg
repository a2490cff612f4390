SPECIFICATION FairSpec
CONSTANTS
  E = E  F = F  G = G
  E1 = E1  E1b = E1b  E2 = E2  E0 = E0  F2 = F2  G0 = G0  noOne = noOne
  Entries <- ThreeEntries
  EntryOf <- EntryIn
  Selections <- UpToLast
  Selection <- SelectionIn
  NoSelection <- Never
  NoOne = noOne
  Requests <- SharedFootprint
  MaxRunning = 2
CHECK_DEADLOCK FALSE
PROPERTIES
  JoiningKeepsTheExport
