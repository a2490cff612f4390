SPECIFICATION SpecAll
CONSTANTS
  MaxTokens = 2
  MaxEntries = 2
  MaxActs = 4
  MaxFailures = 1
  MaxCrashes = 1
  ListObservers = {"list"}
  ListRestarts = 0
  FileObservers = {"writer"}
  FileRestarts = 1
  MaxSeq = 2
  MaxCatchUps = 1
  MaxSessions = 2
  FolderThreads = {"t1", "t2"}
  FirstThread = "t1"
  Categories = {"c1", "c2"}
  Category = "c1"
  MaxRevisions = 2
  MaxChanges = 1
  MaxFaults = 1
  MaxStarts = 2
  Scans = {{"l1"}, {"l1", "l2"}}
  Followers = {"check"}
  LayoutTeams = 2
  MaxCommits = 2
  LayoutEvents = 2
  RepoTeams = {"team1"}
  Addresses = {"https", "ssh"}
  RepoEvents = 2
INVARIANTS
  TypeOK
  SignedOutStaysOut
  SignedOutForgets
  KnownPartsAreCurrent
  FileStaysDeleted
  NothingIsMissing
  
  ReviewIsKept
  
  GitMeetsItsOwnCopy
PROPERTIES
  OnlyRefusedEnd
  NewestTokenIsKept
  FileNeverGoesBack
  OnlyItsServerWrites
CHECK_DEADLOCK FALSE
